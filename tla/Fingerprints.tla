---------------------------- MODULE Fingerprints ----------------------------
(***************************************************************************)
(* The fingerprint of a deployment identity, computed by the orchestrator  *)
(* in Python and by the executor in Go.  Both hash the JSON of the five    *)
(* columns with sorted keys and no spaces, after trimming each column.     *)
(* They differ in two details:                                             *)
(*   - json.Marshal writes &, <, > and the separators U+2028 and U+2029 as *)
(*     \u0026, \u003c, \u003e, \u2028 and \u2029, json.dumps (without       *)
(*     ensure_ascii) writes the characters;                                *)
(*   - str.strip() also removes the separators U+001C to U+001F, which     *)
(*     neither strings.TrimSpace nor the request schemas remove.           *)
(* Quotes, backslashes and control characters are written alike by both    *)
(* (by Go since 1.22; the executors are built with 1.23), and text that is *)
(* not valid Unicode is refused by the schemas.  Only the project is free  *)
(* text; the schemas restrict the other columns to characters on which the *)
(* two agree.  A digest is the text that is hashed (SHA-256 has no         *)
(* collisions here, and no two projects of Name differ by such separators  *)
(* at an end alone).                                                       *)
(***************************************************************************)
CONSTANTS
  Name,     \* the projects
  Escaped,  \* those with, once trimmed, a character that only Go escapes
  Padded,   \* those with a separator at an end that only Python strips
  Release   \* the other columns

ASSUME NamesSplit == Escaped \subseteq Name /\ Padded \subseteq Name

Digest == [name: Name, escaped: BOOLEAN, padded: BOOLEAN, release: Release]

(* fingerprint.py *)
PythonFingerprint(name, release) ==
  [name |-> name, escaped |-> FALSE, padded |-> FALSE, release |-> release]

(* core.go *)
GoFingerprint(name, release) ==
  [name |-> name, escaped |-> name \in Escaped, padded |-> name \in Padded, release |-> release]

(* The projects whose identities both languages digest alike.              *)
Portable == Name \ (Escaped \cup Padded)
=============================================================================
