---------------------------- MODULE FileServer ----------------------------
(***************************************************************************)
(* The functions the file server is made of: matches_pattern               *)
(* (src/src/main.rs), sanitize_path (src/src/file_server.rs),              *)
(* parse_range_header (src/src/request.rs) and ranged_file_response        *)
(* (src/src/response.rs).                                                  *)
(*                                                                         *)
(* The path of a url is a sequence of tokens, "/" and what stands between  *)
(* slashes; a path of the file system is the sequence of its components.   *)
(***************************************************************************)
EXTENDS Integers, Sequences, SequencesExt

CONSTANTS
  None,       \* no path, no number
  Malformed,  \* a Range header that is not "bytes=" and two parts
  U64         \* the number of values of a u64

ASSUME FileServerAssumption ==
  /\ U64 \in Nat \ {0}
  /\ None \notin Nat /\ Malformed # None

u64 == 0 .. U64 - 1

-----------------------------------------------------------------------------
\* A pattern is what stands before its "*", and whether it ends in one.
MatchesPattern(pattern, path) ==
  IF pattern.star THEN IsPrefix(pattern.prefix, path) ELSE path = pattern.prefix

\* What is not a slash, of the first n tokens.
Named(path) ==
  LET taken[n \in 0 .. Len(path)] ==
        IF n = 0 THEN << >>
        ELSE IF path[n] = "/" THEN taken[n - 1] ELSE Append(taken[n - 1], path[n])
  IN  taken

Components(path) == Named(path)[Len(path)]

Walk(path, token) ==
  CASE path = None \/ token \in {"/", "."} -> path
    [] path # None /\ token = ".." -> IF path = << >> THEN None ELSE Front(path)
    [] OTHER -> Append(path, token)

\* Where the first n tokens lead.
Walked(root, path) ==
  LET full[n \in 0 .. Len(path)] == IF n = 0 THEN root ELSE Walk(full[n - 1], path[n])
  IN  full

\* A variant: where the walk leads is not compared with the root.
SanitizeUnchecked(root, path) == Walked(root, path)[Len(path)]

\* A path may leave the root if it comes back.
SanitizePath(root, path) ==
  LET full == Walked(root, path)[Len(path)] IN
  IF full # None /\ IsPrefix(root, full) THEN full ELSE None

-----------------------------------------------------------------------------
(***************************************************************************)
(* A range header is [start, end], each a u64 or None if it does not parse *)
(* as one.  A build with overflow checks panics where Minus goes below     *)
(* zero (Underflows); the release build wraps.                             *)
(***************************************************************************)
MinusSigned(a, b) == a - b   \* a variant: there is room below zero

Minus(a, b) == IF a >= b THEN a - b ELSE a - b + U64

Underflows(range, size) == range.start = None /\ range.end # None /\ range.end > size

ByStart(range, size) ==
  range.start # None /\ range.start < size /\ range.end \in {None} \cup range.start .. size - 1

BySuffix(range) == range.start = None /\ range.end \notin {None, 0}

\* The status of the error, or 206.
RangeStatus(range, size) ==
  IF range = Malformed THEN 400
  ELSE IF ByStart(range, size) \/ BySuffix(range) THEN 206 ELSE 416

First(range, size) == IF BySuffix(range) THEN Minus(size, range.end) ELSE range.start

Final(range, size) ==
  IF BySuffix(range) \/ range.end = None THEN Minus(size, 1) ELSE range.end

ExclusiveLength(range, size) ==   \* a variant: the end is taken as exclusive
  Minus(Final(range, size), First(range, size))

ContentLength(range, size) ==
  (Minus(Final(range, size), First(range, size)) + 1) % U64

\* lseek takes an i64.
Seekable(position) == position < U64 \div 2

\* What a copy from a position to the end of the file sends.
Rest(position, size) == IF position < size THEN size - position ELSE 0
=============================================================================
