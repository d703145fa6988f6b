---------------------------- MODULE TimingCache ----------------------------
(***************************************************************************)
(* The state of class TimingCache (l0_draft_engine/coordinator.py): the     *)
(* directory of cached timing responses, an LRU bounded in bytes.  Its       *)
(* methods never await, so each is one step for everybody else; a crash may *)
(* come between any two of their system calls.                             *)
(*                                                                         *)
(* A file is named after a digest of its key and holds the timing of the     *)
(* request that led the transcription, which also fixes the digest of the    *)
(* audio it is for and its size.  byUse orders the files by their mtime.    *)
(***************************************************************************)
EXTENDS Integers, Sequences, FiniteSets, SequencesExt

CONSTANTS
  Requests,    (* HTTP requests about timing                                *)
  TaskOf,      (* the task ID of a request                                  *)
  TokenOf,     (* its bearer capability                                     *)
  InputOf,     (* its lanes, audio digests and preprocessing; uploads only   *)
  SizeOf,      (* bytes of the record its transcription would make          *)
  MaxBytes     (* cache_max_bytes                                           *)

ASSUME CacheAssumption ==
  /\ IsFiniteSet(Requests)
  /\ SizeOf \in [Requests -> Nat]
  /\ MaxBytes \in Nat

VARIABLES
  files,       (* the *.json files, by key                                  *)
  byUse,       (* their keys, least recently used first                     *)
  orphans      (* the requests whose temporary file a crash left behind     *)

cacheVars == <<files, byUse, orphans>>

(* Mutant: the key forgets the capability.                                 *)
TaskKey(r) == <<TaskOf[r], "anybody">>

(* _timing_key                                                             *)
Key(r) == <<TaskOf[r], TokenOf[r]>>

Keys == {Key(r) : r \in Requests}

(* labelled: it has the punctuation labels that a current release demands;  *)
(* current: RELEASE_ID is still the one it was written under.               *)
Record == [by : Requests, labelled : BOOLEAN, current : BOOLEAN]

CacheTypeOK ==
  /\ DOMAIN files \subseteq Keys
  /\ \A k \in DOMAIN files : files[k] \in Record
  /\ byUse \in Seq(Keys) /\ IsInjective(byUse) /\ ToSet(byUse) = DOMAIN files
  /\ orphans \subseteq Requests

CacheInit ==
  /\ files = <<>>
  /\ byUse = <<>>
  /\ orphans = {}

----------------------------------------------------------------------------

Bytes(f) == SumFunction([k \in DOMAIN f |-> SizeOf[f[k].by]])

From(order, n) == SubSeq(order, n + 1, Len(order))

Kept(f, order, n) == Restrict(f, ToSet(From(order, n)))

(* Mutant: the files are sorted the other way round.                       *)
RotateNewest(f, order) ==
  \E n \in 0..Len(order) :
    LET Older(m) == Restrict(f, ToSet(SubSeq(order, 1, m))) IN
    /\ Bytes(Older(n)) =< MaxBytes \/ n = 0
    /\ \A m \in (n + 1)..Len(order) : Bytes(Older(m)) > MaxBytes
    /\ byUse' = SubSeq(order, 1, n)
    /\ files' = Older(n)

(* _rotate: the oldest go, one by one, until the rest fits.                 *)
Rotate(f, order) ==
  \E n \in 0..Len(order) :
    /\ Bytes(Kept(f, order, n)) =< MaxBytes \/ n = Len(order)
    /\ \A m \in 0..(n - 1) : Bytes(Kept(f, order, m)) > MaxBytes
    /\ byUse' = From(order, n)
    /\ files' = Kept(f, order, n)

Replaced(r, labelled) ==
  [k \in DOMAIN files \cup {Key(r)} |->
     IF k = Key(r) THEN [by |-> r, labelled |-> labelled, current |-> TRUE]
                   ELSE files[k]]

LastUsed(k) == Append(RemoveFirst(byUse, k), k)

(* put raises a ValueError for a record that would never fit.               *)
Fits(r) == SizeOf[r] =< MaxBytes

(* Mutant: the directory is rotated at the next start only.                *)
PutOnly(r, labelled) ==
  /\ files' = Replaced(r, labelled)
  /\ byUse' = LastUsed(Key(r))

Put(r, labelled) == Rotate(Replaced(r, labelled), LastUsed(Key(r)))

Held(k) == k \in DOMAIN files /\ files[k].current

(* get unlinks a record that it cannot use, ...                            *)
Forget(k) ==
  IF k \in DOMAIN files /\ ~Held(k)
    THEN /\ files' = Restrict(files, DOMAIN files \ {k})
         /\ byUse' = RemoveFirst(byUse, k)
    ELSE UNCHANGED <<files, byUse>>

(* ... touches the one it returns, and leaves alone that of other input.    *)
Touch(k) == byUse' = LastUsed(k) /\ UNCHANGED files

HeldFor(k, input) == Held(k) /\ InputOf[files[k].by] = input

(* What a release deployed with the restart leaves of the records.         *)
Aged(f, deployed) ==
  [k \in DOMAIN f |-> [f[k] EXCEPT !.current = @ /\ ~deployed]]

----------------------------------------------------------------------------
(* Properties.                                                             *)

(* The records stay within cache_max_bytes, whatever was put, read, touched *)
(* and crashed before; the next two bytes are the rotation's business.      *)
DiskBounded == Bytes(files) =< MaxBytes

(* README.md: "rotating LRU, at most 4 GiB"; temporary files take room, too. *)
DirectoryBounded ==
  Bytes(files) + SumFunction([r \in orphans |-> SizeOf[r]]) =< MaxBytes

=============================================================================
