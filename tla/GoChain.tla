------------------------------- MODULE GoChain -------------------------------
(***************************************************************************)
(* VerifyChain of the Go core (src/internal/evidence/chain.go, record.go): *)
(* one pass over a log that reports every record it finds fault with, and  *)
(* passes over a record that is not valid in itself or has no hash.        *)
(*                                                                         *)
(* SHA-256 over the JSON of a record tells records apart, so that the hash *)
(* of a record is the record itself.                                       *)
(***************************************************************************)
EXTENDS Integers, Sequences

CONSTANTS GoLogs,   \* what VerifyChain may be given
          Genesis   \* GenesisPreviousHash

\* form: "invalid" when Validate returns an error, "unhashable" when it does not but
\* json.Marshal does (a year of issued_at beyond 9999), "sound" otherwise.
IsGoRecord(r) == DOMAIN r = {"form", "sequence", "previous", "subject"}

ASSUME GoLogsAssumption ==
    \A l \in GoLogs : /\ l = [i \in 1 .. Len(l) |-> l[i]] /\ Len(l) \in Nat
                      /\ \A i \in 1 .. Len(l) : IsGoRecord(l[i]) /\ l[i].form \in {"sound", "unhashable", "invalid"}

Valid(r) == r.form # "invalid"
Sound(r) == r.form = "sound"
Hash(r) == r   \* of a sound record

VARIABLES log,          \* records
          previousHash,
          at,           \* i + 1
          faults        \* the records named in result.Errors; result.OK when none is

chainVars == <<log, previousHash, at, faults>>

ChainInit == log \in GoLogs /\ previousHash = Genesis /\ at = 1 /\ faults = {}

Reading == at <= Len(log)

\* A bug: the chain goes on with the hash of a record that is not valid.
Mut_PassOver == /\ Reading /\ ~Valid(log[at])
                /\ faults' = faults \cup {at} /\ at' = at + 1
                /\ previousHash' = Hash(log[at])
                /\ UNCHANGED log
PassOver == /\ Reading /\ ~Valid(log[at])
            /\ faults' = faults \cup {at} /\ at' = at + 1
            /\ UNCHANGED <<log, previousHash>>

\* Hash returns an error, after sequence and previous hash were looked at.
HashFails == /\ Reading /\ Valid(log[at]) /\ ~Sound(log[at])
             /\ faults' = faults \cup {at} /\ at' = at + 1
             /\ UNCHANGED <<log, previousHash>>

\* A bug: the sequence is not looked at.
Mut_InPlaceAnySequence(r) == r.previous = previousHash
InPlace(r) == r.sequence = at /\ r.previous = previousHash

Link == /\ Reading /\ Sound(log[at])
        /\ faults' = IF InPlace(log[at]) THEN faults ELSE faults \cup {at}
        /\ previousHash' = Hash(log[at]) /\ at' = at + 1
        /\ UNCHANGED log

ChainNext == PassOver \/ HashFails \/ Link

ChainSpec == ChainInit /\ [][ChainNext]_chainVars

----------------------------------------------------------------------------
(* Properties *)

\* A log whose records are sound, numbered from one and chained by their hashes.
LinkedUpTo(l, n) ==
    \A i \in 1 .. n : /\ Sound(l[i]) /\ l[i].sequence = i
                      /\ l[i].previous = IF i = 1 THEN Genesis ELSE l[i - 1]

ChainRead == at = Len(log) + 1

\* result.OK exactly when the log is linked, and the first record it names is where
\* the log stops being so: the errors that follow from another never come first.
FirstFaultIsFirstBreak ==
    ChainRead =>
       /\ faults = {} <=> LinkedUpTo(log, Len(log))
       /\ \A f \in faults : (\A g \in faults : f <= g) =>
             LinkedUpTo(log, f - 1) /\ ~LinkedUpTo(log, f)

\* A record that is not valid or has no hash leaves the chain where it was: a sound
\* record in place after the last sound one before it is not named, and one chained to
\* a record between them is.
PassedOverIsNoLink ==
    ChainRead =>
       \A i, j \in 1 .. Len(log) :
          /\ i < j /\ Sound(log[i]) /\ Sound(log[j])
          /\ \A k \in i + 1 .. j - 1 : ~Sound(log[k])
          => (j \notin faults <=> log[j].sequence = j /\ log[j].previous = log[i])
=============================================================================
