--------------------------- MODULE ArtifactStore ---------------------------
(***************************************************************************)
(* persist_voice_response and _atomic_write (src/src/sentinel_core/        *)
(* xai_voice.py): calls, of one process or of several, that store voice    *)
(* responses into one output directory.  A file is never written in place: *)
(* a temporary file is filled and linked under the final name, the         *)
(* manifest last, and an exception unlinks what the call created.          *)
(*                                                                         *)
(* The content of a file is the call that wrote it.                        *)
(***************************************************************************)
EXTENDS Naturals, Sequences

CONSTANTS Calls,      \* calls of persist_voice_response
          Names,      \* file name stems, _safe_file_component(response_id)
          NameOf,     \* the stem of each call: distinct ids may share one
          Wants,      \* the files each call asks for: persist_audio, _transcript
          Earlier,    \* owner of what the directory held before
          Nobody,     \* owner of a free name
          Faults      \* what the environment may do to a call, of FaultKinds

FaultKinds == {"raise",      \* a check, mkstemp, write, fsync or link raises
               "unlink",     \* an unlink raises OSError
               "interrupt",  \* KeyboardInterrupt is raised in the call
               "crash"}      \* the process dies

ASSUME CallsAssumption ==
    /\ NameOf \in [Calls -> Names] /\ Wants \in [Calls -> SUBSET {"wav", "txt"}]
    /\ Earlier \notin Calls /\ Nobody \notin Calls /\ Earlier # Nobody
    /\ Faults \subseteq FaultKinds

VARIABLES dir,      \* who owns each final name
          temps,    \* temporary files, by call and kind of file
          pc,       \* where each call stands
          at,       \* how many of its paths a call has checked, then created
          failing,  \* per call: the exception it raises
          spoiled   \* history: calls in which an unlink failed or an interrupt fell

vars == <<dir, temps, pc, at, failing, spoiled>>

Kinds == {"wav", "txt", "manifest"}
Files == Names \X Kinds

\* Bugs of the order: manifest first; transcript first in some calls only.
Mut_ManifestFirst(c) ==
    IF Wants[c] = {"wav", "txt"} THEN <<"manifest", "wav", "txt">>
    ELSE IF "wav" \in Wants[c] THEN <<"manifest", "wav">>
    ELSE IF "txt" \in Wants[c] THEN <<"manifest", "txt">>
    ELSE <<"manifest">>
Mut_NoFixedOrder(c) ==
    IF Wants[c] = {"wav", "txt"}
    THEN IF c = (CHOOSE d \in Calls : TRUE)
         THEN <<"txt", "wav", "manifest">> ELSE <<"wav", "txt", "manifest">>
    ELSE IF "wav" \in Wants[c] THEN <<"wav", "manifest">>
    ELSE IF "txt" \in Wants[c] THEN <<"txt", "manifest">>
    ELSE <<"manifest">>

\* requested_paths, in the order in which they are checked and created.
Paths(c) ==
    IF Wants[c] = {"wav", "txt"} THEN <<"wav", "txt", "manifest">>
    ELSE IF "wav" \in Wants[c] THEN <<"wav", "manifest">>
    ELSE IF "txt" \in Wants[c] THEN <<"txt", "manifest">>
    ELSE <<"manifest">>

File(c, i) == <<NameOf[c], Paths(c)[i]>>
Exists(f) == dir[f] # Nobody

Running == {"preflight", "create", "write", "link", "cleanup", "rollback"}
Ended == {"returned", "raised", "crashed"}

Init == /\ dir \in [Files -> {Nobody, Earlier}]
        /\ temps = {}
        /\ pc = [c \in Calls |-> "start"]
        /\ at = [c \in Calls |-> 0]
        /\ failing = [c \in Calls |-> "none"]
        /\ spoiled = {}

Goto(c, label) == pc' = [pc EXCEPT ![c] = label]

\* FileExistsError is "exists", every other exception "error".
Raise(c, exception, label) == /\ failing' = [failing EXCEPT ![c] = exception]
                              /\ Goto(c, label)
Can(fault) == fault \in Faults

----------------------------------------------------------------------------
(* Before anything is written *)

\* No file asked for, an unsuitable output_dir, or mkdir fails.
Refuse(c) == /\ pc[c] = "start"
             /\ Wants[c] = {} \/ Can("raise")
             /\ Raise(c, "error", "raised")
             /\ UNCHANGED <<dir, temps, at, spoiled>>

Start(c) == /\ pc[c] = "start" /\ Wants[c] # {}
            /\ Goto(c, "preflight")
            /\ UNCHANGED <<dir, temps, at, failing, spoiled>>

\* One path of the preflight loop; other calls run between two of them.
Preflight(c) ==
    /\ pc[c] = "preflight" /\ at[c] < Len(Paths(c))
    /\ IF Exists(File(c, at[c] + 1))
       THEN Raise(c, "exists", "raised") /\ UNCHANGED at
       ELSE at' = [at EXCEPT ![c] = @ + 1] /\ UNCHANGED <<pc, failing>>
    /\ UNCHANGED <<dir, temps, spoiled>>

\* The WAV, the digests and the manifest are built in memory.
Build(c) == /\ pc[c] = "preflight" /\ at[c] = Len(Paths(c))
            /\ \/ Goto(c, "create") /\ UNCHANGED failing
               \/ Can("raise") /\ Raise(c, "error", "raised")
            /\ at' = [at EXCEPT ![c] = 0]
            /\ UNCHANGED <<dir, temps, spoiled>>

----------------------------------------------------------------------------
(* _atomic_write of the next path *)

\* The name is taken, or something raises, before the temporary file is there.
CreateFails(c) == /\ \/ Exists(File(c, at[c] + 1)) /\ Raise(c, "exists", "rollback")
                     \/ Can("raise") /\ Raise(c, "error", "rollback")
                  /\ UNCHANGED <<temps, at>>

\* The name is checked again and the temporary file made.
Create(c) ==
    /\ pc[c] = "create" /\ at[c] < Len(Paths(c))
    /\ \/ /\ ~Exists(File(c, at[c] + 1))
          /\ Goto(c, "write")
          /\ temps' = temps \cup {<<c, Paths(c)[at[c] + 1]>>}
          /\ UNCHANGED <<at, failing>>
       \/ CreateFails(c)
    /\ UNCHANGED <<dir, spoiled>>

\* write, flush and fsync of the temporary file.
Write(c) == /\ pc[c] = "write"
            /\ \/ Goto(c, "link") /\ UNCHANGED failing
               \/ Can("raise") /\ Raise(c, "error", "cleanup")
            /\ UNCHANGED <<dir, temps, at, spoiled>>

\* A bug: the final name is replaced (os.replace) whoever owns it.
Mut_Link(c) ==
    /\ pc[c] = "link" /\ Goto(c, "cleanup")
    /\ dir' = [dir EXCEPT ![File(c, at[c] + 1)] = c]
    /\ UNCHANGED <<temps, at, failing, spoiled>>

\* os.link refuses a name that is taken.
Link(c) ==
    /\ pc[c] = "link"
    /\ \/ /\ ~Exists(File(c, at[c] + 1))
          /\ dir' = [dir EXCEPT ![File(c, at[c] + 1)] = c]
          /\ Goto(c, "cleanup") /\ UNCHANGED failing
       \/ /\ Exists(File(c, at[c] + 1)) /\ Raise(c, "exists", "cleanup")
          /\ UNCHANGED dir
       \/ /\ Can("raise") /\ Raise(c, "error", "cleanup")
          /\ UNCHANGED dir
    /\ UNCHANGED <<temps, at, spoiled>>

\* A bug: the temporary file is unlinked on success only, not in a finally block.
Mut_Cleanup(c) ==
    /\ pc[c] = "cleanup"
    /\ IF failing[c] # "none"
       THEN Goto(c, "rollback") /\ UNCHANGED <<temps, at>>
       ELSE /\ temps' = temps \ {<<c, Paths(c)[at[c] + 1]>>}
            /\ Goto(c, "create") /\ at' = [at EXCEPT ![c] = @ + 1]
    /\ UNCHANGED <<dir, failing, spoiled>>

\* The finally block unlinks the temporary file; then the exception in flight
\* propagates, or the path is recorded as created.
Cleanup(c) ==
    /\ pc[c] = "cleanup"
    /\ temps' = temps \ {<<c, Paths(c)[at[c] + 1]>>}
    /\ IF failing[c] # "none"
       THEN Goto(c, "rollback") /\ UNCHANGED at
       ELSE Goto(c, "create") /\ at' = [at EXCEPT ![c] = @ + 1]
    /\ UNCHANGED <<dir, failing, spoiled>>

\* That unlink raises: the path is not recorded, linked or not.
CleanupFails(c) == /\ pc[c] = "cleanup" /\ Can("unlink")
                   /\ Raise(c, "error", "rollback")
                   /\ spoiled' = spoiled \cup {c}
                   /\ UNCHANGED <<dir, temps, at>>

Return(c) == /\ pc[c] = "create" /\ at[c] = Len(Paths(c))
             /\ Goto(c, "returned")
             /\ UNCHANGED <<dir, temps, at, failing, spoiled>>

----------------------------------------------------------------------------
(* Failure *)

\* The created path that rollback removes next: the last one.
RollbackFrom(c) == at[c]

\* A bug: rollback forgets the first path.
Mut_RollbackOver(c) == at[c] <= 1
RollbackOver(c) == at[c] = 0

\* An OSError of unlink is swallowed.
Rollback(c) == /\ pc[c] = "rollback" /\ ~RollbackOver(c)
               /\ \/ /\ dir' = [dir EXCEPT ![File(c, RollbackFrom(c))] = Nobody]
                     /\ UNCHANGED spoiled
                  \/ /\ Can("unlink") /\ spoiled' = spoiled \cup {c}
                     /\ UNCHANGED dir
               /\ at' = [at EXCEPT ![c] = @ - 1]
               /\ UNCHANGED <<temps, pc, failing>>

RolledBack(c) == /\ pc[c] = "rollback" /\ RollbackOver(c)
                 /\ Goto(c, "raised")
                 /\ UNCHANGED <<dir, temps, at, failing, spoiled>>

\* KeyboardInterrupt: inside the temporary file's try, the finally block runs;
\* just before it, a new temporary file may be left; in the finally block itself
\* the path is not recorded; during rollback the remaining paths stay, and after
\* the last path, once the try is left, nothing is rolled back.
Interrupt(c) ==
    /\ Can("interrupt")
    /\ \/ /\ pc[c] \in {"write", "link"} /\ Raise(c, "error", "cleanup")
          /\ UNCHANGED temps
       \/ /\ pc[c] = "create" /\ Raise(c, "error", "rollback")
          /\ \/ UNCHANGED temps
             \/ /\ at[c] < Len(Paths(c))
                /\ temps' = temps \cup {<<c, Paths(c)[at[c] + 1]>>}
       \/ /\ pc[c] = "cleanup" /\ Raise(c, "error", "rollback")
          /\ temps' \in {temps, temps \ {<<c, Paths(c)[at[c] + 1]>>}}
       \/ /\ \/ pc[c] \in {"preflight", "rollback"}
             \/ pc[c] = "create" /\ at[c] = Len(Paths(c))
          /\ Raise(c, "error", "raised")
          /\ UNCHANGED temps
    /\ spoiled' = spoiled \cup {c}
    /\ UNCHANGED <<dir, at>>

Crash(c) == /\ Can("crash") /\ pc[c] \in Running
            /\ Goto(c, "crashed")
            /\ UNCHANGED <<dir, temps, at, failing, spoiled>>

----------------------------------------------------------------------------
Step(c) ==
    \/ Refuse(c) \/ Start(c) \/ Preflight(c) \/ Build(c)
    \/ Create(c) \/ Write(c) \/ Link(c) \/ Cleanup(c) \/ CleanupFails(c) \/ Return(c)
    \/ Rollback(c) \/ RolledBack(c) \/ Interrupt(c) \/ Crash(c)

Next == \E c \in Calls : Step(c)

Spec == Init /\ [][Next]_vars

----------------------------------------------------------------------------
(* Properties *)

Wanted(c) == {<<NameOf[c], k>> : k \in Wants[c] \cup {"manifest"}}
Owned(c) == {f \in Files : dir[f] = c}

\* A call counts no more paths than it has, and has one left while it writes; an
\* exception in flight is what makes a call clean up, roll back and raise.
Counted ==
    \A c \in Calls :
       /\ pc[c] = "start" => at[c] = 0
       /\ pc[c] \in Running => at[c] <= Len(Paths(c))
       /\ pc[c] \in {"write", "link", "cleanup"} => at[c] < Len(Paths(c))
       /\ failing[c] # "none" => pc[c] \in {"cleanup", "rollback", "raised", "crashed"}
       /\ pc[c] \in {"rollback", "raised"} => failing[c] # "none"

TypeOK == /\ dir \in [Files -> Calls \cup {Earlier, Nobody}]
          /\ temps \subseteq Calls \X Kinds
          /\ pc \in [Calls -> {"start"} \cup Running \cup Ended]
          /\ at \in [Calls -> 0 .. 3]
          /\ failing \in [Calls -> {"none", "exists", "error"}]
          /\ spoiled \subseteq Calls
          /\ Counted

\* Existing files are never overwritten, and only the call that created a file
\* removes it again, in its rollback: whatever fails, is interrupted or dies.
NoClobber ==
    [][\A f \in Files :
          Exists(f) /\ dir'[f] # dir[f] =>
             /\ dir'[f] = Nobody
             /\ \E c \in Calls : dir[f] = c /\ pc[c] = "rollback"]_vars

\* A manifest stands for a whole artifact set of one call: each file it lists is
\* there and is that call's own, even while other calls run and fail or after a
\* crash, unless this very call failed to unlink or was interrupted.
ManifestVouches ==
    \A c \in Calls \ spoiled :
       dir[<<NameOf[c], "manifest">>] = c => Wanted(c) \subseteq Owned(c)

\* A call that returns has stored every file it was asked for; a call that raises,
\* for whatever reason but an unlink that failed or an interrupt, has stored none.
AllOrNothing ==
    \A c \in Calls \ spoiled :
       /\ pc[c] = "returned" => Owned(c) = Wanted(c)
       /\ pc[c] = "raised" => Owned(c) = {}

\* "Persist an explicitly requested response as one no-clobber artifact set"
\* (persist_voice_response): no call that raises leaves a part of a set.
OneArtifactSet == \A c \in Calls : pc[c] = "raised" => Owned(c) = {}

\* No temporary file outlives a call, the process surviving and unlink working.
NoTempLeft ==
    \A t \in temps : pc[t[1]] \in Running \cup {"crashed"} \/ t[1] \in spoiled

\* Calls that collide on a name cannot all be refused because of each other: when
\* the name was free and each has ended, one of them was not turned away by
\* FileExistsError.  The fixed order of the paths is what decides the race.
SomeCallWins ==
    \A n \in Names :
       LET rivals == {c \in Calls : NameOf[c] = n /\ Wants[c] # {}} IN
       /\ rivals # {}
       /\ \A c \in rivals : pc[c] \in Ended
       /\ \A k \in Kinds : dir[<<n, k>>] # Earlier
       => \E c \in rivals : failing[c] # "exists"
=============================================================================
