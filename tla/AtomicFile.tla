------------------------------ MODULE AtomicFile ------------------------------
(***************************************************************************)
(* What WriteFileAtomically promises: one file whose content is replaced   *)
(* as a whole.  A write takes effect at most once, between its call and    *)
(* its return; one that returns an error never took effect, one that       *)
(* returns without did.  After a crash of the system the file holds what   *)
(* it held at some moment before, never a mixture.                         *)
(***************************************************************************)
CONSTANTS Writers,   \* one write each; also the name of what it writes
          Contents   \* everything the file may hold, as a whole

VARIABLES content,   \* what a reader finds
          past,      \* what a crash may bring back
          call       \* how far each writer's call is

fileVars == <<content, past, call>>

AInit ==
    /\ content \in Contents
    /\ past = {content}
    /\ call = [w \in Writers |-> "idle"]

Call(w) ==
    /\ call[w] = "idle"
    /\ call' = [call EXCEPT ![w] = "calling"]
    /\ UNCHANGED <<content, past>>

Apply(w) ==
    /\ call[w] = "calling"
    /\ content' = w
    /\ past' = past \cup {w}
    /\ call' = [call EXCEPT ![w] = "applied"]

Return(w) ==
    /\ \/ call[w] = "applied" /\ call' = [call EXCEPT ![w] = "ok"]
       \/ call[w] = "calling" /\ call' = [call EXCEPT ![w] = "failed"]
    /\ UNCHANGED <<content, past>>

Crash ==
    /\ content' \in past
    /\ past' = {content'}
    /\ call' = [w \in Writers |-> IF call[w] \in {"ok", "failed"} THEN call[w] ELSE "dead"]

ANext ==
    \/ \E w \in Writers : Call(w) \/ Apply(w) \/ Return(w)
    \/ Crash

ASpec == AInit /\ [][ANext]_fileVars
=============================================================================
