---------------------------- MODULE FileRegister ----------------------------
(***************************************************************************)
(* What POST /files and PUT /files/:fileId promise, without the tables     *)
(* that implement them: every file is a register holding one body; a       *)
(* request replaces the register's contents by its own body at one         *)
(* instant, or not at all.  A request that was answered has been applied;  *)
(* a request that failed may or may not have been.                         *)
(* MetadataStore implements this specification (its theorem and its run    *)
(* say so): the many autocommitted statements of commitVersion and of      *)
(* deleteVersion never let a file hold anything but one request's body.    *)
(***************************************************************************)
CONSTANTS Req,          \* write requests; a POST names the file it creates
          Content,      \* the bodies a request may carry
          NoContent     \* what a file without a committed version holds

VARIABLES content,      \* content[f]: the body file f holds
          phase,        \* phase[r]: how far request r has come
          target,       \* target[r]: the file r writes
          payload       \* payload[r]: the body r carries

vars == <<content, phase, target, payload>>

Init == /\ content = [f \in Req |-> NoContent]
        /\ phase = [r \in Req |-> "new"]
        /\ target = [r \in Req |-> r]
        /\ payload \in [Req -> Content]

(* A client sends request r, to write some body to some file. *)
Submit(r) ==
    /\ phase[r] = "new"
    /\ phase' = [phase EXCEPT ![r] = "pending"]
    /\ UNCHANGED content
    /\ \E f \in Req : target' = [target EXCEPT ![r] = f]
    /\ \E b \in Content : payload' = [payload EXCEPT ![r] = b]

(* The one instant at which r takes effect; a request with nothing left to *)
(* clean up is answered at the same instant.                               *)
Apply(r) ==
    /\ phase[r] = "pending"
    /\ content' = [content EXCEPT ![target[r]] = payload[r]]
    /\ \E p \in {"applied", "acked"} : phase' = [phase EXCEPT ![r] = p]
    /\ UNCHANGED <<target, payload>>

Ack(r) ==
    /\ phase[r] = "applied"
    /\ phase' = [phase EXCEPT ![r] = "acked"]
    /\ UNCHANGED <<content, target, payload>>

(* Requests fail together when the worker that serves them dies. *)
Fail(S) ==
    /\ \A r \in S : phase[r] \in {"new", "pending", "applied"}
    /\ phase' = [r \in Req |-> IF r \in S THEN "failed" ELSE phase[r]]
    /\ UNCHANGED <<content, target, payload>>

Next == \/ \E r \in Req : Submit(r) \/ Apply(r) \/ Ack(r)
        \/ \E S \in SUBSET Req : Fail(S)

Spec == Init /\ [][Next]_vars
=============================================================================
