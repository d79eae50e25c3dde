---------------------------- MODULE Certificates ----------------------------
(***************************************************************************)
(* The life of one certificate (src/internal/acme: service.go, and the     *)
(* revoke, delete and edit handlers of http.go over api/crud.go): it is    *)
(* requested, ordered and renewed in the background, its files are written *)
(* and its row updated, while admins edit, revoke and delete it and the    *)
(* scheduler acts on what it listed before.                                *)
(*                                                                         *)
(* The files and the row are of a generation; what an order asks of the CA *)
(* is a step that succeeds or fails.  updateCert is one step, as it reads  *)
(* and writes the row at once; an edit does not (crud.go:166-186).         *)
(***************************************************************************)
EXTENDS Naturals

CONSTANTS
    MaxGens,       \* bound: certificates the CA issues
    MaxCalls,      \* bound: calls of admins after the first request
    MaxFaults      \* bound: crashes, panics and settings that cannot be read

Gens == 1..MaxGens

\* gen: NotAfter, 0 when there is none
NoRow == [there |-> FALSE, status |-> "pending", gen |-> 0, auto |-> TRUE]

Row == [there : BOOLEAN, status : {"pending", "valid", "failed", "expired"},
        gen : {0} \cup Gens, auto : BOOLEAN]

VARIABLES
    cert,      \* the row
    inflight,
    order,     \* run: where it is, and what it obtained
    sched,     \* the scheduler: where it is, and the row it listed
    editor,    \* an edit, with the row it read
    remover,   \* a deletion, or a revocation
    files,     \* the generations of privkey.pem and fullchain.pem
    age,       \* age[g]: how far a generation is from its NotAfter
    calls, faults

vars == <<cert, inflight, order, sched, editor, remover, files, age, calls, faults>>

AtRest == [at |-> "idle", row |-> NoRow]

TypeOK ==
    /\ cert \in Row
    /\ inflight \in BOOLEAN
    /\ order \in [at : {"none", "queued", "asking", "obtained", "keyed", "written", "failing", "ending"},
                  gen : {0} \cup Gens]
    /\ sched \in [at : {"idle", "sweep", "check", "renew"}, row : Row]
    /\ editor \in [at : {"idle", "read"}, row : Row]
    /\ remover \in {"idle", "delete", "deleted", "revoke"}
    /\ files \in [key : {0} \cup Gens, chain : {0} \cup Gens]
    /\ age \in [Gens -> {"none", "fresh", "due", "over"}]
    /\ calls \in 0..MaxCalls /\ faults \in 0..MaxFaults

-----------------------------------------------------------------------------
(* Orders                                                                  *)

Issued(r) == r.gen # 0

\* A renewal shows a certificate that is not valid as pending.
Launched(renewal) ==
    /\ inflight' = TRUE
    /\ order' = [at |-> "queued", gen |-> 0]
    /\ cert' = IF renewal /\ cert.there /\ cert.status # "valid" THEN [cert EXCEPT !.status = "pending"] ELSE cert

\* launch, for what r says
Launch(r) == IF inflight THEN UNCHANGED <<cert, inflight, order>> ELSE Launched(Issued(r))

\* As Finish, keeping the mark.
FinishUnmarked == UNCHANGED inflight /\ order' = [at |-> "none", gen |-> 0]

\* finish
Finish == inflight' = FALSE /\ order' = [at |-> "none", gen |-> 0]

Goes(to) == order' = [order EXCEPT !.at = to] /\ UNCHANGED inflight

Fault == faults < MaxFaults /\ faults' = faults + 1

\* run: without a row there is nothing to do, nor without settings.
Load ==
    /\ order.at = "queued"
    /\ \/ /\ cert.there
          /\ Goes("asking")
          /\ UNCHANGED faults
       \/ /\ ~cert.there
          /\ Finish
          /\ UNCHANGED faults
       \/ /\ Fault
          /\ Finish
    /\ UNCHANGED <<cert, sched, editor, remover, files, age, calls>>

\* obtain, after a dry run if one was asked for
Obtain ==
    /\ order.at = "asking"
    /\ \E g \in Gens : /\ age[g] = "none" /\ \A h \in Gens : h < g => age[h] # "none"
                       /\ order' = [at |-> "obtained", gen |-> g]
                       /\ age' = [age EXCEPT ![g] = "fresh"]
    /\ UNCHANGED <<cert, inflight, sched, editor, remover, files, calls, faults>>

Unobtained ==
    /\ order.at = "asking"
    /\ Goes("failing")
    /\ UNCHANGED <<cert, sched, editor, remover, files, age, calls, faults>>

\* writeCertFiles: the key, and then the chain.
WriteKey ==
    /\ order.at = "obtained"
    /\ files' = [files EXCEPT !.key = order.gen]
    /\ Goes("keyed")
    /\ UNCHANGED <<cert, sched, editor, remover, age, calls, faults>>

WriteChain ==
    /\ order.at = "keyed"
    /\ files' = [files EXCEPT !.chain = order.gen]
    /\ Goes("written")
    /\ UNCHANGED <<cert, sched, editor, remover, age, calls, faults>>

\* As Unwritten, taking no notice.
UnwrittenUnseen ==
    /\ order.at \in {"obtained", "keyed"}
    /\ Goes("written")
    /\ UNCHANGED <<cert, sched, editor, remover, files, age, calls, faults>>

Unwritten ==
    /\ order.at \in {"obtained", "keyed"}
    /\ Goes("failing")
    /\ UNCHANGED <<cert, sched, editor, remover, files, age, calls, faults>>

\* updateCert, in run
Store ==
    /\ order.at = "written"
    /\ cert' = IF cert.there THEN [cert EXCEPT !.gen = order.gen, !.status = "valid"] ELSE cert
    /\ Goes("ending")
    /\ UNCHANGED <<sched, editor, remover, files, age, calls, faults>>

\* fail
Fail ==
    /\ order.at = "failing"
    /\ cert' = IF cert.there THEN [cert EXCEPT !.status = "failed"] ELSE cert
    /\ Goes("ending")
    /\ UNCHANGED <<sched, editor, remover, files, age, calls, faults>>

\* The engine was reloaded, if the certificate is in use.
End ==
    /\ order.at = "ending"
    /\ Finish
    /\ UNCHANGED <<cert, sched, editor, remover, files, age, calls, faults>>

\* recover
Panic ==
    /\ order.at \notin {"none", "queued"}
    /\ Fault
    /\ Finish
    /\ UNCHANGED <<cert, sched, editor, remover, files, age, calls>>

-----------------------------------------------------------------------------
(* The scheduler                                                           *)

\* resumePending and checkAll list the certificates,
List(what) ==
    /\ sched.at = "idle" /\ cert.there
    /\ sched' = [at |-> what, row |-> cert]
    /\ UNCHANGED <<cert, inflight, order, editor, remover, files, age, calls, faults>>

\* and act on what they listed.
Sweep ==
    /\ sched.at = "sweep"
    /\ IF sched.row.status = "pending" THEN Launch(sched.row) ELSE UNCHANGED <<cert, inflight, order>>
    /\ sched' = AtRest
    /\ UNCHANGED <<editor, remover, files, age, calls, faults>>

Left(r) == IF Issued(r) THEN age[r.gen] ELSE "none"

\* checkAll: a pending one is launched; what has expired is marked,
Check ==
    LET r == sched.row
        expires == Left(r) = "over" /\ r.status # "expired" /\ cert.there
        now == [cert EXCEPT !.status = "expired"] IN
    /\ sched.at = "check"
    /\ IF inflight
       THEN sched' = AtRest /\ UNCHANGED <<cert, inflight, order>>
       ELSE IF r.status = "pending"
       THEN sched' = AtRest /\ Launch(r)
       ELSE /\ cert' = IF expires THEN now ELSE cert
            /\ sched' = [at |-> "renew", row |-> IF expires THEN now ELSE r]
            /\ UNCHANGED <<inflight, order>>
    /\ UNCHANGED <<editor, remover, files, age, calls, faults>>

\* and what was due is renewed, unless it was tried a while ago.
Renewal ==
    /\ sched.at = "renew"
    /\ \/ /\ sched.row.auto /\ Left(sched.row) \in {"due", "over"}
          /\ Launch(sched.row)
       \/ /\ \/ ~sched.row.auto \/ Left(sched.row) \in {"none", "fresh"}
             \/ sched.row.status \in {"failed", "expired"}
          /\ UNCHANGED <<cert, inflight, order>>
    /\ sched' = AtRest
    /\ UNCHANGED <<editor, remover, files, age, calls, faults>>

-----------------------------------------------------------------------------
(* Admins                                                                  *)

Call == calls < MaxCalls /\ calls' = calls + 1

\* Request, for a certificate that is pending, and Renew
Order ==
    /\ Call
    /\ cert.there
    /\ Launch(cert)
    /\ UNCHANGED <<sched, editor, remover, files, age, faults>>

\* PUT: the row is read before the body of the request, and written back whole
\* but for whether it renews itself.
EditRead ==
    /\ Call
    /\ editor.at = "idle" /\ cert.there
    /\ editor' = [at |-> "read", row |-> cert]
    /\ UNCHANGED <<cert, inflight, order, sched, remover, files, age, faults>>

EditSave ==
    /\ editor.at = "read"
    /\ \E auto \in BOOLEAN : cert' = IF cert.there THEN [editor.row EXCEPT !.auto = auto] ELSE cert
    /\ editor' = AtRest
    /\ UNCHANGED <<inflight, order, sched, remover, files, age, calls, faults>>

\* BeforeDelete, of a certificate no host uses; then the row goes, then the files.
DeleteAsked ==
    /\ Call
    /\ remover = "idle" /\ cert.there /\ ~inflight
    /\ remover' = "delete"
    /\ UNCHANGED <<cert, inflight, order, sched, editor, files, age, faults>>

Delete ==
    /\ remover = "delete"
    /\ cert' = [cert EXCEPT !.there = FALSE]
    /\ remover' = "deleted"
    /\ UNCHANGED <<inflight, order, sched, editor, files, age, calls, faults>>

RemoveFiles ==
    /\ remover = "deleted"
    /\ files' = [key |-> 0, chain |-> 0]
    /\ remover' = "idle"
    /\ UNCHANGED <<cert, inflight, order, sched, editor, age, calls, faults>>

RevokeAsked ==
    /\ Call
    /\ remover = "idle" /\ cert.there /\ Issued(cert) /\ ~inflight
    /\ remover' = "revoke"
    /\ UNCHANGED <<cert, inflight, order, sched, editor, files, age, faults>>

\* The CA has answered.
Revoked ==
    /\ remover = "revoke"
    /\ cert' \in {cert, IF cert.there THEN [cert EXCEPT !.status = "failed", !.auto = FALSE] ELSE cert}
    /\ remover' = "idle"
    /\ UNCHANGED <<inflight, order, sched, editor, files, age, calls, faults>>

-----------------------------------------------------------------------------

\* Relay dies, and starts again: every goroutine is gone.
Crash ==
    /\ Fault
    /\ inflight' = FALSE
    /\ order' = [at |-> "none", gen |-> 0]
    /\ sched' = AtRest
    /\ editor' = AtRest
    /\ remover' = "idle"
    /\ UNCHANGED <<cert, files, age, calls>>

Ages(g) ==
    /\ age[g] \in {"fresh", "due"}
    /\ age' = [age EXCEPT ![g] = IF @ = "fresh" THEN "due" ELSE "over"]
    /\ UNCHANGED <<cert, inflight, order, sched, editor, remover, files, calls, faults>>

\* A certificate was requested, or one is pending that was imported or restored,
\* or was not issued.
Init ==
    /\ cert \in { [there |-> TRUE, status |-> st, gen |-> 0, auto |-> TRUE] : st \in {"pending", "failed"} }
    /\ inflight \in BOOLEAN /\ (inflight => cert.status = "pending")
    /\ order = [at |-> IF inflight THEN "queued" ELSE "none", gen |-> 0]
    /\ sched = AtRest /\ editor = AtRest
    /\ remover = "idle"
    /\ files = [key |-> 0, chain |-> 0]
    /\ age = [g \in Gens |-> "none"]
    /\ calls = 0 /\ faults = 0

Run == Load \/ Obtain \/ Unobtained \/ WriteKey \/ WriteChain \/ Unwritten \/ Store \/ Fail \/ End

Scheduler == List("sweep") \/ List("check") \/ Sweep \/ Check \/ Renewal

Admin ==
    \/ Order \/ EditRead \/ EditSave \/ DeleteAsked \/ Delete \/ RemoveFiles \/ RevokeAsked \/ Revoked

Next == Run \/ Panic \/ Scheduler \/ Admin \/ Crash \/ \E g \in Gens : Ages(g)

Spec == Init /\ [][Next]_vars

\* The scheduler ticks every minute; an order waits for a slot that others give
\* back, and what it asks of the CA and of DNS has timeouts.
Fairness == WF_vars(Run) /\ WF_vars(Scheduler)

FairSpec == Spec /\ Fairness

-----------------------------------------------------------------------------
(* Properties                                                              *)

\* What a row says was issued is on the disk, of that generation or a later one,
\* and the key is never older than the chain: wherever an order dies or fails,
\* and whatever an edit writes back.  (run, writeCertFiles)
FilesAreNotBehind ==
    cert.there /\ Issued(cert) => files.key >= files.chain /\ files.chain >= cert.gen

\* A pending certificate is issued or has failed in the end, unless it is
\* deleted: also after a crash, a panic, or an edit that undoes the outcome.
\* (resumePending)
PendingEnds == cert.there /\ cert.status = "pending" ~> ~cert.there \/ cert.status # "pending"

=============================================================================
