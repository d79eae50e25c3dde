------------------------------ MODULE Pairing -------------------------------
(***************************************************************************)
(* A gateway of the tunnel as Relay keeps it: its row in the store, the    *)
(* list the tunnel engine reads, pairing (src/internal/tunnels,            *)
(* src/internal/tunnel/pair) and the gateway's own pairing state           *)
(* (src/internal/gateway).                                                 *)
(*                                                                         *)
(* Rows are read, changed and written back whole.  What one writer read    *)
(* another may have replaced since: an admin's edit, the start of a        *)
(* pairing, an attempt and a status poll each hold on to a row.  Whoever   *)
(* may have changed what the list says then rewrites it, under a lock, and *)
(* has the engine read it; what fails of that is only logged.              *)
(*                                                                         *)
(* Keys do not change, so of a pin only matters whether there is one.  The *)
(* home's proof is good when both sides have the same token.               *)
(***************************************************************************)
EXTENDS Naturals

CONSTANTS
    Addresses,   \* what an admin can set
    Attempts,    \* pairing attempts at a time
    None,        \* no token, no row
    MaxTokens,   \* bound: pairings started
    MaxMoves     \* bound: edits, pairings started, starts of the gateway, status polls, lost
                 \* connections, and failing saves, writes and reloads

Tokens == 1..MaxTokens

\* one edit and one start of a pairing at a time
Writers == {"edit", "start"} \cup Attempts

VARIABLES
    row,       \* the gateway's row
    file,      \* its entry in gateways.json
    engine,    \* its entry as the engine has read it
    since,     \* what the row would be listed as, at any time since a writer of the list last saved it
    writer,    \* writer[w]: the rewriting of the list
    unwritten, \* the last write of the list failed
    unread,    \* the last reload of the engine failed
    editor,    \* the row an edit read
    starter,   \* the row the start of a pairing read
    polled,    \* the row poll read
    news,      \* whether the status told poll something new of the gateway
    att,       \* att[a]: pairing attempts, both sides
    gw,        \* the gateway; pairs: how often it paired since it was reset
    tokens, moves

listVars == <<file, engine, writer, unwritten, unread>>
rowVars  == <<row, since>>

vars == <<rowVars, listVars, editor, starter, polled, news, att, gw, tokens, moves>>

Row == [address : Addresses, paired : BOOLEAN, token : Tokens \cup {None}]

Entry == [address : Addresses, paired : BOOLEAN]

Attempt == [home : {"none", "read", "told", "saved"}, gw : {"none", "proved", "over"},
            row : Row \cup {None}, token : Tokens \cup {None}]

NoAttempt == [home |-> "none", gw |-> "none", row |-> None, token |-> None]

TypeOK ==
    /\ row \in Row /\ since \in SUBSET Entry
    /\ file \in Entry /\ engine \in Entry
    /\ writer \in [Writers -> [at : {"none", "lock", "write", "reload"}, entry : Entry \cup {None}]]
    /\ unwritten \in BOOLEAN /\ unread \in BOOLEAN
    /\ editor \in Row \cup {None} /\ starter \in Row \cup {None}
    /\ polled \in Row \cup {None} /\ news \in BOOLEAN
    /\ att \in [Attempts -> Attempt]
    /\ gw \in [paired : BOOLEAN, disk : BOOLEAN, token : Tokens \cup {None}, used : BOOLEAN, pairs : Nat]
    /\ tokens \in 0..MaxTokens /\ moves \in 0..MaxMoves

\* What happens at most MaxMoves times.
Moved == moves < MaxMoves /\ moves' = moves + 1

-----------------------------------------------------------------------------
(* The row and the list                                                    *)

Idle(w) == writer[w].at = "none"

Listing(r) == [address |-> r.address, paired |-> r.paired]

\* A row is saved by one who rewrites the list next, and by one who does not.
SaveAndList(w, r) ==
    /\ row' = r
    /\ since' = {Listing(r)}
    /\ writer' = [writer EXCEPT ![w].at = "lock"]
    /\ UNCHANGED <<file, engine, unwritten, unread>>

SaveOnly(r) ==
    /\ row' = r
    /\ since' = since \cup {Listing(r)}
    /\ UNCHANGED listVars

\* As LockIsFree, without a lock.
LockIsFreeAnyway == TRUE

\* writeMu
LockIsFree == \A w \in Writers : writer[w].at # "write"

\* writeGateways reads the rows under the lock it writes the list with.
ReadRows(w) ==
    /\ writer[w].at = "lock" /\ LockIsFree
    /\ writer' = [writer EXCEPT ![w] = [at |-> "write", entry |-> Listing(row)]]
    /\ UNCHANGED <<rowVars, file, engine, unwritten, unread, editor, starter, polled, news, att, gw, tokens,
                   moves>>

\* The list is written, or it is not and the engine is left alone.
WriteList(w) ==
    /\ writer[w].at = "write"
    /\ \/ /\ file' = writer[w].entry /\ unwritten' = FALSE
          /\ writer' = [writer EXCEPT ![w] = [at |-> "reload", entry |-> None]]
          /\ UNCHANGED moves
       \/ /\ Moved
          /\ unwritten' = TRUE
          /\ writer' = [writer EXCEPT ![w] = [at |-> "none", entry |-> None]]
          /\ UNCHANGED file
    /\ UNCHANGED <<rowVars, engine, unread, editor, starter, polled, news, att, gw, tokens>>

\* gatewaysChanged has the engine read the list, unless its status cannot be
\* had or it does not answer.
Reload(w) ==
    /\ writer[w].at = "reload"
    /\ writer' = [writer EXCEPT ![w].at = "none"]
    /\ \/ engine' = file /\ unread' = FALSE /\ UNCHANGED moves
       \/ Moved /\ unread' = TRUE /\ UNCHANGED engine
    /\ UNCHANGED <<rowVars, file, unwritten, editor, starter, polled, news, att, gw, tokens>>

\* PUT /gateways/{id} reads the row, and then the body of the request.
EditReads ==
    /\ Moved
    /\ editor = None /\ Idle("edit")
    /\ editor' = row
    /\ UNCHANGED <<rowVars, listVars, starter, polled, news, att, gw, tokens>>

\* What the server manages is kept as it was read.
EditSaves(address) ==
    /\ editor # None
    /\ editor' = None
    /\ SaveAndList("edit", [editor EXCEPT !.address = address])
    /\ UNCHANGED <<starter, polled, news, att, gw, tokens, moves>>

StartReads ==
    /\ Moved
    /\ tokens < MaxTokens
    /\ starter = None /\ Idle("start")
    /\ tokens' = tokens + 1
    /\ starter' = row
    /\ UNCHANGED <<rowVars, listVars, editor, polled, news, att, gw>>

\* The row gets the token; the list is only rewritten for a gateway that was
\* paired when it was read.
StartSaves ==
    /\ starter # None
    /\ starter' = None
    /\ LET r == [starter EXCEPT !.paired = FALSE, !.token = tokens]
       IN  IF starter.paired THEN SaveAndList("start", r) ELSE SaveOnly(r)
    /\ UNCHANGED <<editor, polled, news, att, gw, tokens, moves>>

\* poll reads the rows, and asks the engine for its status.
PollReads ==
    /\ Moved
    /\ polled = None
    /\ polled' = row
    /\ UNCHANGED <<rowVars, listVars, editor, starter, news, att, gw, tokens>>

\* A gateway that is connected may report another version or other addresses of
\* its own than the row has.
PollHears ==
    /\ polled # None /\ ~news
    /\ \/ engine.paired /\ gw.paired /\ news' = TRUE /\ UNCHANGED polled
       \/ polled' = None /\ UNCHANGED news
    /\ UNCHANGED <<rowVars, listVars, editor, starter, att, gw, tokens, moves>>

\* The row is written back with them.
PollWrites ==
    /\ news
    /\ SaveOnly(polled)
    /\ polled' = None /\ news' = FALSE
    /\ UNCHANGED <<editor, starter, att, gw, tokens, moves>>

-----------------------------------------------------------------------------
(* A pairing attempt: home, gateway, home, gateway                         *)

\* Pair reads the row and dials.
Pair(a) ==
    /\ att[a].home = "none" /\ Idle(a)
    /\ ~row.paired /\ row.token # None
    /\ att' = [att EXCEPT ![a] = [home |-> "read", gw |-> "none", row |-> row, token |-> row.token]]
    /\ UNCHANGED <<rowVars, listVars, editor, starter, polled, news, gw, tokens, moves>>

Free(a) == att' = [att EXCEPT ![a] = NoAttempt]

\* pairConn: is there a token, is it the home's?
Proves(a) == ~gw.paired /\ gw.token = att[a].token /\ ~gw.used

\* The gateway checked the home's proof and sent its own, or closed.
Prove(a) ==
    /\ att[a].home = "read" /\ att[a].gw = "none"
    /\ IF Proves(a)
       THEN att' = [att EXCEPT ![a].gw = "proved"]
       ELSE Free(a)
    /\ UNCHANGED <<rowVars, listVars, editor, starter, polled, news, gw, tokens, moves>>

\* The home checked the gateway's proof and confirmed.
Confirm(a) ==
    /\ att[a].home = "read" /\ att[a].gw = "proved"
    /\ att' = [att EXCEPT ![a].home = "told"]
    /\ UNCHANGED <<rowVars, listVars, editor, starter, polled, news, gw, tokens, moves>>

\* The connection is lost: who waits for the other gives up.
Lose(a) ==
    /\ att[a].gw = "proved"
    /\ Moved
    /\ IF att[a].home \in {"read", "saved"} THEN Free(a) ELSE att' = [att EXCEPT ![a].gw = "over"]
    /\ UNCHANGED <<rowVars, listVars, editor, starter, polled, news, gw, tokens>>

\* The home's side is done: its row, as it read it, is paired.
HomePairs(a) ==
    /\ att[a].home = "told"
    /\ SaveAndList(a, [att[a].row EXCEPT !.paired = TRUE, !.token = None])
    /\ IF att[a].gw = "over" THEN Free(a) ELSE att' = [att EXCEPT ![a].home = "saved", ![a].row = None]
    /\ UNCHANGED <<editor, starter, polled, news, gw, tokens, moves>>

\* As Confirmed, before the home answered.
ConfirmedNot(a) == TRUE

\* The gateway commits only when the home confirmed.
Confirmed(a) == att[a].home \in {"told", "saved"}

\* whether no other attempt paired meanwhile
StillOpen == ~gw.paired /\ ~gw.used

\* The gateway's side is done; the pairing may fail to be saved.
GatewayPairs(a) ==
    /\ att[a].gw = "proved" /\ Confirmed(a)
    /\ \/ /\ StillOpen
          /\ gw' = [gw EXCEPT !.paired = TRUE, !.disk = TRUE, !.used = TRUE, !.pairs = @ + 1]
          /\ UNCHANGED moves
       \/ /\ StillOpen => Moved
          /\ ~StillOpen => UNCHANGED moves
          /\ UNCHANGED gw
    /\ IF att[a].home = "saved" THEN Free(a) ELSE att' = [att EXCEPT ![a].gw = "over"]
    /\ UNCHANGED <<rowVars, listVars, editor, starter, polled, news, tokens>>

-----------------------------------------------------------------------------
(* The gateway's process                                                   *)

\* relay gateway reset: a gateway that runs does not notice.
Reset ==
    /\ gw.disk
    /\ gw' = [gw EXCEPT !.disk = FALSE, !.pairs = 0]
    /\ UNCHANGED <<rowVars, listVars, editor, starter, polled, news, att, tokens, moves>>

\* The gateway is started, or started again, with a token the admin was given.
GatewayStarts(token) ==
    /\ Moved
    /\ token <= tokens
    /\ gw' = [gw EXCEPT !.paired = gw.disk, !.token = token, !.used = gw.disk]
    /\ att' = [a \in Attempts |->
         IF att[a].home = "told" THEN [att[a] EXCEPT !.gw = "over"] ELSE NoAttempt]
    /\ UNCHANGED <<rowVars, listVars, editor, starter, polled, news, tokens>>

-----------------------------------------------------------------------------
\* A gateway was added, or is paired already.
Init ==
    /\ \E address \in Addresses, paired \in BOOLEAN :
         /\ row = [address |-> address, paired |-> paired, token |-> None]
         /\ file = Listing(row) /\ engine = Listing(row) /\ since = {Listing(row)}
         /\ gw = [paired |-> paired, disk |-> paired, token |-> None, used |-> paired,
                  pairs |-> IF paired THEN 1 ELSE 0]
    /\ writer = [w \in Writers |-> [at |-> "none", entry |-> None]]
    /\ att = [a \in Attempts |-> NoAttempt]
    /\ unwritten = FALSE /\ unread = FALSE
    /\ editor = None /\ starter = None /\ polled = None /\ news = FALSE
    /\ tokens = 0 /\ moves = 0

ListStep(w) == ReadRows(w) \/ WriteList(w) \/ Reload(w)

AttemptStep(a) == Pair(a) \/ Prove(a) \/ Confirm(a) \/ HomePairs(a) \/ GatewayPairs(a) \/ Lose(a)

Next ==
    \/ \E w \in Writers : ListStep(w)
    \/ EditReads \/ (\E address \in Addresses : EditSaves(address))
    \/ StartReads \/ StartSaves \/ PollReads \/ PollHears \/ PollWrites
    \/ \E a \in Attempts : AttemptStep(a)
    \/ Reset \/ \E token \in Tokens : GatewayStarts(token)

Spec == Init /\ [][Next]_vars

-----------------------------------------------------------------------------
(* Properties                                                              *)

\* When no writer is under way and the last write and the last reload went well,
\* the engine has the list as it is written, and that says what the row has said
\* at some time since it was last saved by one who rewrites the list: of several
\* writers a slow one never puts an older list over a newer one, whatever was
\* written back to the row meanwhile.  (writeGateways, gatewaysChanged)
ListIsNotOlder ==
    (\A w \in Writers : Idle(w)) /\ ~unwritten /\ ~unread => engine = file /\ file \in since

\* A gateway pairs only with a home that verified its proof of the token the
\* gateway has, and once until it is reset: an attempt that one side gave up, or
\* that could not be saved, has not spent the token, and of two that both reached
\* the end only one pairs.  (pairConn, pair.Gateway)
PairedByConfirmation ==
    [][ gw'.pairs > gw.pairs
          => /\ \E a \in Attempts : att[a].gw = "proved" /\ att[a].home \in {"told", "saved"}
                                    /\ att[a].token = gw.token
             /\ gw.pairs = 0 ]_vars

=============================================================================
