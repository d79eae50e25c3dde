------------------------------ MODULE Streams ------------------------------
(***************************************************************************)
(* One client connection through the tunnel over TCP: the gateway copies   *)
(* between the client and a stream (forward, src/internal/gateway/         *)
(* clients.go), the home between the stream and an engine's socket (pipe,  *)
(* src/internal/tunnel/conn.go), and the stream is a CONNECT request of    *)
(* HTTP/2 whose client is the gateway (src/internal/tunnel/mux/h2.go).     *)
(*                                                                         *)
(* The stream has been accepted and its header read.  The client and the   *)
(* engine read whatever they are sent.  HTTP/2 itself is external: frames  *)
(* arrive in their order or not at all, a DATA frame waits for a window,   *)
(* and what arrived before a reset stays readable.                         *)
(***************************************************************************)
EXTENDS Naturals, Sequences

CONSTANTS
    Most,     \* bound: Most[s] chunks are sent by the end of a side
    Window,   \* chunks of a direction that are sent and not read
    None

Sides == {"gateway", "home"}
Ways  == {"up", "down"}

Other(s) == IF s = "gateway" THEN "home" ELSE "gateway"

\* the direction in which a side writes
Way(s) == IF s = "gateway" THEN "up" ELSE "down"

VARIABLES
    ends,    \* ends[s]: the connection of a side: the client's, or the one to the engine
    copy,    \* copy[s]: its goroutines: put copies into the stream, take out of it
    gate,    \* h2GatewayStream, and tx: the request's body on its way to the wire
    serve,   \* h2HomeStream and its handler
    way,     \* way[w]: frames on the wire, what can be read, and how the sender ended it
    link,    \* the session is alive
    late     \* IdleTimeout passed while the request's body was being sent

vars == <<ends, copy, gate, serve, way, link, late>>

Frames == {"data", "fin", "end", "rst"}

TypeOK ==
    /\ ends \in [Sides -> [ sent : Nat, eof : BOOLEAN, broken : BOOLEAN,
                            got : Nat, told : {"open", "eof", "closed"} ]]
    /\ copy \in [Sides -> [ put : {"read", "write", "eof", "done"}, take : {"read", "write", "done"} ]]
    /\ gate \in [ wclosed : BOOLEAN, closed : BOOLEAN, aborted : BOOLEAN,
                  tx : {"idle", "chunk", "ended", "failed"} ]
    /\ serve \in [ sawEOF : BOOLEAN, wclosed : BOOLEAN, readDone : BOOLEAN, reset : BOOLEAN,
                   draining : BOOLEAN, aborted : BOOLEAN, gone : BOOLEAN ]
    /\ \A w \in Ways :
         /\ way[w].wire \in Seq(Frames) /\ way[w].body \in Seq({"data", "fin"})
         /\ way[w].over \in {None, "eof", "reset"}
    /\ link \in BOOLEAN /\ late \in BOOLEAN

-----------------------------------------------------------------------------
(* The client and the engine                                               *)

\* bound: one failure
Sound == link /\ \A s \in Sides : ~ends[s].broken

\* A connection fails, or who has it closes it while it may still be sent to.
Break(s) ==
    /\ Sound
    /\ ends' = [ends EXCEPT ![s].broken = TRUE]
    /\ UNCHANGED <<copy, gate, serve, way, link, late>>

Usable(s) == ends[s].told # "closed" /\ ~ends[s].broken

-----------------------------------------------------------------------------
(* The gateway's stream                                                    *)

Room(w) == Len(way[w].wire) + Len(way[w].body) < Window

\* the request has been sent (WroteRequest)
Wrote == gate.tx \in {"ended", "failed"}

\* The request is reset unless it is over in both directions.
ResetFrame == IF gate.tx = "ended" /\ way["down"].over = "eof" THEN <<>> ELSE <<"rst">>

\* h2GatewayStream.abort: it cancels the request and closes its pipe with the error.
AbortGateway ==
    /\ gate' = [gate EXCEPT !.closed = TRUE, !.aborted = TRUE, !.tx = IF @ = "ended" THEN @ ELSE "failed"]
    /\ way' = [way EXCEPT !["up"].wire = @ \o (IF gate.aborted THEN <<>> ELSE ResetFrame)]

\* As CloseGateway, without the goroutine that waits.
CloseGatewayAtOnce == AbortGateway

\* h2GatewayStream.Close: after CloseWrite it waits until the body is sent.
CloseGateway ==
    IF ~gate.wclosed \/ Wrote THEN AbortGateway
    ELSE gate' = [gate EXCEPT !.closed = TRUE] /\ UNCHANGED way

\* The end of that wait, and of the session.
FinishClose ==
    /\ ~gate.aborted
    /\ \/ gate.closed /\ Wrote /\ UNCHANGED late
       \/ gate.closed /\ ~Wrote /\ late' = TRUE
       \/ ~link /\ UNCHANGED late
    /\ AbortGateway
    /\ UNCHANGED <<ends, copy, serve, link>>

\* The transport takes a chunk from the pipe, which ends the Write, and sends it.
Transmit ==
    /\ link /\ ~gate.aborted
    /\ \/ /\ gate.tx = "idle" /\ copy["gateway"].put = "write"
          /\ copy' = [copy EXCEPT !["gateway"].put = "read"]
          /\ gate' = [gate EXCEPT !.tx = "chunk"]
          /\ UNCHANGED way
       \/ /\ gate.tx = "chunk" /\ Room("up")
          /\ gate' = [gate EXCEPT !.tx = "idle"]
          /\ way' = [way EXCEPT !["up"].wire = Append(@, "data")]
          /\ UNCHANGED copy
       \/ /\ gate.tx = "idle" /\ gate.wclosed
          /\ gate' = [gate EXCEPT !.tx = "ended"]
          /\ way' = [way EXCEPT !["up"].wire = Append(@, "end")]
          /\ UNCHANGED copy
    /\ UNCHANGED <<ends, serve, link, late>>

-----------------------------------------------------------------------------
(* The home's stream                                                       *)

\* h2HomeStream.abort
AbortHome == serve' = [serve EXCEPT !.aborted = TRUE]

\* maybeFinish
Finished == serve.sawEOF /\ serve.wclosed

\* The reader of a stream that was reset came to its end.
Drained == serve.draining /\ serve.readDone

\* serve: what the handler waits for, and
Handler ==
    /\ ~serve.gone
    /\ \/ ~link /\ ~serve.aborted /\ serve' = [serve EXCEPT !.aborted = TRUE]
       \/ serve.reset /\ ~serve.draining /\ serve' = [serve EXCEPT !.draining = TRUE]
       \/ Drained /\ ~serve.aborted /\ serve' = [serve EXCEPT !.aborted = TRUE]
    /\ UNCHANGED <<ends, copy, gate, way, link, late>>

\* its return, which ends the response, or resets the stream.
HandlerReturns ==
    /\ ~serve.gone
    /\ Finished \/ serve.aborted
    /\ serve' = [serve EXCEPT !.gone = TRUE, !.aborted = @ \/ ~Finished]
    /\ way' = [way EXCEPT !["down"].wire = Append(@, IF Finished THEN "end" ELSE "rst")]
    /\ UNCHANGED <<ends, copy, gate, link, late>>

-----------------------------------------------------------------------------
(* Frames arrive                                                           *)

Arrive(w) ==
    /\ link /\ way[w].wire # <<>>
    /\ LET f == Head(way[w].wire)
           rest == [way[w] EXCEPT !.wire = Tail(@)]
       IN  /\ way' = [way EXCEPT ![w] =
                CASE f \in {"data", "fin"} -> [rest EXCEPT !.body = Append(@, f)]
                  [] f = "end" -> [rest EXCEPT !.over = IF @ = None THEN "eof" ELSE @]
                  [] f = "rst" -> [rest EXCEPT !.over = IF @ = None THEN "reset" ELSE @] ]
           /\ serve' = [serve EXCEPT !.reset = @ \/ (w = "up" /\ f = "rst")]
           /\ gate' = [gate EXCEPT !.tx = IF w = "down" /\ f = "rst" /\ @ # "ended" THEN "failed" ELSE @]
    /\ UNCHANGED <<ends, copy, link, late>>

SessionDies == Sound /\ link' = FALSE /\ UNCHANGED <<ends, copy, gate, serve, way, late>>

-----------------------------------------------------------------------------
(* The copies.  An error of one aborts both; forward and pipe differ only  *)
(* in whose stream it is.                                                  *)

CloseStream(s) ==
    IF s = "gateway" THEN CloseGateway /\ UNCHANGED serve
    ELSE AbortHome /\ UNCHANGED <<gate, way>>

\* As Fail, for a copy that closes only what it writes to.
FailAlone(s, which) ==
    /\ IF which = "put" THEN CloseStream(s) /\ UNCHANGED ends
       ELSE ends' = [ends EXCEPT ![s].told = "closed"] /\ UNCHANGED <<gate, serve, way>>
    /\ copy' = [copy EXCEPT ![s][which] = "done"]
    /\ UNCHANGED <<link, late>>

Fail(s, which) ==
    /\ CloseStream(s)
    /\ ends' = [ends EXCEPT ![s].told = "closed"]
    /\ copy' = [copy EXCEPT ![s][which] = "done"]
    /\ UNCHANGED <<link, late>>

\* io.Copy into the stream reads from the connection what was sent,
Send(s) ==
    /\ copy[s].put = "read" /\ Usable(s) /\ ends[s].sent < Most[s]
    /\ ends' = [ends EXCEPT ![s].sent = @ + 1]
    /\ copy' = [copy EXCEPT ![s].put = "write"]
    /\ UNCHANGED <<gate, serve, way, link, late>>

\* or its end,
HalfClose(s) ==
    /\ copy[s].put = "read" /\ Usable(s)
    /\ ends' = [ends EXCEPT ![s].eof = TRUE]
    /\ copy' = [copy EXCEPT ![s].put = "eof"]
    /\ UNCHANGED <<gate, serve, way, link, late>>

\* or that it failed,
PutFails(s) == copy[s].put = "read" /\ ~Usable(s) /\ Fail(s, "put")

\* localErr or the pipe's error; writable or the response's error
WriteFails(s) ==
    IF s = "gateway" THEN gate.closed \/ gate.tx = "failed" \/ ~link
    ELSE serve.aborted \/ serve.gone \/ serve.reset

\* writes (the gateway's Write is Transmit, from the other end of the pipe),
PutWrite(s) ==
    /\ copy[s].put = "write"
    /\ \/ WriteFails(s) /\ Fail(s, "put")
       \/ /\ s = "home" /\ ~WriteFails(s) /\ Room("down")
          /\ way' = [way EXCEPT !["down"].wire = Append(@, "data")]
          /\ copy' = [copy EXCEPT ![s].put = "read"]
          /\ UNCHANGED <<ends, gate, serve, link, late>>

\* and ends with CloseWrite, whose errors nobody looks at.
PutEOF(s) ==
    /\ copy[s].put = "eof"
    /\ \/ s = "gateway" /\ gate' = [gate EXCEPT !.wclosed = TRUE] /\ UNCHANGED <<serve, way>>
       \/ s = "home" /\ WriteFails(s) /\ UNCHANGED <<gate, serve, way>>
       \/ /\ s = "home" /\ ~WriteFails(s) /\ Room("down")
          /\ way' = [way EXCEPT !["down"].wire = Append(@, "fin")]
          /\ serve' = [serve EXCEPT !.wclosed = TRUE]
          /\ UNCHANGED gate
    /\ copy' = [copy EXCEPT ![s].put = "done"]
    /\ UNCHANGED <<ends, link, late>>

ReadFails(s) ==
    IF s = "gateway" THEN gate.closed \/ ~link ELSE serve.aborted \/ serve.gone

\* What a Read returns that fails with neither.
TakeEnd(s, w) ==
    \/ /\ way[w].body # <<>> /\ Head(way[w].body) = "data"
       /\ way' = [way EXCEPT ![w].body = Tail(@)]
       /\ copy' = [copy EXCEPT ![s].take = "write"]
       /\ UNCHANGED <<ends, gate, serve, link, late>>
    \/ \* The home's EOF is that of the request, the gateway's is a marker.
       /\ \/ /\ s = "home" /\ way[w].body = <<>> /\ way[w].over = "eof"
             /\ serve' = [serve EXCEPT !.sawEOF = TRUE, !.readDone = TRUE]
          \/ /\ s = "gateway" /\ way[w].body # <<>> /\ Head(way[w].body) = "fin"
             /\ UNCHANGED serve
       /\ ends' = [ends EXCEPT ![s].told = IF @ = "open" THEN "eof" ELSE @]
       /\ copy' = [copy EXCEPT ![s].take = "done"]
       /\ UNCHANGED <<gate, way, link, late>>
    \/ /\ s = "gateway" /\ way[w].body = <<>> /\ way[w].over # None
       /\ Fail(s, "take")
    \/ /\ s = "home" /\ way[w].body = <<>> /\ way[w].over = "reset"
       /\ serve' = [serve EXCEPT !.readDone = TRUE, !.aborted = TRUE]
       /\ ends' = [ends EXCEPT ![s].told = "closed"]
       /\ copy' = [copy EXCEPT ![s].take = "done"]
       /\ UNCHANGED <<gate, way, link, late>>

\* io.Copy out of it reads,
TakeRead(s) ==
    /\ copy[s].take = "read"
    /\ \/ ReadFails(s) /\ Fail(s, "take")
       \/ ~ReadFails(s) /\ TakeEnd(s, Way(Other(s)))

\* and writes to the connection.
TakeWrite(s) ==
    /\ copy[s].take = "write"
    /\ \/ ~Usable(s) /\ Fail(s, "take")
       \/ /\ Usable(s)
          /\ ends' = [ends EXCEPT ![s].got = @ + 1]
          /\ copy' = [copy EXCEPT ![s].take = "read"]
          /\ UNCHANGED <<gate, serve, way, link, late>>

\* Both are done.
Over(s) ==
    /\ copy[s] = [put |-> "done", take |-> "done"] /\ ends[s].told # "closed"
    /\ CloseStream(s)
    /\ ends' = [ends EXCEPT ![s].told = "closed"]
    /\ UNCHANGED <<copy, link, late>>

\* handleStream's AfterFunc on the session
SessionOver ==
    /\ ~link /\ ends["home"].told # "closed"
    /\ AbortHome
    /\ ends' = [ends EXCEPT !["home"].told = "closed"]
    /\ UNCHANGED <<copy, gate, way, link, late>>

-----------------------------------------------------------------------------

Init ==
    /\ ends = [s \in Sides |-> [sent |-> 0, eof |-> FALSE, broken |-> FALSE,
                                got |-> 0, told |-> "open"]]
    /\ copy = [s \in Sides |-> [put |-> "read", take |-> "read"]]
    /\ gate = [wclosed |-> FALSE, closed |-> FALSE, aborted |-> FALSE, tx |-> "idle"]
    /\ serve = [sawEOF |-> FALSE, wclosed |-> FALSE, readDone |-> FALSE, reset |-> FALSE,
                draining |-> FALSE, aborted |-> FALSE, gone |-> FALSE]
    /\ way = [w \in Ways |-> [wire |-> <<>>, body |-> <<>>, over |-> None]]
    /\ link = TRUE /\ late = FALSE

Put(s)  == PutFails(s) \/ PutWrite(s) \/ PutEOF(s)
Take(s) == TakeRead(s) \/ TakeWrite(s)

\* The steps of the goroutines, and the arrival of frames
Step ==
    \/ \E s \in Sides : Put(s) \/ Take(s) \/ Over(s)
    \/ \E w \in Ways : Arrive(w)
    \/ FinishClose \/ Transmit \/ Handler \/ HandlerReturns \/ SessionOver

Next ==
    \/ \E s \in Sides : Send(s) \/ HalfClose(s) \/ Break(s)
    \/ Step \/ SessionDies

Spec == Init /\ [][Next]_vars

\* Goroutines run, and frames of a session that is alive arrive.  (No behaviour
\* repeats a state, so that it is enough that some step is taken.)
Fairness == WF_vars(Step)

FairSpec == Spec /\ Fairness

-----------------------------------------------------------------------------
(* Properties                                                              *)

Hurt == ~link \/ late \/ \E s \in Sides : ends[s].broken

Complete(s) == ends[Other(s)].eof /\ ends[s].got = ends[Other(s)].sent

\* An end is told of the other's EOF only when it has all that the other sent,
\* whatever fails; and while no connection fails, the session lives and the
\* body is sent in time, no connection is closed before that.  (mux: "Close
\* aborts the stream ...; after CloseWrite, data already written is still
\* delivered")
NothingIsCut ==
    \A s \in Sides :
        /\ ends[s].told = "eof" => Complete(s)
        /\ ends[s].told = "closed" /\ ~Hurt => Complete(s)

Released ==
    /\ serve.gone /\ gate.aborted
    /\ \A s \in Sides : ends[s].told = "closed" /\ copy[s] = [put |-> "done", take |-> "done"]

\* Once both ends have sent all they have or failed, or an end failed or the
\* session died before that, the handler returns and every goroutine and
\* connection of the stream ends.  (serve: "The handler outlives the stream's
\* use".  An end that goes away after its EOF is noticed only when it is written
\* to, and after the engine's EOF the gateway notices only with the client's next
\* data that the session died.)
StreamsEnd ==
    \/ ~link /\ ~ends["home"].eof
    \/ \A s \in Sides : ends[s].eof \/ ends[s].broken
    \/ \E s \in Sides : ends[s].broken /\ ~ends[s].eof
  ~> Released

=============================================================================
