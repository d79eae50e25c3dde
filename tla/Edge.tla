-------------------------------- MODULE Edge --------------------------------
(***************************************************************************)
(* Relay Edge, the data plane of internal/edge: how it takes a new         *)
(* configuration while it serves (Server.apply), and how the certificate   *)
(* it serves follows the files, which a renewal replaces one after the     *)
(* other (certStore).  Three run side by side: the reload, the background  *)
(* loop that polls the files and staples OCSP responses, and the renewal.  *)
(*                                                                         *)
(* A version of a certificate stands for its key, its chain and the time   *)
(* and size of their files: two files with the same stamp are the same.    *)
(***************************************************************************)
EXTENDS Naturals, Sequences, FiniteSets

CONSTANTS
    Listener,    \* what listens: kind|network|address, the key of a listenSpec
    Addr,        \* the address of each
    Configs,     \* the configurations that are loaded
    MaxVersion,  \* bound: renewals of the certificate
    None         \* no configuration, no entry

VARIABLES
    files,    \* fullchain.pem and privkey.pem
    table,    \* the configuration that serves; None while the engine is down
    entry,    \* the entry of the certificate in certStore.entries, or None
    bound,    \* s.listeners
    closing,  \* listeners removed by a reload whose sockets are not closed yet
    held,     \* the listeners whose addresses the kernel holds for the engine
    load,     \* Reload, or Start
    poll      \* the background loop

vars == <<files, table, entry, bound, closing, held, load, poll>>

Version == 1..MaxVersion

\* base is the pair as parsed, cur what handshakes present: a version and the
\* version its staple is for, 0 for none.  due is that a staple is to be
\* fetched, lapsed that the one served has expired.
Entry == [ staples: BOOLEAN, stamp: Version \X Version, base: Version,
           cur: Version \X (0..MaxVersion), due: BOOLEAN, lapsed: BOOLEAN ]

NewEntry(staples, stamp, v) ==
    [ staples |-> staples, stamp |-> stamp, base |-> v, cur |-> <<v, 0>>,
      due |-> TRUE, lapsed |-> FALSE ]

Idle == [pc |-> "idle", cfg |-> None, seen |-> <<>>, made |-> None, opened |-> {}]
Rest == [pc |-> "rest", seen |-> <<>>, base |-> 0, lapsed |-> FALSE, live |-> TRUE]

TypeOK ==
    /\ files \in [{"chain", "key"} -> Version]
    /\ table \in Configs \cup {None}
    /\ entry \in Entry \cup {None}
    /\ bound \subseteq Listener /\ closing \subseteq Listener /\ held \subseteq Listener
    /\ load.pc \in {"idle", "read", "open"} /\ load.cfg \in Configs \cup {None}
    /\ load.made \in Entry \cup {None} /\ load.opened \subseteq Listener
    /\ poll.pc \in {"rest", "stat", "read", "fetch"} /\ poll.base \in 0..MaxVersion
    /\ \A s \in {load.seen, poll.seen} : s \in Seq(Version) /\ Len(s) <= 4

Init ==
    /\ files = [f \in {"chain", "key"} |-> 1]
    /\ table = None /\ entry = None
    /\ bound = {} /\ closing = {} /\ held = {}
    /\ load = Idle /\ poll = Rest

-----------------------------------------------------------------------------
(* The files *)

\* writeCertFiles: the key is renamed into place, then the chain.  Nothing
\* finishes what a crash leaves between the two but the next renewal.
RenewKey ==
    /\ files.key < MaxVersion
    /\ files' = [files EXCEPT !.key = @ + 1]
    /\ UNCHANGED <<table, entry, bound, closing, held, load, poll>>

RenewChain ==
    /\ files.chain # files.key
    /\ files' = [files EXCEPT !.chain = files.key]
    /\ UNCHANGED <<table, entry, bound, closing, held, load, poll>>

\* readPair: both files are stamped, then both are read.
Order == <<"chain", "key", "chain", "key">>

Look(seen) == Append(seen, files[Order[Len(seen) + 1]])

\* As Layout, with the files read before they are stamped.
ReadFirst == [stamp |-> 3, content |-> 1]

\* Which of the four observations are the stamps, and which the contents.
Layout == [stamp |-> 1, content |-> 3]

Stamp(seen)   == <<seen[Layout.stamp], seen[Layout.stamp + 1]>>
Content(seen) == <<seen[Layout.content], seen[Layout.content + 1]>>

\* tls.X509KeyPair
Parses(pair) == pair[1] = pair[2]

-----------------------------------------------------------------------------
(* Reload and Start: s.mu is held from Begin to the end *)

\* SIGHUP, or the start of the process.
Begin(c) ==
    /\ load.pc = "idle"
    /\ load' = [Idle EXCEPT !.pc = IF c.cert THEN "read" ELSE "open", !.cfg = c]
    /\ UNCHANGED <<files, table, entry, bound, closing, held, poll>>

\* As GiveUp, but what was opened stays open.
LeaveOpen ==
    /\ load' = Idle
    /\ UNCHANGED <<files, table, entry, bound, closing, held, poll>>

\* The new configuration does not load, or a listener cannot be bound: what was
\* opened for it is closed, and everything stays as it was.
GiveUp ==
    /\ load' = Idle
    /\ held' = held \ load.opened
    /\ UNCHANGED <<files, table, entry, bound, closing, poll>>

\* compile fails for anything but the certificate.
CompileFails == load.pc = "read" /\ GiveUp

ReadFile ==
    /\ load.pc = "read" /\ Len(load.seen) < 4
    /\ load' = [load EXCEPT !.seen = Look(@)]
    /\ UNCHANGED <<files, table, entry, bound, closing, held, poll>>

\* prepare: an entry whose files are unchanged is reused, with its staple.  It
\* waits for the lock of the entry, which a poll holds while it reads.
Reusable(pair) ==
    /\ entry # None
    /\ entry.staples = load.cfg.staples
    /\ pair = <<entry.base, entry.base>>

Prepare ==
    /\ load.pc = "read" /\ Len(load.seen) = 4
    /\ ~(poll.pc = "read" /\ poll.live)
    /\ LET pair == Content(load.seen)
       IN  \/ /\ Reusable(pair)
              /\ load' = [load EXCEPT !.pc = "open", !.seen = <<>>]
              /\ UNCHANGED <<files, table, entry, bound, closing, held, poll>>
           \/ /\ ~Reusable(pair) /\ Parses(pair)
              /\ load' = [load EXCEPT !.pc = "open", !.seen = <<>>,
                            !.made = NewEntry(load.cfg.staples, Stamp(load.seen), pair[1])]
              /\ UNCHANGED <<files, table, entry, bound, closing, held, poll>>
           \/ ~Reusable(pair) /\ ~Parses(pair) /\ GiveUp

Missing == load.cfg.listen \ (bound \cup load.opened)

Open(l) ==
    /\ load.pc = "open" /\ l \in Missing
    /\ \A k \in held : Addr[k] # Addr[l]
    /\ load' = [load EXCEPT !.opened = @ \cup {l}]
    /\ held' = held \cup {l}
    /\ UNCHANGED <<files, table, entry, bound, closing, poll>>

\* The address is in use: by a listener that stays until the swap, by one that
\* is being closed, or by another program.
OpenFails == load.pc = "open" /\ Missing # {} /\ GiveUp

\* The swap.  The listeners that are no longer wanted are shut down by
\* goroutines of their own.
Removed == bound \ load.cfg.listen

Swap ==
    /\ load.pc = "open" /\ Missing = {}
    /\ table' = load.cfg
    /\ entry' = IF ~load.cfg.cert THEN None ELSE IF load.made # None THEN load.made ELSE entry
    /\ bound' = (bound \cup load.opened) \ Removed
    /\ closing' = closing \cup Removed
    /\ load' = Idle
    /\ poll' = [poll EXCEPT !.live = @ /\ load.cfg.cert /\ load.made = None]
    /\ UNCHANGED <<files, held>>

\* A removed listener closes its socket; its sessions may still drain.
Close(l) ==
    /\ l \in closing
    /\ closing' = closing \ {l}
    /\ held' = held \ {l}
    /\ UNCHANGED <<files, table, entry, bound, load, poll>>

\* Shutdown, or a crash: the kernel closes everything.
Exit ==
    /\ table # None
    /\ table' = None /\ entry' = None
    /\ bound' = {} /\ closing' = {} /\ held' = {}
    /\ load' = Idle /\ poll' = Rest
    /\ UNCHANGED files

-----------------------------------------------------------------------------
(* background: one goroutine polls the files and staples *)

Unpolled == UNCHANGED <<files, table, bound, closing, held, load>>

PollBegin ==
    /\ poll.pc = "rest" /\ entry # None
    /\ poll' = [Rest EXCEPT !.pc = "stat"]
    /\ UNCHANGED entry /\ Unpolled

\* statPair, before the lock of the entry is taken.
PollStat ==
    /\ poll.pc = "stat" /\ Len(poll.seen) < 2
    /\ poll' = [poll EXCEPT !.seen = Look(@)]
    /\ UNCHANGED entry /\ Unpolled

\* A poll of an entry that is no longer live finds what it likes.
PollCompare ==
    /\ poll.pc = "stat" /\ Len(poll.seen) = 2
    /\ poll' = IF poll.live /\ poll.seen # entry.stamp
                 THEN [poll EXCEPT !.pc = "read", !.seen = <<>>] ELSE Rest
    /\ UNCHANGED entry /\ Unpolled

PollRead ==
    /\ poll.pc = "read" /\ Len(poll.seen) < 4
    /\ poll' = [poll EXCEPT !.seen = Look(@)]
    /\ UNCHANGED entry /\ Unpolled

\* The stamp is kept whatever was read; a pair that does not parse, or is the
\* one that is loaded, changes nothing else.
Reload ==
    /\ poll.pc = "read" /\ Len(poll.seen) = 4
    /\ LET pair  == Content(poll.seen)
           stamp == Stamp(poll.seen)
       IN  entry' = IF ~poll.live THEN entry
                    ELSE IF Parses(pair) /\ pair[1] # entry.base
                      THEN NewEntry(entry.staples, stamp, pair[1])
                      ELSE [entry EXCEPT !.stamp = stamp]
    /\ poll' = Rest
    /\ Unpolled

\* staple: the lock is not held while the responder is asked.
StapleBegin ==
    /\ poll.pc = "rest" /\ entry # None /\ entry.staples /\ entry.due
    /\ poll' = [Rest EXCEPT !.pc = "fetch", !.base = entry.base, !.lapsed = entry.lapsed]
    /\ UNCHANGED entry /\ Unpolled

\* The pair was renewed while the responder was asked: it cannot be as long as
\* one goroutine polls and staples, and is checked all the same.
Renewed == entry.base # poll.base

StapleEnd(answered) ==
    /\ poll.pc = "fetch"
    /\ entry' = IF ~poll.live \/ Renewed THEN entry
                ELSE IF answered
                  THEN [entry EXCEPT !.due = FALSE, !.lapsed = FALSE,
                                     !.cur = <<poll.base, poll.base>>]
                ELSE IF poll.lapsed
                  THEN [entry EXCEPT !.due = FALSE, !.lapsed = FALSE, !.cur = <<poll.base, 0>>]
                  ELSE [entry EXCEPT !.due = FALSE]
    /\ poll' = Rest
    /\ Unpolled

\* Time passes: the next fetch is due, and a staple expires only after that.
FallsDue ==
    /\ entry # None /\ ~entry.due
    /\ entry' = [entry EXCEPT !.due = TRUE]
    /\ UNCHANGED poll /\ Unpolled

Lapses ==
    /\ entry # None /\ entry.due /\ entry.cur[2] # 0 /\ ~entry.lapsed
    /\ entry' = [entry EXCEPT !.lapsed = TRUE]
    /\ UNCHANGED poll /\ Unpolled

-----------------------------------------------------------------------------

Poll == PollBegin \/ PollStat \/ PollCompare \/ PollRead \/ Reload

Staple == StapleBegin \/ \E answered \in BOOLEAN : StapleEnd(answered)

Loading ==
    \/ CompileFails \/ ReadFile \/ Prepare \/ OpenFails \/ Swap
    \/ \E l \in Listener : Open(l)

Next ==
    \/ RenewKey \/ RenewChain
    \/ \E c \in Configs : Begin(c)
    \/ Loading
    \/ \E l \in Listener : Close(l)
    \/ Exit
    \/ Poll \/ Staple
    \/ FallsDue \/ Lapses

Spec == Init /\ [][Next]_vars

-----------------------------------------------------------------------------
(* Properties *)

\* What the kernel holds for the engine is what the configuration that serves
\* listens on, what a reload opened so far, and what is being closed: a reload
\* that fails leaves nothing behind that would make the next one fail.
SocketsAreAccounted ==
    /\ held = bound \cup load.opened \cup closing
    /\ table # None => bound = table.listen
    /\ bound \cap closing = {}

\* No renewal is missed: an entry that takes the files for unchanged presents
\* what they hold, whatever was read while they were being replaced and whatever
\* reload or stapling went on meanwhile.
NoRenewalIsMissed ==
    entry # None /\ entry.stamp = <<files.chain, files.key>> /\ Parses(entry.stamp)
        => entry.cur[1] = files.chain
=============================================================================
