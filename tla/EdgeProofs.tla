----------------------------- MODULE EdgeProofs -----------------------------
(***************************************************************************)
(* Relay Edge, for every set of listeners, addresses and configurations    *)
(* and any number of renewals:                                             *)
(*                                                                         *)
(*   SocketsAreKept    EngineSpec => []SocketsAreAccounted                 *)
(*   RenewalsAreSeen   EngineSpec => []NoRenewalIsMissed                   *)
(*                                                                         *)
(* and for every set of settings and of requests:                          *)
(*                                                                         *)
(*   EnginesAlwaysAgree   EngineSpec => []EnginesAgree                     *)
(*                                                                         *)
(* and for every set of plans, of sessions and of client addresses:        *)
(*                                                                         *)
(*   BalancersAlwaysAgree   EngineSpec => []BalancersAgree                 *)
(*                                                                         *)
(* They are stated of MCEngine, in which the agent and others rest while   *)
(* Relay Edge moves.                                                       *)
(***************************************************************************)
EXTENDS MCEngine, WellFoundedInduction, SequenceTheorems, TLAPS

-----------------------------------------------------------------------------
(* Sockets *)

LoadType(made) ==
    [ pc : {"idle", "read", "open"}, cfg : Configs \cup {none}, seen : Seq(Nat),
      made : made \cup {none}, opened : SUBSET Listener ]

\* What a reload opened is of its configuration, and is held for nothing else.
SocketInv ==
    /\ E!SocketsAreAccounted
    /\ load.opened \cap (bound \cup closing) = {}
    /\ load.opened # {} => load.pc = "open" /\ load.opened \subseteq load.cfg.listen

-----------------------------------------------------------------------------
(* Certificates *)

FilesType == [{"chain", "key"} -> Nat]

EntryType ==
    [ staples : {c.staples : c \in Configs}, stamp : Nat \X Nat, base : Nat,
      cur : Nat \X Nat, due : BOOLEAN, lapsed : BOOLEAN ]

PollType ==
    [ pc : {"rest", "stat", "read", "fetch"}, seen : Seq(Nat), base : Nat,
      lapsed : BOOLEAN, live : BOOLEAN ]

\* Observations of the chain, the key, the chain and the key: versions go up.
Observed(s, f) ==
    /\ Len(s) <= 4
    /\ Len(s) > 0 => s[1] <= f.chain
    /\ Len(s) > 1 => s[2] <= f.key
    /\ Len(s) > 2 => s[1] <= s[3] /\ s[3] <= f.chain
    /\ Len(s) > 3 => s[2] <= s[4] /\ s[4] <= f.key

\* An entry was stamped before the files were read: if it has the stamp of what
\* they are now, they were that when they were read.
Current(e, f) ==
    /\ e.stamp[1] <= f.chain /\ e.stamp[2] <= f.key
    /\ e.stamp = <<f.chain, f.key>> /\ f.chain = f.key => e.base = f.chain
    /\ e.cur[1] = e.base

EdgeTypes ==
    /\ files \in FilesType
    /\ entry \in EntryType \cup {none}
    /\ load \in LoadType(EntryType)
    /\ poll \in PollType

EdgeInv ==
    /\ EdgeTypes
    /\ SocketInv
    /\ load.pc # "idle" => load.cfg \in Configs
    /\ files.chain <= files.key
    /\ Observed(load.seen, files) /\ Observed(poll.seen, files)
    /\ entry # none => Current(entry, files)
    /\ load.made # none => Current(load.made, files)
    /\ poll.pc # "rest" /\ poll.live => entry \in EntryType /\ Current(entry, files)

-----------------------------------------------------------------------------

\* What is in a sequence
LEMMA Elements ==
  ASSUME NEW X, NEW s \in Seq(X)
  PROVE  Len(s) \in Nat /\ \A i \in 1..Len(s) : s[i] \in X
OBVIOUS

\* One more file is looked at,
LEMMA LooksOn ==
  ASSUME files \in FilesType, NEW s \in Seq(Nat), Observed(s, files), Len(s) < 4
  PROVE  E!Look(s) \in Seq(Nat) /\ Observed(E!Look(s), files)
<1>1. Len(s) \in {0, 1, 2, 3}
  <2>1. PICK n \in Nat : Len(s) = n
    BY Elements
  <2>2. n \in {0, 1, 2, 3}
    BY <2>1
  <2> QED
    BY <2>1, <2>2
<1>2. /\ E!Order[1] = "chain" /\ E!Order[2] = "key" /\ E!Order[3] = "chain" /\ E!Order[4] = "key"
      /\ files["chain"] \in Nat /\ files["key"] \in Nat
  BY DEF E!Order, FilesType
<1> DEFINE v == files[E!Order[Len(s) + 1]]
<1>3. v = IF Len(s) \in {0, 2} THEN files["chain"] ELSE files["key"]
  <2>1. CASE Len(s) = 0
    BY <1>2, <2>1
  <2>2. CASE Len(s) = 1
    BY <1>2, <2>2
  <2>3. CASE Len(s) = 2
    BY <1>2, <2>3
  <2>4. CASE Len(s) = 3
    BY <1>2, <2>4
  <2> QED
    BY <1>1, <2>1, <2>2, <2>3, <2>4
<1>4. v \in Nat /\ E!Look(s) = Append(s, v)
  BY <1>2, <1>3 DEF E!Look
<1> HIDE DEF v
<1>5. /\ Append(s, v) \in Seq(Nat) /\ Len(Append(s, v)) = Len(s) + 1 /\ Append(s, v)[Len(s) + 1] = v
      /\ \A i \in 1..Len(s) : Append(s, v)[i] = s[i]
  BY <1>4
<1> DEFINE p == Append(s, v)
<1> HIDE DEF p
<1>6. Observed(p, files)
  <2>1. Len(p) = Len(s) + 1 /\ p[Len(s) + 1] = v /\ \A i \in 1..Len(s) : p[i] = s[i]
    BY <1>5 DEF p
  <2>2. CASE Len(s) = 0
    <3>1. Len(s) + 1 = 1 /\ v = files["chain"]
      BY <1>3, <2>2
    <3>2. p[1] = files["chain"] /\ Len(p) = 1
      BY <2>1, <3>1
    <3> QED
      BY <1>2, <3>2 DEF Observed
  <2>3. CASE Len(s) = 1
    <3>1. Len(s) + 1 = 2 /\ v = files["key"] /\ 1 \in 1..Len(s)
      BY <1>3, <2>3
    <3>2. p[1] = s[1] /\ p[2] = files["key"] /\ Len(p) = 2
      BY <2>1, <3>1
    <3> QED
      BY <1>2, <2>3, <3>2 DEF Observed
  <2>4. CASE Len(s) = 2
    <3>1. Len(s) + 1 = 3 /\ v = files["chain"] /\ 1 \in 1..Len(s) /\ 2 \in 1..Len(s)
      BY <1>3, <2>4
    <3>2. p[1] = s[1] /\ p[2] = s[2] /\ p[3] = files["chain"] /\ Len(p) = 3
      BY <2>1, <3>1
    <3> QED
      BY <1>2, <2>4, <3>2 DEF Observed
  <2>5. CASE Len(s) = 3
    <3>1. Len(s) + 1 = 4 /\ v = files["key"] /\ 1 \in 1..Len(s) /\ 2 \in 1..Len(s) /\ 3 \in 1..Len(s)
      BY <1>3, <2>5
    <3>2. p[1] = s[1] /\ p[2] = s[2] /\ p[3] = s[3] /\ p[4] = files["key"] /\ Len(p) = 4
      BY <2>1, <3>1
    <3> QED
      BY <1>2, <2>5, <3>2 DEF Observed
  <2> QED
    BY <1>1, <2>2, <2>3, <2>4, <2>5
<1> QED
  BY <1>4, <1>5, <1>6 DEF p

\* and the four are the stamps and what was read after them.
LEMMA AllObserved ==
  ASSUME NEW s \in Seq(Nat), NEW f \in FilesType, Observed(s, f), Len(s) = 4
  PROVE  LET t == E!Stamp(s)
             c == E!Content(s)
         IN  /\ t \in Nat \X Nat /\ c \in Nat \X Nat
             /\ t[1] <= c[1] /\ c[1] <= f.chain /\ t[2] <= c[2] /\ c[2] <= f.key
<1>1. E!Stamp(s) = <<s[1], s[2]>> /\ E!Content(s) = <<s[3], s[4]>>
  BY DEF E!Stamp, E!Content, E!Layout
<1>2. s[1] \in Nat /\ s[2] \in Nat /\ s[3] \in Nat /\ s[4] \in Nat
  <2>1. \A i \in 1..Len(s) : s[i] \in Nat
    BY Elements
  <2> QED
    BY <2>1
<1> QED
  BY <1>1, <1>2 DEF Observed

\* What was observed stays behind the files,
LEMMA ObservedStays ==
  ASSUME NEW s \in Seq(Nat), NEW f \in FilesType, NEW g \in FilesType, f.chain <= g.chain, f.key <= g.key,
         Observed(s, f)
  PROVE  Observed(s, g)
<1>1. f.chain \in Nat /\ f.key \in Nat /\ g.chain \in Nat /\ g.key \in Nat
  BY DEF FilesType
<1>2. \A i \in 1..Len(s) : s[i] \in Nat
  BY Elements
<1> QED
  BY SMTT(60), <1>1, <1>2 DEF Observed

\* and an entry does not have the stamp of what replaces them.
LEMMA CurrentStays ==
  ASSUME NEW e \in EntryType, NEW f \in FilesType, NEW g \in FilesType, f.chain <= g.chain, f.key <= g.key,
         f.chain < g.chain \/ f.key < g.key, Current(e, f)
  PROVE  Current(e, g)
<1>1. f.chain \in Nat /\ f.key \in Nat /\ g.chain \in Nat /\ g.key \in Nat
  BY DEF FilesType
<1>2. e.stamp \in Nat \X Nat
  BY DEF EntryType
<1>3. e.stamp # <<g.chain, g.key>>
  BY <1>1, <1>2 DEF Current
<1> QED
  BY <1>1, <1>2, <1>3 DEF Current

\* An entry made of the files as they were observed
LEMMA NewIsCurrent ==
  ASSUME NEW s \in Seq(Nat), NEW f \in FilesType, Observed(s, f), Len(s) = 4, E!Parses(E!Content(s)),
         NEW b \in {c.staples : c \in Configs}
  PROVE  LET e == E!NewEntry(b, E!Stamp(s), E!Content(s)[1])
         IN  e \in EntryType /\ Current(e, f)
<1> DEFINE t == E!Stamp(s)
           c == E!Content(s)
           e == E!NewEntry(b, t, c[1])
<1>1. /\ t \in Nat \X Nat /\ c \in Nat \X Nat
      /\ t[1] <= c[1] /\ c[1] <= f.chain /\ t[2] <= c[2] /\ c[2] <= f.key
  BY AllObserved
<1>2. c[1] = c[2] /\ f.chain \in Nat /\ f.key \in Nat
  BY DEF E!Parses, FilesType
<1> HIDE DEF t, c
<1>3. e = [ staples |-> b, stamp |-> t, base |-> c[1], cur |-> <<c[1], 0>>, due |-> TRUE, lapsed |-> FALSE ]
  BY DEF E!NewEntry
<1>4. e \in EntryType
  BY <1>1, <1>3 DEF EntryType
<1>5. Current(e, f)
  <2>1. e.stamp = t /\ e.base = c[1] /\ e.cur[1] = c[1]
    BY <1>3
  <2>2. t = <<f.chain, f.key>> => t[1] = f.chain /\ t[2] = f.key
    OBVIOUS
  <2> QED
    BY <1>1, <1>2, <2>1, <2>2 DEF Current
<1> QED
  BY <1>4, <1>5 DEF t, c

\* and one stamped again: the files are what it was made of, or do not parse.
LEMMA RestampedIsCurrent ==
  ASSUME NEW s \in Seq(Nat), NEW f \in FilesType, Observed(s, f), Len(s) = 4, NEW e \in EntryType, Current(e, f),
         E!Parses(E!Content(s)) => E!Content(s)[1] = e.base
  PROVE  [e EXCEPT !.stamp = E!Stamp(s)] \in EntryType /\ Current([e EXCEPT !.stamp = E!Stamp(s)], f)
<1> DEFINE t == E!Stamp(s)
           c == E!Content(s)
           r == [e EXCEPT !.stamp = t]
<1>1. /\ t \in Nat \X Nat /\ c \in Nat \X Nat
      /\ t[1] <= c[1] /\ c[1] <= f.chain /\ t[2] <= c[2] /\ c[2] <= f.key
  BY AllObserved
<1>2. f.chain \in Nat /\ f.key \in Nat /\ (c[1] = c[2] => c[1] = e.base)
  BY DEF E!Parses, FilesType
<1> HIDE DEF t, c
<1>3. r \in EntryType /\ r.stamp = t /\ r.base = e.base /\ r.cur = e.cur
  BY <1>1 DEF EntryType
<1>4. t = <<f.chain, f.key>> => t[1] = f.chain /\ t[2] = f.key
  OBVIOUS
<1>5. Current(r, f)
  BY <1>1, <1>2, <1>3, <1>4 DEF Current
<1> QED
  BY <1>3, <1>5 DEF t

-----------------------------------------------------------------------------

\* Relay Edge starts with nothing.
LEMMA EdgeBegins == E!Init => EdgeInv
<1> SUFFICES ASSUME E!Init PROVE EdgeInv
  OBVIOUS
<1>1. /\ files = [f \in {"chain", "key"} |-> 1] /\ table = none /\ entry = none
      /\ bound = {} /\ closing = {} /\ held = {}
      /\ load = [pc |-> "idle", cfg |-> none, seen |-> <<>>, made |-> none, opened |-> {}]
      /\ poll = [pc |-> "rest", seen |-> <<>>, base |-> 0, lapsed |-> FALSE, live |-> TRUE]
  BY DEF E!Init, E!Idle, E!Rest
<1>2. files \in FilesType /\ files.chain = 1 /\ files.key = 1
  BY <1>1 DEF FilesType
<1>3. EdgeTypes
  BY <1>1, <1>2 DEF EdgeTypes, LoadType, PollType
<1>4. SocketInv
  BY <1>1 DEF SocketInv, E!SocketsAreAccounted
<1>5. Observed(<<>>, files)
  BY DEF Observed
<1> QED
  BY <1>1, <1>2, <1>3, <1>4, <1>5 DEF EdgeInv

\* A renewal replaces the key, or the chain.
LEMMA RenewalKeeps ==
  ASSUME EdgeInv, E!RenewKey \/ E!RenewChain
  PROVE  EdgeInv'
<1>1. EdgeTypes /\ files.chain \in Nat /\ files.key \in Nat /\ files.chain <= files.key
  BY DEF EdgeInv, EdgeTypes, FilesType
<1>2. /\ UNCHANGED <<table, entry, bound, closing, held, load, poll>>
      /\ files' \in FilesType /\ files.chain <= files'.chain /\ files.key <= files'.key
      /\ files.chain < files'.chain \/ files.key < files'.key
      /\ files'.chain <= files'.key
  BY <1>1 DEF E!RenewKey, E!RenewChain, EdgeTypes, FilesType
<1>3. /\ load.seen \in Seq(Nat) /\ poll.seen \in Seq(Nat)
      /\ entry # none => entry \in EntryType
      /\ load.made # none => load.made \in EntryType
  BY <1>1 DEF EdgeTypes, LoadType, PollType
<1>4. Observed(load.seen, files') /\ Observed(poll.seen, files')
  BY <1>1, <1>2, <1>3, ObservedStays DEF EdgeInv, EdgeTypes
<1>5. (entry # none => Current(entry, files')) /\ (load.made # none => Current(load.made, files'))
  BY <1>1, <1>2, <1>3, CurrentStays DEF EdgeInv, EdgeTypes
<1>6. poll.pc # "rest" /\ poll.live => entry \in EntryType /\ Current(entry, files')
  BY <1>1, <1>2, CurrentStays DEF EdgeInv, EdgeTypes
<1>7. EdgeTypes' /\ SocketInv'
  BY <1>1, <1>2 DEF EdgeInv, EdgeTypes, SocketInv, E!SocketsAreAccounted
<1> QED
  BY <1>2, <1>4, <1>5, <1>6, <1>7 DEF EdgeInv, EntryType

\* A reload moves on, and the files, the entry and the background loop do not.
LEMMA LoadMoves ==
  ASSUME EdgeInv, UNCHANGED <<files, entry, poll>>, load' \in LoadType(EntryType), SocketInv',
         load'.pc # "idle" => load'.cfg \in Configs,
         Observed(load'.seen, files), load'.made # none => Current(load'.made, files)
  PROVE  EdgeInv'
<1>1. files' = files /\ entry' = entry /\ poll' = poll
  OBVIOUS
<1>2. EdgeTypes'
  BY <1>1 DEF EdgeInv, EdgeTypes, EntryType, LoadType
<1> QED
  BY <1>1, <1>2 DEF EdgeInv

\* A reload that is given up closes what it opened.
LEMMA GiveUpKeeps ==
  ASSUME EdgeInv, E!GiveUp
  PROVE  EdgeInv'
<1>1. /\ load' = [pc |-> "idle", cfg |-> none, seen |-> <<>>, made |-> none, opened |-> {}]
      /\ held' = held \ load.opened /\ UNCHANGED <<files, table, entry, bound, closing, poll>>
  BY DEF E!GiveUp, E!Idle
<1>2. load' \in LoadType(EntryType)
  BY <1>1 DEF LoadType
<1>3. SocketInv'
  BY <1>1 DEF EdgeInv, SocketInv, E!SocketsAreAccounted
<1>4. Observed(<<>>, files)
  BY DEF Observed
<1> QED
  BY <1>1, <1>2, <1>3, <1>4, LoadMoves

\* The configuration is compiled,
LEMMA CompilingKeeps ==
  ASSUME EdgeInv, E!ReadFile \/ E!Prepare \/ \E c \in Configs : E!Begin(c)
  PROVE  EdgeInv'
<1>1. load \in LoadType(EntryType) /\ load.seen \in Seq(Nat) /\ Observed(load.seen, files) /\ files \in FilesType
  BY DEF EdgeInv, EdgeTypes, LoadType
<1>2. Observed(<<>>, files) /\ <<>> \in Seq(Nat)
  BY DEF Observed
<1>3. ASSUME NEW c \in Configs, E!Begin(c)
      PROVE  EdgeInv'
  <2>1. PICK p \in {"read", "open"} : load' = [pc |-> p, cfg |-> c, seen |-> <<>>, made |-> none, opened |-> {}]
    <3>1. CASE c.cert
      BY <1>3, <3>1 DEF E!Begin, E!Idle
    <3>2. CASE ~c.cert
      BY <1>3, <3>2 DEF E!Begin, E!Idle
    <3> QED
      BY <3>1, <3>2
  <2>2. UNCHANGED <<files, table, entry, bound, closing, held, poll>> /\ load.pc = "idle"
    BY <1>3 DEF E!Begin
  <2>3. load' \in LoadType(EntryType)
    BY <1>2, <2>1 DEF LoadType
  <2>4. load.opened = {}
    BY <2>2 DEF EdgeInv, SocketInv
  <2>5. SocketInv'
    BY <2>1, <2>2, <2>4 DEF EdgeInv, SocketInv, E!SocketsAreAccounted
  <2> QED
    BY <1>2, <2>1, <2>2, <2>3, <2>5, LoadMoves
<1>4. CASE E!ReadFile
  <2>1. /\ load.pc = "read" /\ Len(load.seen) < 4 /\ load' = [load EXCEPT !.seen = E!Look(load.seen)]
        /\ UNCHANGED <<files, table, entry, bound, closing, held, poll>>
    BY <1>1, <1>4 DEF E!ReadFile
  <2>2. E!Look(load.seen) \in Seq(Nat) /\ Observed(E!Look(load.seen), files)
    BY <1>1, <2>1, LooksOn
  <2>3. /\ load' \in LoadType(EntryType) /\ load'.seen = E!Look(load.seen)
        /\ load'.pc = load.pc /\ load'.cfg = load.cfg /\ load'.made = load.made /\ load'.opened = load.opened
    BY <1>1, <2>1, <2>2 DEF LoadType
  <2>4. SocketInv'
    BY <2>1, <2>3 DEF EdgeInv, SocketInv, E!SocketsAreAccounted
  <2>5. load.cfg \in Configs /\ (load.made # none => Current(load.made, files))
    BY <2>1 DEF EdgeInv
  <2> QED
    BY <2>1, <2>2, <2>3, <2>4, <2>5, LoadMoves
<1>5. CASE E!Prepare
  <2>1. load.pc = "read" /\ Len(load.seen) = 4
    BY <1>5 DEF E!Prepare
  <2>2. CASE E!GiveUp
    BY <2>2, GiveUpKeeps
  <2>3. CASE /\ load' = [load EXCEPT !.pc = "open", !.seen = <<>>]
             /\ UNCHANGED <<files, table, entry, bound, closing, held, poll>>
    <3>1. /\ load' \in LoadType(EntryType) /\ load'.seen = <<>> /\ load'.cfg = load.cfg
          /\ load'.made = load.made /\ load'.opened = load.opened
      BY <1>1, <1>2, <2>3 DEF LoadType
    <3>2. SocketInv'
      BY <2>3, <3>1 DEF EdgeInv, SocketInv, E!SocketsAreAccounted
    <3>3. load.cfg \in Configs /\ (load.made # none => Current(load.made, files))
      BY <2>1 DEF EdgeInv
    <3> QED
      BY <1>2, <2>3, <3>1, <3>2, <3>3, LoadMoves
  <2>4. CASE /\ E!Parses(E!Content(load.seen))
             /\ load' = [load EXCEPT !.pc = "open", !.seen = <<>>,
                           !.made = E!NewEntry(load.cfg.staples, E!Stamp(load.seen), E!Content(load.seen)[1])]
             /\ UNCHANGED <<files, table, entry, bound, closing, held, poll>>
    <3> DEFINE e == E!NewEntry(load.cfg.staples, E!Stamp(load.seen), E!Content(load.seen)[1])
    <3>1. load.cfg \in Configs
      BY <2>1 DEF EdgeInv
    <3>2. load.cfg.staples \in {c.staples : c \in Configs}
      BY <3>1
    <3>3. e \in EntryType /\ Current(e, files)
      BY <1>1, <2>1, <2>4, <3>2, NewIsCurrent
    <3>4. load' = [load EXCEPT !.pc = "open", !.seen = <<>>, !.made = e]
      BY <2>4
    <3> HIDE DEF e
    <3>5. /\ load' \in LoadType(EntryType) /\ load'.seen = <<>> /\ load'.cfg = load.cfg
          /\ load'.made = e /\ load'.opened = load.opened
      BY <1>1, <1>2, <3>3, <3>4 DEF LoadType
    <3>6. SocketInv'
      BY <2>4, <3>5 DEF EdgeInv, SocketInv, E!SocketsAreAccounted
    <3> QED
      BY <1>2, <2>4, <3>1, <3>3, <3>5, <3>6, LoadMoves
  <2> QED
    BY <1>5, <2>2, <2>3, <2>4 DEF E!Prepare
<1> QED
  BY <1>3, <1>4, <1>5

\* and a listener of it opened, whose address nothing holds;
LEMMA OpenKeeps ==
  ASSUME EdgeInv, NEW l \in Listener, E!Open(l)
  PROVE  EdgeInv'
<1>1. load \in LoadType(EntryType)
  BY DEF EdgeInv, EdgeTypes
<1>2. /\ load.pc = "open" /\ l \in load.cfg.listen /\ l \notin held /\ held' = held \cup {l}
      /\ load' = [load EXCEPT !.opened = load.opened \cup {l}]
      /\ UNCHANGED <<files, table, entry, bound, closing, poll>>
  BY <1>1 DEF E!Open, E!Missing
<1>3. /\ load' \in LoadType(EntryType) /\ load'.opened = load.opened \cup {l} /\ load'.pc = load.pc
      /\ load'.cfg = load.cfg /\ load'.made = load.made /\ load'.seen = load.seen
  BY <1>1, <1>2 DEF LoadType
<1>4. SocketInv'
  BY <1>2, <1>3 DEF EdgeInv, SocketInv, E!SocketsAreAccounted
<1> QED
  BY <1>2, <1>3, <1>4, LoadMoves DEF EdgeInv

\* then it serves.
LEMMA SwapKeeps ==
  ASSUME EdgeInv, E!Swap
  PROVE  EdgeInv'
<1>1. /\ load.pc = "open" /\ load.cfg.listen \subseteq bound \cup load.opened /\ table' = load.cfg
      /\ bound' = (bound \cup load.opened) \ (bound \ load.cfg.listen)
      /\ closing' = closing \cup (bound \ load.cfg.listen)
      /\ UNCHANGED <<files, held>>
  BY DEF E!Swap, E!Missing, E!Removed
<1>2. load' = [pc |-> "idle", cfg |-> none, seen |-> <<>>, made |-> none, opened |-> {}]
  BY DEF E!Swap, E!Idle
<1>3. entry' = IF ~load.cfg.cert THEN none ELSE IF load.made # none THEN load.made ELSE entry
  BY DEF E!Swap
<1>4. poll \in PollType /\ poll' = [poll EXCEPT !.live = poll.live /\ load.cfg.cert /\ load.made = none]
  BY DEF EdgeInv, EdgeTypes, PollType, E!Swap
<1>5. /\ poll' \in PollType /\ poll'.pc = poll.pc /\ poll'.seen = poll.seen
      /\ poll'.live => poll.live /\ load.cfg.cert /\ load.made = none
  BY <1>4 DEF PollType
<1>6. bound' = load.cfg.listen
  BY <1>1 DEF EdgeInv, SocketInv
<1>7. SocketInv'
  BY <1>1, <1>2, <1>6 DEF EdgeInv, SocketInv, E!SocketsAreAccounted
<1>8. EdgeTypes'
  <2>1. load' \in LoadType(EntryType)
    BY <1>2 DEF LoadType
  <2>2. load.made \in EntryType \cup {none}
    BY DEF EdgeInv, EdgeTypes, LoadType
  <2> QED
    BY <1>1, <1>3, <1>5, <2>1, <2>2 DEF EdgeInv, EdgeTypes, EntryType, LoadType
<1>9. Observed(<<>>, files)
  BY DEF Observed
<1> QED
  BY <1>1, <1>2, <1>3, <1>5, <1>7, <1>8, <1>9 DEF EdgeInv

\* A socket is closed, or all are.
LEMMA ClosingKeeps ==
  ASSUME EdgeInv, E!Exit \/ \E l \in Listener : E!Close(l)
  PROVE  EdgeInv'
<1>1. CASE \E l \in Listener : E!Close(l)
  <2>1. PICK l \in Listener : /\ l \in closing /\ closing' = closing \ {l} /\ held' = held \ {l}
                              /\ UNCHANGED <<files, table, entry, bound, load, poll>>
    BY <1>1 DEF E!Close
  <2>2. SocketInv'
    BY <2>1 DEF EdgeInv, SocketInv, E!SocketsAreAccounted
  <2>3. load' = load
    BY <2>1
  <2> QED
    BY <2>1, <2>2, <2>3, LoadMoves DEF EdgeInv, EdgeTypes
<1>2. CASE E!Exit
  <2>1. /\ table' = none /\ entry' = none /\ bound' = {} /\ closing' = {} /\ held' = {} /\ files' = files
        /\ load' = [pc |-> "idle", cfg |-> none, seen |-> <<>>, made |-> none, opened |-> {}]
        /\ poll' = [pc |-> "rest", seen |-> <<>>, base |-> 0, lapsed |-> FALSE, live |-> TRUE]
    BY <1>2 DEF E!Exit, E!Idle, E!Rest
  <2>2. EdgeTypes'
    BY <2>1 DEF EdgeInv, EdgeTypes, LoadType, PollType
  <2>3. SocketInv'
    BY <2>1 DEF SocketInv, E!SocketsAreAccounted
  <2>4. Observed(<<>>, files)
    BY DEF Observed
  <2> QED
    BY <2>1, <2>2, <2>3, <2>4 DEF EdgeInv
<1> QED
  BY <1>1, <1>2

\* The background loop moves on, and the entry may.
LEMMA PollMoves ==
  ASSUME EdgeInv, UNCHANGED <<files, table, bound, closing, held, load>>,
         poll' \in PollType, Observed(poll'.seen, files),
         entry' \in EntryType \cup {none}, entry' # none => Current(entry', files),
         poll'.pc # "rest" /\ poll'.live => entry' \in EntryType /\ Current(entry', files)
  PROVE  EdgeInv'
<1>1. files' = files /\ load' = load
  OBVIOUS
<1>2. EdgeTypes'
  BY <1>1 DEF EdgeInv, EdgeTypes, EntryType, LoadType
<1>3. SocketInv'
  BY DEF EdgeInv, SocketInv, E!SocketsAreAccounted
<1> QED
  BY <1>1, <1>2, <1>3 DEF EdgeInv, EntryType

\* What the loop knows of the entry
LEMMA PollFacts ==
  ASSUME EdgeInv
  PROVE  /\ poll \in PollType /\ poll.seen \in Seq(Nat) /\ Observed(poll.seen, files) /\ files \in FilesType
         /\ entry \in EntryType \cup {none} /\ (entry # none => entry \in EntryType /\ Current(entry, files))
         /\ poll.pc # "rest" /\ poll.live => entry \in EntryType /\ Current(entry, files)
         /\ Observed(<<>>, files)
         /\ E!Rest = [pc |-> "rest", seen |-> <<>>, base |-> 0, lapsed |-> FALSE, live |-> TRUE]
         /\ E!Rest \in PollType
<1>1. Observed(<<>>, files)
  BY DEF Observed
<1>2. E!Rest = [pc |-> "rest", seen |-> <<>>, base |-> 0, lapsed |-> FALSE, live |-> TRUE]
  BY DEF E!Rest
<1>3. E!Rest \in PollType
  BY <1>2 DEF PollType
<1> QED
  BY <1>1, <1>2, <1>3 DEF EdgeInv, EdgeTypes, PollType

\* It compares the stamps and reads the files again,
LEMMA PollKeeps ==
  ASSUME EdgeInv, E!PollBegin \/ E!PollStat \/ E!PollCompare \/ E!PollRead
  PROVE  EdgeInv'
<1>1. UNCHANGED <<files, table, entry, bound, closing, held, load>>
  BY DEF E!PollBegin, E!PollStat, E!PollCompare, E!PollRead, E!Unpolled
<1>2. CASE E!PollBegin
  <2>1. poll' = [pc |-> "stat", seen |-> <<>>, base |-> 0, lapsed |-> FALSE, live |-> TRUE] /\ entry # none
    BY <1>2 DEF E!PollBegin, E!Rest
  <2>2. poll' \in PollType
    BY <2>1 DEF PollType
  <2> QED
    BY <1>1, <2>1, <2>2, PollFacts, PollMoves
<1>3. CASE E!PollStat \/ E!PollRead
  <2>1. poll.pc \in {"stat", "read"} /\ Len(poll.seen) < 4 /\ poll' = [poll EXCEPT !.seen = E!Look(poll.seen)]
    <3>1. poll \in PollType /\ Len(poll.seen) \in Nat
      BY PollFacts, Elements
    <3> QED
      BY <1>3, <3>1 DEF E!PollStat, E!PollRead, PollType
  <2>2. E!Look(poll.seen) \in Seq(Nat) /\ Observed(E!Look(poll.seen), files)
    BY <2>1, PollFacts, LooksOn
  <2>3. poll' \in PollType /\ poll'.seen = E!Look(poll.seen) /\ poll'.live = poll.live
    BY <2>1, <2>2, PollFacts DEF PollType
  <2>4. poll.live => entry \in EntryType /\ Current(entry, files)
    BY <2>1, PollFacts
  <2> QED
    BY <1>1, <2>2, <2>3, <2>4, PollFacts, PollMoves
<1>4. CASE E!PollCompare
  <2>1. CASE poll.live /\ poll.seen # entry.stamp
    <3>1. poll.pc = "stat" /\ poll' = [poll EXCEPT !.pc = "read", !.seen = <<>>]
      BY <1>4, <2>1 DEF E!PollCompare
    <3>2. poll' \in PollType /\ poll'.seen = <<>>
      <4>1. poll \in PollType /\ <<>> \in Seq(Nat)
        BY PollFacts
      <4> QED
        BY <3>1, <4>1 DEF PollType
    <3>3. entry \in EntryType /\ Current(entry, files)
      BY <2>1, <3>1, PollFacts
    <3> QED
      BY <1>1, <3>2, <3>3, PollFacts, PollMoves
  <2>2. CASE ~(poll.live /\ poll.seen # entry.stamp)
    <3>1. poll' = E!Rest
      BY <1>4, <2>2 DEF E!PollCompare
    <3> QED
      BY <1>1, <3>1, PollFacts, PollMoves
  <2> QED
    BY <2>1, <2>2
<1> QED
  BY <1>2, <1>3, <1>4

\* takes what it read, if it is another pair,
LEMMA ReloadKeeps ==
  ASSUME EdgeInv, E!Reload
  PROVE  EdgeInv'
<1> DEFINE c == E!Content(poll.seen)
           t == E!Stamp(poll.seen)
<1>1. /\ poll.pc = "read" /\ Len(poll.seen) = 4 /\ poll' = E!Rest
      /\ UNCHANGED <<files, table, bound, closing, held, load>>
  BY DEF E!Reload, E!Unpolled
<1>2. entry' = IF ~poll.live THEN entry
               ELSE IF E!Parses(c) /\ c[1] # entry.base THEN E!NewEntry(entry.staples, t, c[1])
               ELSE [entry EXCEPT !.stamp = t]
  BY DEF E!Reload
<1>3. CASE ~poll.live
  BY <1>1, <1>2, <1>3, PollFacts, PollMoves
<1>4. CASE poll.live
  <2>1. entry \in EntryType /\ Current(entry, files)
    BY <1>1, <1>4, PollFacts
  <2>2. CASE E!Parses(c) /\ c[1] # entry.base
    <3>1. entry.staples \in {d.staples : d \in Configs}
      BY <2>1 DEF EntryType
    <3>2. entry' = E!NewEntry(entry.staples, t, c[1])
      BY <1>2, <1>4, <2>2
    <3>3. entry' \in EntryType /\ Current(entry', files)
      BY <1>1, <2>2, <3>1, <3>2, PollFacts, NewIsCurrent
    <3> QED
      BY <1>1, <3>3, PollFacts, PollMoves
  <2>3. CASE ~(E!Parses(c) /\ c[1] # entry.base)
    <3>1. entry' = [entry EXCEPT !.stamp = t]
      BY <1>2, <1>4, <2>3
    <3>2. entry' \in EntryType /\ Current(entry', files)
      BY <1>1, <2>1, <2>3, <3>1, PollFacts, RestampedIsCurrent
    <3> QED
      BY <1>1, <3>2, PollFacts, PollMoves
  <2> QED
    BY <2>2, <2>3
<1> QED
  BY <1>3, <1>4

\* and staples a response to it; and time passes.
LEMMA StapleKeeps ==
  ASSUME EdgeInv, E!Staple \/ E!FallsDue \/ E!Lapses
  PROVE  EdgeInv'
<1>1. UNCHANGED <<files, table, bound, closing, held, load>>
  BY DEF E!Staple, E!StapleBegin, E!StapleEnd, E!FallsDue, E!Lapses, E!Unpolled
<1>2. CASE E!StapleBegin
  <2>1. /\ entry # none /\ entry' = entry
        /\ poll' = [pc |-> "fetch", seen |-> <<>>, base |-> entry.base, lapsed |-> entry.lapsed, live |-> TRUE]
    BY <1>2 DEF E!StapleBegin, E!Rest
  <2>2. poll' \in PollType
    BY <2>1, PollFacts DEF PollType, EntryType
  <2> QED
    BY <1>1, <2>1, <2>2, PollFacts, PollMoves
<1>3. ASSUME NEW answered \in BOOLEAN, E!StapleEnd(answered)
      PROVE  EdgeInv'
  <2>1. poll.pc = "fetch" /\ poll' = E!Rest
    BY <1>3 DEF E!StapleEnd
  <2>2. CASE ~poll.live \/ entry.base # poll.base
    <3>1. entry' = entry
      BY <1>3, <2>2 DEF E!StapleEnd, E!Renewed
    <3> QED
      BY <1>1, <2>1, <3>1, PollFacts, PollMoves
  <2>3. CASE poll.live /\ entry.base = poll.base
    <3>1. entry \in EntryType /\ Current(entry, files)
      BY <2>1, <2>3, PollFacts
    <3>2. \/ entry' = [entry EXCEPT !.due = FALSE, !.lapsed = FALSE, !.cur = <<entry.base, entry.base>>]
          \/ entry' = [entry EXCEPT !.due = FALSE, !.lapsed = FALSE, !.cur = <<entry.base, 0>>]
          \/ entry' = [entry EXCEPT !.due = FALSE]
      BY <1>3, <2>3 DEF E!StapleEnd, E!Renewed
    <3>3. entry' \in EntryType /\ entry'.stamp = entry.stamp /\ entry'.base = entry.base /\ entry'.cur[1] = entry.base
      <4>1. CASE entry' = [entry EXCEPT !.due = FALSE, !.lapsed = FALSE, !.cur = <<entry.base, entry.base>>]
        BY <3>1, <4>1 DEF EntryType
      <4>2. CASE entry' = [entry EXCEPT !.due = FALSE, !.lapsed = FALSE, !.cur = <<entry.base, 0>>]
        BY <3>1, <4>2 DEF EntryType
      <4>3. CASE entry' = [entry EXCEPT !.due = FALSE]
        BY <3>1, <4>3 DEF EntryType, Current
      <4> QED
        BY <3>2, <4>1, <4>2, <4>3
    <3>4. Current(entry', files)
      BY <3>1, <3>3 DEF Current
    <3> QED
      BY <1>1, <2>1, <3>3, <3>4, PollFacts, PollMoves
  <2> QED
    BY <2>2, <2>3
<1>4. CASE E!FallsDue \/ E!Lapses
  <2>1. entry # none /\ poll' = poll
    BY <1>4 DEF E!FallsDue, E!Lapses
  <2>2. entry' = [entry EXCEPT !.due = TRUE] \/ entry' = [entry EXCEPT !.lapsed = TRUE]
    BY <1>4 DEF E!FallsDue, E!Lapses
  <2>3. entry' \in EntryType /\ entry'.stamp = entry.stamp /\ entry'.base = entry.base /\ entry'.cur = entry.cur
    BY <2>1, <2>2, PollFacts DEF EntryType
  <2>4. Current(entry', files)
    BY <2>1, <2>3, PollFacts DEF Current
  <2> QED
    BY <1>1, <2>1, <2>3, <2>4, PollFacts, PollMoves
<1> QED
  BY <1>2, <1>3, <1>4 DEF E!Staple

-----------------------------------------------------------------------------

\* Whatever Relay Edge does, its sockets are accounted for and its entry is current.
LEMMA EdgeKeeps ==
  ASSUME EdgeInv, E!Next
  PROVE  EdgeInv'
<1>1. CASE E!RenewKey \/ E!RenewChain
  BY <1>1, RenewalKeeps
<1>2. CASE E!Loading
  <2>1. CASE E!CompileFails \/ E!OpenFails
    BY <2>1, GiveUpKeeps DEF E!CompileFails, E!OpenFails
  <2>2. CASE E!ReadFile \/ E!Prepare
    BY <2>2, CompilingKeeps
  <2>3. CASE E!Swap
    BY <2>3, SwapKeeps
  <2>4. CASE \E l \in Listener : E!Open(l)
    BY <2>4, OpenKeeps
  <2> QED
    BY <1>2, <2>1, <2>2, <2>3, <2>4 DEF E!Loading
<1>3. CASE \E c \in Configs : E!Begin(c)
  BY <1>3, CompilingKeeps
<1>4. CASE E!Exit \/ \E l \in Listener : E!Close(l)
  BY <1>4, ClosingKeeps
<1>5. CASE E!Poll
  BY <1>5, PollKeeps, ReloadKeeps DEF E!Poll
<1>6. CASE E!Staple \/ E!FallsDue \/ E!Lapses
  BY <1>6, StapleKeeps
<1> QED
  BY <1>1, <1>2, <1>3, <1>4, <1>5, <1>6 DEF E!Next

\* When another part of MCEngine moves, Relay Edge rests.
LEMMA EdgeRests ==
  ASSUME EdgeInv, UNCHANGED edgeVars
  PROVE  EdgeInv'
<1>1. /\ files' = files /\ table' = table /\ entry' = entry /\ bound' = bound
      /\ closing' = closing /\ held' = held /\ load' = load /\ poll' = poll
  BY DEF edgeVars
<1>2. EdgeTypes'
  BY <1>1 DEF EdgeInv, EdgeTypes
<1>3. SocketInv'
  BY <1>1 DEF EdgeInv, SocketInv, E!SocketsAreAccounted
<1> QED
  BY <1>1, <1>2, <1>3 DEF EdgeInv

\* In every behaviour of MCEngine the invariant holds.
LEMMA EdgeInvariant == EngineSpec => []EdgeInv
<1>1. EngineInit => EdgeInv
  BY EdgeBegins DEF EngineInit
<1>2. EdgeInv /\ [EngineNext]_<<focus, vars, edgeVars, snap, lbVars>> => EdgeInv'
  <2> SUFFICES ASSUME EdgeInv, [EngineNext]_<<focus, vars, edgeVars, snap, lbVars>> PROVE EdgeInv'
    OBVIOUS
  <2>1. E!Next \/ UNCHANGED edgeVars
    BY DEF EngineNext
  <2> QED
    BY <2>1, EdgeKeeps, EdgeRests
<1> QED
  BY <1>1, <1>2, PTL DEF EngineSpec

\* What the kernel holds for the engine is what its configuration listens on,
\* what a reload opened and what is being closed, for any listeners that share
\* any addresses, any configurations, and wherever a reload fails.
THEOREM SocketsAreKept == EngineSpec => []SocketsAreAccounted
<1>1. EdgeInv => SocketsAreAccounted
  BY DEF EdgeInv, SocketInv, SocketsAreAccounted
<1> QED
  BY <1>1, EdgeInvariant, PTL

\* An entry that takes the files for unchanged presents what they hold, however
\* readings, renewals, reloads and stapling interleave.
THEOREM RenewalsAreSeen == EngineSpec => []NoRenewalIsMissed
<1>1. EdgeInv => NoRenewalIsMissed
  <2> SUFFICES ASSUME EdgeInv, entry # none, entry.stamp = <<files.chain, files.key>>, E!Parses(entry.stamp)
               PROVE  entry.cur[1] = files.chain
    BY DEF NoRenewalIsMissed, E!NoRenewalIsMissed
  <2>1. Current(entry, files)
    BY DEF EdgeInv
  <2>2. files.chain = files.key
    BY DEF E!Parses
  <2> QED
    BY <2>1, <2>2 DEF Current
<1> QED
  BY <1>1, EdgeInvariant, PTL


-----------------------------------------------------------------------------
(* Paths *)

\* The tokens of a path, those the renderers name among them.
Names == {"/", ".well-known", "acme-challenge", ".relay", "auth", ".relay-errors"}
Token == STRING \cup Names

Path == Seq(Token)

\* A path of strings is one of tokens,
LEMMA StringPath == ASSUME NEW p \in Seq(STRING) PROVE p \in Path
<1>1. p \in [1..Len(p) -> STRING] /\ Len(p) \in Nat
  OBVIOUS
<1>2. p \in [1..Len(p) -> Token]
  BY <1>1 DEF Token
<1> QED
  BY <1>1, <1>2 DEF Path

\* and so are those of Relay.
LEMMA FixedPaths == V!Root \in Path /\ V!Acme \in Path /\ V!Well \in Path /\ V!Portal \in Path
<1>1. Names \subseteq Token
  BY DEF Token
<1> QED
  BY <1>1 DEF V!Root, V!Acme, V!Well, V!Portal, Path, Names

\* The lengths of the paths of Relay,
LEMMA FixedLengths == Len(V!Root) = 1 /\ Len(V!Acme) = 5 /\ Len(V!Well) = 3 /\ Len(V!Portal) = 3
  BY DEF V!Root, V!Acme, V!Well, V!Portal

\* which all begin with "/".
LEMMA FixedFirst ==
  /\ V!Root[1] = "/" /\ V!Well[1] = "/" /\ V!Portal[1] = "/"
  /\ V!Root # <<>> /\ V!Well # <<>> /\ V!Portal # <<>>
<1>1. V!Root[1] = "/" /\ V!Well[1] = "/" /\ V!Portal[1] = "/"
  BY DEF V!Root, V!Well, V!Portal
<1>2. V!Root # <<>> /\ V!Well # <<>> /\ V!Portal # <<>>
  BY DEF V!Root, V!Well, V!Portal
<1> QED
  BY <1>1, <1>2

\* What a prefix is
LEMMA PrefixIs ==
  ASSUME NEW p \in Path, NEW q \in Path
  PROVE  V!IsPrefix(p, q) <=> Len(p) <= Len(q) /\ \A i \in 1..Len(p) : p[i] = q[i]
<1>1. Len(p) \in Nat /\ Len(q) \in Nat
  BY DEF Path
<1>2. ASSUME Len(p) <= Len(q)
      PROVE  SubSeq(p, 1, Len(p)) = SubSeq(q, 1, Len(p)) <=> \A i \in 1..Len(p) : p[i] = q[i]
  <2>1. /\ SubSeq(p, 1, Len(p)) = [i \in 1..Len(p) |-> p[i]]
        /\ SubSeq(q, 1, Len(p)) = [i \in 1..Len(p) |-> q[i]]
    BY <1>1, <1>2 DEF Path
  <2> QED
    BY <2>1
<1> QED
  BY <1>2 DEF V!IsPrefix

\* Two paths of the same length that are prefixes of one are the same,
LEMMA SamePrefix ==
  ASSUME NEW p \in Path, NEW q \in Path, NEW t \in Path, V!IsPrefix(p, t), V!IsPrefix(q, t), Len(p) = Len(q)
  PROVE  p = q
<1>1. \A i \in 1..Len(p) : p[i] = q[i]
  BY PrefixIs
<1> QED
  BY SMTT(60), <1>1 DEF Path

\* and the shorter of two is a prefix of the longer.
LEMMA PrefixOfPrefix ==
  ASSUME NEW p \in Path, NEW q \in Path, NEW t \in Path, V!IsPrefix(p, t), V!IsPrefix(q, t), Len(p) <= Len(q)
  PROVE  V!IsPrefix(p, q)
<1>1. Len(p) \in Nat /\ Len(q) \in Nat /\ Len(t) \in Nat
  BY DEF Path
<1>2. \A i \in 1..Len(p) : p[i] = t[i]
  BY PrefixIs
<1>3. \A i \in 1..Len(q) : q[i] = t[i]
  BY PrefixIs
<1>4. \A i \in 1..Len(p) : p[i] = q[i]
  BY <1>1, <1>2, <1>3
<1> QED
  BY <1>4, PrefixIs

\* A prefix of a path is one of the path with a slash more.
LEMMA PrefixOfSlash ==
  ASSUME NEW p \in Path, NEW t \in Path, V!IsPrefix(p, t)
  PROVE  V!IsPrefix(p, Append(t, "/"))
<1> DEFINE s == Append(t, "/")
<1>1. "/" \in Token
  BY DEF Token, Names
<1>2. s \in Path /\ Len(s) = Len(t) + 1 /\ (\A i \in 1..Len(t) : s[i] = t[i]) /\ Len(t) \in Nat
  BY <1>1 DEF Path
<1>3. Len(p) \in Nat /\ Len(p) <= Len(t) /\ \A i \in 1..Len(p) : p[i] = t[i]
  BY PrefixIs DEF Path
<1> HIDE DEF s
<1>4. Len(p) <= Len(s)
  BY <1>2, <1>3
<1>5. ASSUME NEW i \in 1..Len(p) PROVE p[i] = s[i]
  BY <1>2, <1>3
<1>6. V!IsPrefix(p, s)
  BY <1>2, <1>4, <1>5, PrefixIs
<1> QED
  BY <1>6 DEF s

\* Every path begins with the root.
LEMMA RootFirst ==
  ASSUME NEW t \in Path, t # <<>>, t[1] = "/"
  PROVE  V!IsPrefix(V!Root, t)
<1>1. Len(t) \in Nat /\ Len(t) >= 1
  BY DEF Path
<1>2. V!Root \in Path /\ Len(V!Root) = 1 /\ V!Root[1] = "/"
  BY FixedPaths, FixedLengths, FixedFirst
<1>3. Len(V!Root) <= Len(t) /\ \A i \in 1..Len(V!Root) : V!Root[i] = t[i]
  BY <1>1, <1>2
<1> QED
  BY <1>2, <1>3, PrefixIs

-----------------------------------------------------------------------------
(* The longest prefix *)

\* A path is shorter than one it is a prefix of, or is that path.
LEMMA ShorterPrefix ==
  ASSUME NEW p \in Path, NEW t \in Path, V!IsPrefix(p, t)
  PROVE  Len(p) \in Nat /\ Len(t) \in Nat /\ Len(p) <= Len(t) /\ (Len(p) < Len(t) \/ p = t)
<1>1. Len(p) \in Nat /\ Len(t) \in Nat
  BY DEF Path
<1>2. Len(p) <= Len(t) /\ \A i \in 1..Len(p) : p[i] = t[i]
  BY PrefixIs
<1>3. ASSUME Len(p) = Len(t) PROVE p = t
  BY <1>2, <1>3 DEF Path
<1> QED
  BY <1>1, <1>2, <1>3

\* There is a longest among the prefixes of a path,
LEMMA LongestIs ==
  ASSUME NEW S, S # {}, NEW t \in Path, \A l \in S : l.path \in Path /\ V!IsPrefix(l.path, t)
  PROVE  /\ V!Longest(S) \in S
         /\ \A k \in S : Len(k.path) <= Len(V!Longest(S).path)
<1>1. \A l \in S : Len(l.path) \in Nat /\ Len(t) \in Nat /\ Len(l.path) <= Len(t)
  BY ShorterPrefix
<1> DEFINE T == { Len(t) - Len(l.path) : l \in S }
<1>2. T \subseteq Nat /\ T # {}
  BY <1>1
<1> DEFINE Less == OpToRel(<, Nat)
<1>3. IsWellFoundedOn(Less, Nat) /\ \A x, y \in Nat : y < x => <<y, x>> \in Less
  BY NatLessThanWellFounded DEF OpToRel
<1>4. \E x \in T : \A y \in T : x <= y
  <2> HIDE DEF T, Less
  <2>1. PICK x \in T : \A y \in T : ~(<<y, x>> \in Less)
    BY <1>2, <1>3, WFMin
  <2>2. ASSUME NEW y \in T PROVE x <= y
    <3>1. x \in Nat /\ y \in Nat /\ ~(<<y, x>> \in Less)
      BY <1>2, <2>1
    <3>2. ~(y < x)
      BY <1>3, <3>1
    <3> QED
      BY <3>1, <3>2
  <2> QED
    BY <2>2
<1> PICK x \in T : \A y \in T : x <= y
  BY <1>4
<1>5. PICK l \in S : x = Len(t) - Len(l.path)
  OBVIOUS
<1>6. ASSUME NEW k \in S PROVE Len(k.path) <= Len(l.path)
  <2>1. Len(t) - Len(k.path) \in T
    OBVIOUS
  <2>2. Len(t) - Len(l.path) <= Len(t) - Len(k.path)
    BY <1>5, <2>1
  <2> QED
    BY <1>1, <2>2
<1> QED
  BY <1>6 DEF V!Longest

\* and it is the only one, when no two have the same path.
LEMMA LongestOnly ==
  ASSUME NEW S, NEW t \in Path, \A l \in S : l.path \in Path /\ V!IsPrefix(l.path, t),
         \A k, l \in S : k.path = l.path => k = l,
         NEW l \in S, \A k \in S : Len(k.path) <= Len(l.path)
  PROVE  V!Longest(S) = l
<1> DEFINE m == V!Longest(S)
<1>1. m \in S /\ \A k \in S : Len(k.path) <= Len(m.path)
  BY LongestIs
<1>2. Len(m.path) <= Len(l.path) /\ Len(l.path) <= Len(m.path)
  BY <1>1
<1>3. Len(m.path) \in Nat /\ Len(l.path) \in Nat
  BY <1>1, ShorterPrefix
<1>4. m.path = l.path
  BY <1>1, <1>2, <1>3, SamePrefix
<1> QED
  BY <1>1, <1>4

-----------------------------------------------------------------------------
(* The locations of a host *)

HostLocation == [ path: Path, kind: {"same", "proxy", "deny"}, noAuth: BOOLEAN,
                  forward: BOOLEAN, portal: BOOLEAN ]

\* The locations of the host: typed, with different paths, "/" among them.
LEMMA OwnAre ==
  ASSUME Proper(snap)
  PROVE  /\ V!OwnLocations \subseteq [path: Path, kind: {"same", "proxy", "deny"}, noAuth: BOOLEAN]
         /\ \A l \in V!OwnLocations : l.path # <<>> /\ l.path[1] = "/"
         /\ \A k, l \in V!OwnLocations : k.path = l.path => k = l
<1>1. snap.locs \subseteq [path: Path, kind: {"same", "proxy", "deny"}, noAuth: BOOLEAN]
  BY StringPath DEF Proper, V!Snapshot
<1> DEFINE own == [path |-> V!Portal, kind |-> "proxy", noAuth |-> TRUE]
<1>2. own \in [path: Path, kind: {"same", "proxy", "deny"}, noAuth: BOOLEAN]
  BY FixedPaths
<1>3. own.path = V!Portal
  OBVIOUS
<1> HIDE DEF own
<1>4. \/ V!OwnLocations \subseteq snap.locs
      \/ /\ V!OwnLocations \subseteq snap.locs \cup {own}
         /\ \A l \in V!OwnLocations : l = own \/ l.path # V!Portal
  BY DEF V!OwnLocations, own
<1>5. \A l \in snap.locs : l.path # <<>> /\ l.path[1] = "/"
  BY DEF Proper
<1>6. \A k, l \in snap.locs : k.path = l.path => k = l
  BY DEF Proper
<1>7. \A l \in V!OwnLocations : l \in snap.locs \/ l = own
  BY <1>4
<1>8. V!OwnLocations \subseteq [path: Path, kind: {"same", "proxy", "deny"}, noAuth: BOOLEAN]
  BY <1>1, <1>2, <1>7
<1>9. \A l \in V!OwnLocations : l.path # <<>> /\ l.path[1] = "/"
  BY <1>3, <1>5, <1>7, FixedPaths, FixedFirst
<1>10. ASSUME NEW k \in V!OwnLocations, NEW l \in V!OwnLocations, k.path = l.path PROVE k = l
  BY <1>3, <1>4, <1>6, <1>7, <1>10
<1> QED
  BY <1>8, <1>9, <1>10

\* The locations both renderers make of them: one is "/", and those that no login
\* guards do not forward.
LEMMA LocationsAre ==
  ASSUME Proper(snap)
  PROVE  /\ V!HostLocations \subseteq HostLocation
         /\ \A l \in V!HostLocations : l.path # <<>> /\ l.path[1] = "/"
         /\ \A k, l \in V!HostLocations : k.path = l.path => k = l
         /\ \E l \in V!HostLocations : l.path = V!Root
         /\ \A l \in V!HostLocations : l.forward => V!ForwardAuth /\ ~l.noAuth
<1> DEFINE own == { l \in V!OwnLocations : l.path # V!Acme }
           mark(l, skip) == [ path |-> l.path, kind |-> l.kind, noAuth |-> l.noAuth,
                              forward |-> V!ForwardAuth /\ ~l.noAuth /\ ~skip,
                              portal |-> snap.auth = "login" /\ l.path = V!Portal ]
           same(p) == [path |-> p, kind |-> "same", noAuth |-> FALSE]
<1>1. \A l \in own : /\ l \in [path: Path, kind: {"same", "proxy", "deny"}, noAuth: BOOLEAN]
                     /\ l.path # <<>> /\ l.path[1] = "/"
  BY OwnAre
<1>2. \A k, l \in own : k.path = l.path => k = l
  BY OwnAre
<1>3. \A p \in {V!Root, V!Well} :
         /\ same(p) \in [path: Path, kind: {"same", "proxy", "deny"}, noAuth: BOOLEAN]
         /\ same(p).path = p /\ p # <<>> /\ p[1] = "/"
  BY FixedPaths, FixedFirst
<1>4. V!Root # V!Well
  BY FixedLengths
<1>5. V!HostLocations =
        { mark(l, FALSE) : l \in own }
        \cup (IF \E l \in own : l.path = V!Root THEN {} ELSE {mark(same(V!Root), FALSE)})
        \cup (IF V!ForwardAuth /\ snap.skipWell /\ ~\E l \in own : l.path = V!Well
                THEN {mark(same(V!Well), TRUE)} ELSE {})
  BY DEF V!HostLocations
<1> DEFINE kept(l) == mark(l, FALSE)
           root    == kept(same(V!Root))
           well    == mark(same(V!Well), TRUE)
<1>6. ASSUME NEW l PROVE kept(l).path = l.path /\ (kept(l).forward => V!ForwardAuth /\ ~kept(l).noAuth)
  OBVIOUS
<1>7. /\ root.path = V!Root /\ (root.forward => V!ForwardAuth /\ ~root.noAuth)
      /\ well.path = V!Well /\ ~well.forward
  OBVIOUS
<1>8. \A l \in [path: Path, kind: {"same", "proxy", "deny"}, noAuth: BOOLEAN] : kept(l) \in HostLocation
  BY DEF HostLocation
<1>9. root \in HostLocation /\ well \in HostLocation
  BY <1>3 DEF HostLocation
<1>10. V!HostLocations =
         { kept(l) : l \in own }
         \cup (IF \E l \in own : l.path = V!Root THEN {} ELSE {root})
         \cup (IF V!ForwardAuth /\ snap.skipWell /\ ~\E l \in own : l.path = V!Well THEN {well} ELSE {})
  BY <1>5
<1> HIDE DEF kept, root, well, own
<1>11. /\ \A l \in V!HostLocations :
            \/ \E o \in own : l = kept(o)
            \/ (l = root) /\ (\A o \in own : o.path # V!Root)
            \/ (l = well) /\ (\A o \in own : o.path # V!Well)
       /\ \A o \in own : kept(o) \in V!HostLocations
       /\ (\A o \in own : o.path # V!Root) => root \in V!HostLocations
  BY <1>10
<1>12. V!HostLocations \subseteq HostLocation
  BY <1>1, <1>8, <1>9, <1>11
<1>13. /\ \A l \in V!HostLocations :
            \/ \E o \in own : l = kept(o) /\ l.path = o.path /\ (l.forward => V!ForwardAuth /\ ~l.noAuth)
            \/ (l = root) /\ (\A o \in own : o.path # V!Root)
            \/ (l = well) /\ (\A o \in own : o.path # V!Well)
  <2> SUFFICES ASSUME NEW l \in V!HostLocations, NEW o \in own, l = kept(o)
               PROVE  l.path = o.path /\ (l.forward => V!ForwardAuth /\ ~l.noAuth)
    BY <1>11
  <2> QED
    BY <1>6
<1>14. ASSUME NEW l \in V!HostLocations PROVE l.path # <<>> /\ l.path[1] = "/"
  <2>1. (\E o \in own : l.path = o.path) \/ l.path = V!Root \/ l.path = V!Well
    BY <1>7, <1>13
  <2> QED
    BY <1>1, <1>3, <2>1
<1>15. ASSUME NEW k \in V!HostLocations, NEW l \in V!HostLocations, k.path = l.path PROVE k = l
  BY <1>2, <1>4, <1>7, <1>13, <1>15
<1>16. \E l \in V!HostLocations : l.path = V!Root
  <2>1. CASE \E o \in own : o.path = V!Root
    BY <1>6, <1>11, <2>1
  <2>2. CASE \A o \in own : o.path # V!Root
    BY <1>7, <1>11, <2>2
  <2> QED
    BY <2>1, <2>2
<1>17. \A l \in V!HostLocations : l.forward => V!ForwardAuth /\ ~l.noAuth
  BY <1>7, <1>13
<1> QED
  BY <1>12, <1>14, <1>15, <1>16, <1>17

-----------------------------------------------------------------------------
(* The location that answers *)

\* The locations of the host whose path a request's begins with, and the longest.
Reached(t) == { l \in V!HostLocations : V!IsPrefix(l.path, t) }
Best(t) == V!Longest(Reached(t))

\* A location of nginx, and those only nginx has.
Block(l) == [ mod |-> "plain", path |-> l.path, kind |-> l.kind, noAuth |-> l.noAuth,
              forward |-> l.forward, portal |-> l.portal ]
AcmeBlock   == [mod |-> "^~", path |-> V!Acme, kind |-> "acme"]
ErrorsBlock == [mod |-> "^~", path |-> V!Errors, kind |-> "internal"]
VerifyBlock == [mod |-> "=", path |-> V!Verify, kind |-> "internal"]

\* A request is for a location but for its slash.
Slashless(t) ==
  /\ \A l \in Reached(t) : l.path # t
  /\ \E l \in V!HostLocations : l.kind # "deny" /\ l.path = Append(t, "/")

\* A request reaches the location "/" at least, so there is a longest one.
LEMMA BestIs ==
  ASSUME Proper(snap), NEW t \in Path, t # <<>>, t[1] = "/"
  PROVE  /\ Reached(t) \subseteq HostLocation
         /\ Best(t) \in Reached(t)
         /\ \A k \in Reached(t) : Len(k.path) <= Len(Best(t).path)
<1>1. \A l \in Reached(t) : l \in V!HostLocations /\ l \in HostLocation /\ l.path \in Path /\ V!IsPrefix(l.path, t)
  BY LocationsAre DEF Reached, HostLocation
<1>2. Reached(t) # {}
  <2>1. PICK l \in V!HostLocations : l.path = V!Root
    BY LocationsAre
  <2> QED
    BY <2>1, RootFirst DEF Reached
<1>3. /\ V!Longest(Reached(t)) \in Reached(t)
      /\ \A k \in Reached(t) : Len(k.path) <= Len(V!Longest(Reached(t)).path)
  BY <1>1, <1>2, LongestIs
<1> QED
  BY <1>1, <1>3 DEF Best

\* Relay Edge takes that one, or redirects to the path with its slash.
LEMMA EdgeFinds ==
  ASSUME Proper(snap), NEW t \in Path, t # <<>>, t[1] = "/"
  PROVE  V!Match(t) = IF Slashless(t) THEN <<"slash", t>> ELSE <<"location", Best(t)>>
<1>1. Reached(t) # {}
  BY BestIs
<1>2. ASSUME NEW l \in Reached(t) PROVE Len(l.path) < Len(t) <=> l.path # t
  <2>1. l.path \in Path /\ V!IsPrefix(l.path, t)
    BY BestIs DEF Reached, HostLocation
  <2>2. Len(l.path) \in Nat /\ Len(t) \in Nat /\ (Len(l.path) < Len(t) \/ l.path = t)
    BY <2>1, ShorterPrefix
  <2> QED
    BY <2>2
<1>3. { l \in V!HostLocations : V!IsPrefix(l.path, t) } = Reached(t)
  BY DEF Reached
<1>4. ({ l \in V!HostLocations : l.kind # "deny" /\ l.path = Append(t, "/") } # {}
          /\ \A l \in Reached(t) : Len(l.path) < Len(t)) <=> Slashless(t)
  BY <1>2 DEF Slashless
<1> QED
  BY <1>1, <1>3, <1>4 DEF V!Match, Best

\* The locations nginx has
LEMMA BlocksAre ==
  ASSUME NEW a \in BOOLEAN
  PROVE  V!HostBlock(a) = { Block(l) : l \in V!HostLocations }
                          \cup (IF a THEN {AcmeBlock} ELSE {}) \cup {ErrorsBlock}
                          \cup (IF V!ForwardAuth THEN {VerifyBlock} ELSE {})
  BY DEF V!HostBlock, Block, AcmeBlock, ErrorsBlock, VerifyBlock

\* A location of nginx keeps what the host says of it,
LEMMA BlockIs ==
  ASSUME NEW l
  PROVE  /\ Block(l).mod = "plain" /\ Block(l).path = l.path /\ Block(l).kind = l.kind
         /\ Block(l).noAuth = l.noAuth /\ Block(l).forward = l.forward /\ Block(l).portal = l.portal
  BY DEF Block

\* and those whose path a request's begins with.
LEMMA BlockPrefixes ==
  ASSUME NEW a \in BOOLEAN, NEW t, ~V!IsPrefix(V!Errors, t), ~(V!ForwardAuth /\ t = V!Verify)
  PROVE  { b \in V!HostBlock(a) : V!IsPrefix(b.path, t) /\ (b.mod = "=" => b.path = t) }
           = { Block(l) : l \in Reached(t) }
             \cup (IF a /\ V!IsPrefix(V!Acme, t) THEN {AcmeBlock} ELSE {})
<1> DEFINE N == { b \in V!HostBlock(a) : V!IsPrefix(b.path, t) /\ (b.mod = "=" => b.path = t) }
<1>1. AcmeBlock.path = V!Acme /\ AcmeBlock.mod # "=" /\ ErrorsBlock.path = V!Errors
      /\ VerifyBlock.path = V!Verify /\ VerifyBlock.mod = "="
  BY DEF AcmeBlock, ErrorsBlock, VerifyBlock
<1>2. ASSUME NEW b \in N PROVE b \in { Block(l) : l \in Reached(t) }
                                \/ (a /\ V!IsPrefix(V!Acme, t) /\ b = AcmeBlock)
  <2>1. CASE b \in { Block(l) : l \in V!HostLocations }
    <3> PICK l \in V!HostLocations : b = Block(l)
      BY <2>1
    <3> QED
      BY BlockIs DEF Reached
  <2>2. CASE a /\ b = AcmeBlock
    BY <1>1, <2>2
  <2>3. CASE b = ErrorsBlock
    BY <1>1, <2>3
  <2>4. CASE V!ForwardAuth /\ b = VerifyBlock
    BY <1>1, <2>4
  <2> QED
    BY <2>1, <2>2, <2>3, <2>4, BlocksAre
<1>3. ASSUME NEW l \in Reached(t) PROVE Block(l) \in N
  <2>1. Block(l) \in V!HostBlock(a) /\ V!IsPrefix(l.path, t)
    BY BlocksAre DEF Reached
  <2> QED
    BY <2>1, BlockIs
<1>4. a /\ V!IsPrefix(V!Acme, t) => AcmeBlock \in N
  BY <1>1, BlocksAre
<1> HIDE DEF N
<1>5. N = { Block(l) : l \in Reached(t) } \cup (IF a /\ V!IsPrefix(V!Acme, t) THEN {AcmeBlock} ELSE {})
  BY <1>2, <1>3, <1>4
<1> QED
  BY <1>5 DEF N

\* The longest of them is the block of the longest of Relay Edge,
LEMMA BestBlock ==
  ASSUME Proper(snap), NEW t \in Path, t # <<>>, t[1] = "/"
  PROVE  V!Longest({ Block(l) : l \in Reached(t) }) = Block(Best(t))
<1> DEFINE S == { Block(l) : l \in Reached(t) }
<1>1. \A l \in Reached(t) : l \in HostLocation /\ l \in V!HostLocations /\ l.path \in Path /\ V!IsPrefix(l.path, t)
  BY BestIs DEF Reached, HostLocation
<1>2. ASSUME NEW b \in S PROVE b.path \in Path /\ V!IsPrefix(b.path, t) /\ Len(b.path) <= Len(Best(t).path)
  <2> PICK l \in Reached(t) : b = Block(l)
    OBVIOUS
  <2>1. b.path = l.path
    BY BlockIs
  <2> QED
    BY <1>1, <2>1, BestIs
<1>3. ASSUME NEW b \in S, NEW c \in S, b.path = c.path PROVE b = c
  <2> PICK l \in Reached(t) : b = Block(l)
    OBVIOUS
  <2> PICK k \in Reached(t) : c = Block(k)
    OBVIOUS
  <2>1. l.path = k.path
    BY <1>3, BlockIs
  <2>2. l = k
    BY <1>1, <2>1, LocationsAre
  <2> QED
    BY <2>2
<1>4. Block(Best(t)) \in S /\ Block(Best(t)).path = Best(t).path
  BY BestIs, BlockIs
<1> HIDE DEF S
<1>5. V!Longest(S) = Block(Best(t))
  BY <1>2, <1>3, <1>4, LongestOnly
<1> QED
  BY <1>5 DEF S

\* and nginx takes it as Relay Edge does, its redirects after the slash;
LEMMA NginxFinds ==
  ASSUME Proper(snap), NEW t \in Path, t # <<>>, t[1] = "/", NEW a \in BOOLEAN,
         ~V!IsPrefix(V!Errors, t), ~(V!ForwardAuth /\ t = V!Verify), ~(a /\ V!IsPrefix(V!Acme, t))
  PROVE  V!FindLocation(V!HostBlock(a), t) =
           IF Slashless(t) THEN <<"slash", t, FALSE>>
           ELSE IF V!Proxies(Best(t)) /\ snap.cache /\ V!Asset(t) THEN <<"location", Block(Best(t)), TRUE>>
           ELSE IF V!Redirects(t) # {} THEN <<"moved", V!Longest(V!Redirects(t)), FALSE>>
           ELSE <<"location", Block(Best(t)), FALSE>>
<1> DEFINE N == { b \in V!HostBlock(a) : V!IsPrefix(b.path, t) /\ (b.mod = "=" => b.path = t) }
           here == { b \in N : b.path = t }
<1>1. N = { Block(l) : l \in Reached(t) }
  BY BlockPrefixes
<1>2. V!Longest(N) = Block(Best(t))
  BY <1>1, BestBlock
<1>3. Block(Best(t)).mod # "^~" /\ (V!Proxies(Block(Best(t))) <=> V!Proxies(Best(t)))
  BY BlockIs DEF V!Proxies
<1>4. ~\E b \in here : b.mod = "="
  BY <1>1, BlockIs
<1>5. (\A l \in Reached(t) : l.path # t) <=> here = {}
  BY <1>1, BlockIs
<1>6. (\E b \in V!HostBlock(a) : V!Proxies(b) /\ b.path = Append(t, "/"))
        <=> (\E l \in V!HostLocations : l.kind # "deny" /\ l.path = Append(t, "/"))
  <2>1. ASSUME NEW l \in V!HostLocations, l.kind # "deny", l.path = Append(t, "/")
        PROVE  Block(l) \in V!HostBlock(a) /\ V!Proxies(Block(l)) /\ Block(l).path = Append(t, "/")
    <3>1. l.kind \in {"same", "proxy"}
      BY <2>1, LocationsAre DEF HostLocation
    <3>2. Block(l) \in V!HostBlock(a)
      BY BlocksAre
    <3> QED
      BY <2>1, <3>1, <3>2, BlockIs DEF V!Proxies
  <2>2. ASSUME NEW b \in V!HostBlock(a), V!Proxies(b), b.path = Append(t, "/")
        PROVE  \E l \in V!HostLocations : l.kind # "deny" /\ l.path = Append(t, "/")
    <3>1. b.kind \in {"same", "proxy"}
      BY <2>2 DEF V!Proxies
    <3>2. AcmeBlock.kind = "acme" /\ ErrorsBlock.kind = "internal" /\ VerifyBlock.kind = "internal"
      BY DEF AcmeBlock, ErrorsBlock, VerifyBlock
    <3>3. b # AcmeBlock /\ b # ErrorsBlock /\ b # VerifyBlock
      BY <3>1, <3>2
    <3>4. PICK l \in V!HostLocations : b = Block(l)
      BY <3>3, BlocksAre
    <3>5. l.kind = b.kind /\ l.path = b.path
      BY <3>4, BlockIs
    <3> QED
      BY <2>2, <3>1, <3>5
  <2> QED
    BY <2>1, <2>2
<1>7. (here = {} /\ \E b \in V!HostBlock(a) : V!Proxies(b) /\ b.path = Append(t, "/")) <=> Slashless(t)
  BY <1>5, <1>6 DEF Slashless
<1>8. V!FindLocation(V!HostBlock(a), t) =
        IF \E b \in here : b.mod = "=" THEN <<"location", CHOOSE b \in here : b.mod = "=", FALSE>>
        ELSE IF here = {} /\ \E b \in V!HostBlock(a) : V!Proxies(b) /\ b.path = Append(t, "/")
          THEN <<"slash", t, FALSE>>
        ELSE IF V!Proxies(V!Longest(N)) /\ snap.cache /\ V!Asset(t) THEN <<"location", V!Longest(N), TRUE>>
        ELSE IF V!Longest(N).mod # "^~" /\ V!Redirects(t) # {}
          THEN <<"moved", V!Longest(V!Redirects(t)), FALSE>>
        ELSE <<"location", V!Longest(N), FALSE>>
  BY DEF V!FindLocation
<1> HIDE DEF N, here
<1> QED
  BY <1>2, <1>3, <1>4, <1>7, <1>8

\* a challenge is its location's, which is longer than any of the host's the path is for.
LEMMA NginxFindsAcme ==
  ASSUME Proper(snap), NEW t \in Path, t # <<>>, t[1] = "/", V!IsPrefix(V!Acme, t),
         ~V!IsPrefix(V!Errors, t), ~(V!ForwardAuth /\ t = V!Verify), ~V!BelowAcme(t)
  PROVE  V!FindLocation(V!HostBlock(TRUE), t) = <<"location", AcmeBlock, FALSE>>
<1> DEFINE N == { b \in V!HostBlock(TRUE) : V!IsPrefix(b.path, t) /\ (b.mod = "=" => b.path = t) }
           here == { b \in N : b.path = t }
<1>1. N = { Block(l) : l \in Reached(t) } \cup {AcmeBlock}
  BY BlockPrefixes
<1>2. AcmeBlock.mod = "^~" /\ AcmeBlock.path = V!Acme /\ AcmeBlock.kind = "acme"
  BY DEF AcmeBlock
<1>3. ASSUME NEW l \in Reached(t) PROVE l.path \in Path /\ V!IsPrefix(l.path, t) /\ Len(l.path) < Len(V!Acme)
  <2>1. l.path \in Path /\ V!IsPrefix(l.path, t) /\ ~V!IsPrefix(V!Acme, l.path)
    BY LocationsAre DEF Reached, HostLocation, V!BelowAcme
  <2>2. ~(Len(V!Acme) <= Len(l.path))
    BY <2>1, FixedPaths, PrefixOfPrefix
  <2>3. Len(l.path) \in Nat /\ Len(V!Acme) \in Nat
    BY <2>1, FixedPaths DEF Path
  <2> QED
    BY <2>1, <2>2, <2>3
<1>4. ASSUME NEW b \in N PROVE b.path \in Path /\ V!IsPrefix(b.path, t) /\ (b = AcmeBlock \/ Len(b.path) < Len(V!Acme))
  <2>1. CASE b = AcmeBlock
    BY <1>2, <2>1, FixedPaths
  <2>2. CASE b # AcmeBlock
    <3> PICK l \in Reached(t) : b = Block(l)
      BY <1>1, <2>2
    <3>1. b.path = l.path
      BY BlockIs
    <3> QED
      BY <1>3, <3>1
  <2> QED
    BY <2>1, <2>2
<1>5. V!Longest(N) = AcmeBlock
  <2>1. N # {} /\ AcmeBlock \in N
    BY <1>1
  <2>2. \A b \in N : b.path \in Path /\ V!IsPrefix(b.path, t)
    BY <1>4
  <2> DEFINE m == V!Longest(N)
  <2>3. m \in N /\ Len(AcmeBlock.path) <= Len(m.path)
    <3> HIDE DEF N
    <3> QED
      BY <2>1, <2>2, LongestIs
  <2>4. Len(V!Acme) <= Len(m.path)
    BY <1>2, <2>3
  <2>5. Len(m.path) \in Nat /\ Len(V!Acme) \in Nat
    BY <2>2, <2>3, FixedPaths DEF Path
  <2>6. m = AcmeBlock \/ Len(m.path) < Len(V!Acme)
    BY <1>4, <2>3
  <2> QED
    BY <2>4, <2>5, <2>6
<1>6. ~\E b \in here : b.mod = "="
  <2> SUFFICES ASSUME NEW b \in N PROVE b.mod # "="
    OBVIOUS
  <2> QED
    BY <1>1, <1>2, BlockIs
<1>7. ASSUME NEW b \in V!HostBlock(TRUE), V!Proxies(b) PROVE b.path # Append(t, "/")
  <2>1. b.kind \in {"same", "proxy"}
    BY <1>7 DEF V!Proxies
  <2>2. ErrorsBlock.kind = "internal" /\ VerifyBlock.kind = "internal"
    BY DEF ErrorsBlock, VerifyBlock
  <2>3. b # AcmeBlock /\ b # ErrorsBlock /\ b # VerifyBlock
    BY <1>2, <2>1, <2>2
  <2>4. PICK l \in V!HostLocations : b = Block(l)
    BY <2>3, BlocksAre
  <2>5. b.path = l.path
    BY <2>4, BlockIs
  <2>6. V!IsPrefix(V!Acme, Append(t, "/"))
    BY FixedPaths, PrefixOfSlash
  <2> QED
    BY <2>5, <2>6 DEF V!BelowAcme
<1>8. V!FindLocation(V!HostBlock(TRUE), t) =
        IF \E b \in here : b.mod = "=" THEN <<"location", CHOOSE b \in here : b.mod = "=", FALSE>>
        ELSE IF here = {} /\ \E b \in V!HostBlock(TRUE) : V!Proxies(b) /\ b.path = Append(t, "/")
          THEN <<"slash", t, FALSE>>
        ELSE IF V!Proxies(V!Longest(N)) /\ snap.cache /\ V!Asset(t) THEN <<"location", V!Longest(N), TRUE>>
        ELSE IF V!Longest(N).mod # "^~" /\ V!Redirects(t) # {}
          THEN <<"moved", V!Longest(V!Redirects(t)), FALSE>>
        ELSE <<"location", V!Longest(N), FALSE>>
  BY DEF V!FindLocation
<1>9. ~V!Proxies(AcmeBlock)
  BY <1>2 DEF V!Proxies
<1> HIDE DEF N, here
<1> QED
  BY <1>2, <1>5, <1>6, <1>7, <1>8, <1>9

-----------------------------------------------------------------------------
(* Who is let in *)

First(S) == CHOOSE i \in S : \A k \in S : i <= k

\* The first of a set of numbers is in it, and before the others.
LEMMA FirstIs ==
  ASSUME NEW S, S \subseteq Nat, NEW i \in S, \A k \in S : i <= k
  PROVE  First(S) = i
<1>1. First(S) \in S /\ \A k \in S : First(S) <= k
  BY DEF First
<1>2. First(S) <= i /\ i <= First(S) /\ First(S) \in Nat /\ i \in Nat
  BY <1>1
<1> QED
  BY <1>2

\* The outcome of the access phase, from the codes of its checks: of all of them,
AllPass(codes) ==
  LET Bads == { i \in DOMAIN codes : codes[i] # 0 }
  IN  IF Bads = {} THEN 0 ELSE codes[First(Bads)]

\* or where one of them is enough.
OnePasses(codes) ==
  LET Bads  == { i \in DOMAIN codes : codes[i] # 0 }
      Goods == DOMAIN codes \ Bads
      fatal == { i \in Bads : codes[i] = 500 }
  IN  IF fatal # {} /\ \A i \in Goods : First(fatal) < i THEN 500
      ELSE IF Goods # {} \/ Bads = {} THEN 0
      ELSE IF \E i \in Bads : codes[i] = 401 THEN 401 ELSE 403

\* The first check that fails decides.
LEMMA AllOfNone == ASSUME NEW c, DOMAIN c = {} PROVE AllPass(c) = 0
  BY DEF AllPass

\* of one check, and of two;
LEMMA AllOfOne == ASSUME NEW c, DOMAIN c = {1} PROVE AllPass(c) = c[1]
<1> DEFINE Bads == { i \in DOMAIN c : c[i] # 0 }
<1>1. CASE c[1] = 0
  BY <1>1 DEF AllPass
<1>2. CASE c[1] # 0
  <2>1. Bads = {1}
    BY <1>2
  <2>2. First({1}) = 1
    BY FirstIs
  <2> QED
    BY <2>1, <2>2 DEF AllPass
<1> QED
  BY <1>1, <1>2

\* the first of the two that fails decides.
LEMMA AllOfTwo == ASSUME NEW c, DOMAIN c = {1, 2} PROVE AllPass(c) = IF c[1] # 0 THEN c[1] ELSE c[2]
<1> DEFINE Bads == { i \in DOMAIN c : c[i] # 0 }
<1>1. CASE c[1] # 0
  <2>1. 1 \in Bads /\ Bads \subseteq {1, 2}
    BY <1>1
  <2>2. First(Bads) = 1
    <3> HIDE DEF Bads
    <3>1. Bads \subseteq Nat /\ \A k \in Bads : 1 <= k
      BY <2>1
    <3> QED
      BY <2>1, <3>1, FirstIs
  <2> QED
    BY <1>1, <2>1, <2>2 DEF AllPass
<1>2. CASE c[1] = 0 /\ c[2] # 0
  <2>1. Bads = {2}
    BY <1>2
  <2>2. First({2}) = 2
    BY FirstIs
  <2> QED
    BY <1>2, <2>1, <2>2 DEF AllPass
<1>3. CASE c[1] = 0 /\ c[2] = 0
  BY <1>3 DEF AllPass
<1> QED
  BY <1>1, <1>2, <1>3

\* A check that passes is enough, where none before it broke; a 401 is kept.
LEMMA OneOfTwo ==
  ASSUME NEW c, DOMAIN c = {1, 2}, c[1] \in {0, 403}, c[2] \in {0, 401}
  PROVE  OnePasses(c) = IF c[1] = 0 \/ c[2] = 0 THEN 0 ELSE 401
<1>1. { i \in { j \in DOMAIN c : c[j] # 0 } : c[i] = 500 } = {}
  OBVIOUS
<1>2. CASE c[1] = 0 \/ c[2] = 0
  <2>1. DOMAIN c \ { i \in DOMAIN c : c[i] # 0 } # {}
    BY <1>2
  <2> QED
    BY <1>1, <1>2, <2>1 DEF OnePasses
<1>3. CASE ~(c[1] = 0 \/ c[2] = 0)
  <2>1. { i \in DOMAIN c : c[i] # 0 } = {1, 2} /\ c[2] = 401
    BY <1>3
  <2>2. DOMAIN c \ {1, 2} = {}
    OBVIOUS
  <2> QED
    BY <1>1, <1>3, <2>1, <2>2 DEF OnePasses
<1> QED
  BY <1>2, <1>3

\* The same of three checks.
LEMMA OneOfThree ==
  ASSUME NEW c, DOMAIN c = {1, 2, 3}, c[1] \in {0, 403}, c[2] \in {0, 401}, c[3] \in {0, 401, 403, 500}
  PROVE  OnePasses(c) = IF c[1] = 0 \/ c[2] = 0 \/ c[3] = 0 THEN 0 ELSE IF c[3] = 500 THEN 500 ELSE 401
<1> DEFINE Bads  == { i \in DOMAIN c : c[i] # 0 }
           Goods == DOMAIN c \ Bads
           fatal == { i \in Bads : c[i] = 500 }
<1>1. OnePasses(c) = IF fatal # {} /\ \A i \in Goods : First(fatal) < i THEN 500
                     ELSE IF Goods # {} \/ Bads = {} THEN 0
                     ELSE IF \E i \in Bads : c[i] = 401 THEN 401 ELSE 403
  BY DEF OnePasses
<1>2. CASE c[3] = 500
  <2>1. fatal = {3} /\ First({3}) = 3
    BY <1>2, FirstIs
  <2>2. CASE c[1] = 0 \/ c[2] = 0
    <3>1. Goods # {} /\ \E i \in Goods : ~(3 < i)
      BY <2>2
    <3> QED
      BY <1>1, <2>1, <2>2, <3>1
  <2>3. CASE ~(c[1] = 0 \/ c[2] = 0)
    <3>1. Goods = {}
      BY <1>2, <2>3
    <3> QED
      BY <1>1, <1>2, <2>1, <2>3, <3>1
  <2> QED
    BY <2>2, <2>3
<1>3. CASE c[3] # 500
  <2>1. fatal = {}
    BY <1>3
  <2>2. CASE c[1] = 0 \/ c[2] = 0 \/ c[3] = 0
    <3>1. Goods # {}
      BY <2>2
    <3> QED
      BY <1>1, <2>1, <2>2, <3>1
  <2>3. CASE ~(c[1] = 0 \/ c[2] = 0 \/ c[3] = 0)
    <3>1. Goods = {} /\ 2 \in Bads /\ c[2] = 401
      BY <1>3, <2>3
    <3> QED
      BY <1>1, <2>1, <2>3, <3>1
  <2> QED
    BY <2>2, <2>3
<1> QED
  BY <1>2, <1>3

\* The checks of a location, one after the other.
LEMMA Joined ==
  ASSUME NEW x, NEW y, NEW z
  PROVE  /\ <<>> \o <<>> \o <<>> = <<>> /\ <<>> \o <<>> \o <<z>> = <<z>>
         /\ <<x>> \o <<>> \o <<>> = <<x>> /\ <<x>> \o <<y>> \o <<>> = <<x, y>>
         /\ <<x>> \o <<y>> \o <<z>> = <<x, y, z>>
<1> DEFINE S == {x, y, z}
<1>1. <<x>> \in Seq(S) /\ <<y>> \in Seq(S) /\ <<z>> \in Seq(S) /\ <<>> \in Seq(S) /\ <<x, y>> \in Seq(S)
  OBVIOUS
<1>2. <<x>> \o <<y>> = <<x, y>>
  <2>1. /\ <<x>> \o <<y>> \in Seq(S) /\ Len(<<x>> \o <<y>>) = 2
        /\ (<<x>> \o <<y>>)[1] = x /\ (<<x>> \o <<y>>)[2] = y
    BY <1>1
  <2>2. \A s \in Seq(S) : Len(s) = 2 /\ s[1] = x /\ s[2] = y => s = <<x, y>>
    OBVIOUS
  <2> QED
    BY <2>1, <2>2
<1>3. <<x, y>> \o <<z>> = <<x, y, z>>
  <2>1. /\ <<x, y>> \o <<z>> \in Seq(S) /\ Len(<<x, y>> \o <<z>>) = 3
        /\ (<<x, y>> \o <<z>>)[1] = x /\ (<<x, y>> \o <<z>>)[2] = y /\ (<<x, y>> \o <<z>>)[3] = z
    BY <1>1
  <2>2. \A s \in Seq(S) : Len(s) = 3 /\ s[1] = x /\ s[2] = y /\ s[3] = z => s = <<x, y, z>>
    OBVIOUS
  <2> QED
    BY <2>1, <2>2
<1>4. \A s \in Seq(S) : s \o <<>> = s /\ <<>> \o s = s
  BY ConcatEmptySeq
<1> QED
  BY <1>1, <1>2, <1>3, <1>4

\* Where the checks are in the sequence of a location.
LEMMA Places ==
  ASSUME NEW x, NEW y, NEW z
  PROVE  /\ DOMAIN <<>> = {} /\ DOMAIN <<x>> = {1} /\ <<x>>[1] = x
         /\ DOMAIN <<x, y>> = {1, 2} /\ <<x, y>>[1] = x /\ <<x, y>>[2] = y
         /\ DOMAIN <<x, y, z>> = {1, 2, 3} /\ <<x, y, z>>[1] = x /\ <<x, y, z>>[2] = y /\ <<x, y, z>>[3] = z
  OBVIOUS

\* Relay Edge lets in whom the access phase does.
LEMMA AccessIsSame ==
  ASSUME Proper(snap), NEW l \in V!HostLocations, NEW r, r.password \in BOOLEAN, r.verdict \in {200, 401, 403, 500}
  PROVE  V!AccessPhase(r, Block(l)) = V!Authorize(r, l)
<1> DEFINE b == Block(l)
           checks == (IF V!Listed(b) THEN <<"rules">> ELSE <<>>)
                     \o (IF V!Listed(b) /\ snap.auth # "gone" THEN <<"basic">> ELSE <<>>)
                     \o (IF b.forward THEN <<"request">> ELSE <<>>)
           codes == [i \in DOMAIN checks |-> V!Check(checks[i], r)]
<1>1. V!AccessPhase(r, b) =
        IF ~(V!Listed(b) /\ snap.auth = "both") THEN AllPass(codes) ELSE OnePasses(codes)
  BY DEF V!AccessPhase, AllPass, OnePasses, First
<1>2. (V!Listed(b) <=> V!Listed(l)) /\ b.forward = l.forward /\ l.forward \in BOOLEAN
  BY LocationsAre, BlockIs DEF V!Listed, HostLocation
<1>3. l.forward => snap.auth \in {"sso", "login", "both"}
  BY LocationsAre DEF V!ForwardAuth
<1>4. V!Listed(l) => snap.auth \in {"list", "both", "gone"}
  BY DEF V!Listed
<1>5. /\ V!Check("rules", r) = IF snap.auth = "gone" \/ r.client # "trusted" THEN 403 ELSE 0
      /\ V!Check("basic", r) = IF r.password THEN 0 ELSE 401
      /\ V!Check("request", r) = IF r.verdict = 200 THEN 0 ELSE r.verdict
  BY DEF V!Check
<1>12. /\ DOMAIN codes = DOMAIN checks
       /\ \A i \in DOMAIN checks : codes[i] = V!Check(checks[i], r)
  OBVIOUS
<1> HIDE DEF b, codes
<1>6. CASE ~V!Listed(l) /\ ~l.forward
  <2>1. checks = <<>>
    BY <1>2, <1>6, Joined
  <2>2. DOMAIN codes = {}
    <3> HIDE DEF checks
    <3> QED
      BY <1>12, <2>1, Places
  <2>3. V!AccessPhase(r, b) = 0
    BY <1>1, <1>2, <1>6, <2>2, AllOfNone
  <2> QED
    BY <1>6, <2>3 DEF V!Authorize, V!DenyAll, b
<1>7. CASE ~V!Listed(l) /\ l.forward
  <2>1. checks = <<"request">>
    BY ZenonT(60), <1>2, <1>7, Joined
  <2>2. DOMAIN codes = {1} /\ codes[1] = V!Check("request", r)
    <3> HIDE DEF checks
    <3> QED
      BY <1>12, <2>1, Places
  <2>3. V!AccessPhase(r, b) = V!Check("request", r)
    BY <1>1, <1>2, <1>7, <2>2, AllOfOne
  <2> QED
    BY <1>5, <1>7, <2>3 DEF V!Authorize, V!DenyAll, b
<1>8. CASE V!Listed(l) /\ snap.auth = "gone"
  <2>1. checks = <<"rules">>
    BY ZenonT(60), <1>2, <1>3, <1>8, Joined
  <2>2. DOMAIN codes = {1} /\ codes[1] = V!Check("rules", r)
    <3> HIDE DEF checks
    <3> QED
      BY <1>12, <2>1, Places
  <2>3. V!AccessPhase(r, b) = V!Check("rules", r)
    BY <1>1, <1>2, <1>8, <2>2, AllOfOne
  <2> QED
    BY <1>5, <1>8, <2>3 DEF V!Authorize, V!DenyAll, b
<1>9. CASE V!Listed(l) /\ snap.auth = "list"
  <2>1. checks = <<"rules", "basic">>
    <3>1. V!Listed(b) /\ snap.auth # "gone" /\ ~b.forward
      BY <1>2, <1>3, <1>9
    <3> QED
      BY <3>1, Joined
  <2>2. DOMAIN codes = {1, 2} /\ codes[1] = V!Check("rules", r) /\ codes[2] = V!Check("basic", r)
    <3> HIDE DEF checks
    <3> QED
      BY <1>12, <2>1, Places
  <2>3. V!AccessPhase(r, b) = IF codes[1] # 0 THEN codes[1] ELSE codes[2]
    BY <1>1, <1>2, <1>9, <2>2, AllOfTwo
  <2> QED
    BY <1>3, <1>5, <1>9, <2>2, <2>3 DEF V!Authorize, V!DenyAll, b
<1>10. CASE V!Listed(l) /\ snap.auth = "both" /\ ~l.forward
  <2>1. checks = <<"rules", "basic">>
    BY <1>2, <1>10, Joined
  <2>2. DOMAIN codes = {1, 2} /\ codes[1] = V!Check("rules", r) /\ codes[2] = V!Check("basic", r)
    <3> HIDE DEF checks
    <3> QED
      BY <1>12, <2>1, Places
  <2>3. codes[1] \in {0, 403} /\ codes[2] \in {0, 401}
    BY <1>5, <2>2
  <2>4. V!AccessPhase(r, b) = IF codes[1] = 0 \/ codes[2] = 0 THEN 0 ELSE 401
    BY <1>1, <1>2, <1>10, <2>2, <2>3, OneOfTwo
  <2> QED
    BY <1>5, <1>10, <2>2, <2>4 DEF V!Authorize, V!DenyAll, b
<1>11. CASE V!Listed(l) /\ snap.auth = "both" /\ l.forward
  <2>1. checks = <<"rules", "basic", "request">>
    BY <1>2, <1>11, Joined
  <2>2. /\ DOMAIN codes = {1, 2, 3} /\ codes[1] = V!Check("rules", r) /\ codes[2] = V!Check("basic", r)
        /\ codes[3] = V!Check("request", r)
    <3> HIDE DEF checks
    <3> QED
      BY <1>12, <2>1, Places
  <2>3. codes[1] \in {0, 403} /\ codes[2] \in {0, 401} /\ codes[3] \in {0, 401, 403, 500}
    BY <1>5, <2>2
  <2>4. V!AccessPhase(r, b) = IF codes[1] = 0 \/ codes[2] = 0 \/ codes[3] = 0 THEN 0
                               ELSE IF codes[3] = 500 THEN 500 ELSE 401
    BY <1>1, <1>2, <1>11, <2>2, <2>3, OneOfThree
  <2> QED
    BY <1>5, <1>11, <2>2, <2>4 DEF V!Authorize, V!DenyAll, b
<1> QED
  BY SMTT(60), <1>4, <1>6, <1>7, <1>8, <1>9, <1>10, <1>11 DEF b

-----------------------------------------------------------------------------
(* The answers *)

\* A host answers alike, and in whatever order the limits, a redirect and a slash
\* are looked at, neither engine passes on what the other does not.
LEMMA HostsAgree ==
  ASSUME Proper(snap), NEW r, Asking(r), r.path # V!Bad, ~V!OneEngineOnly(r), NEW a \in BOOLEAN,
         a => ~V!BelowAcme(r.path)
  PROVE  /\ V!NginxHost(r, a)[1] = "proxy" <=> V!EdgeHost(r, a)[1] = "proxy"
         /\ ~V!Limited(r) /\ ~r.large /\ ~(V!Redirects(r.path) # {} /\ V!Match(r.path)[1] = "slash")
              => V!NginxHost(r, a) = V!EdgeHost(r, a)
<1> DEFINE t == r.path
           F == V!FindLocation(V!HostBlock(a), t)
           M == V!Match(t)
           best == Best(t)
           isMoved == V!Redirects(t) # {}
           asset == snap.cache /\ V!Asset(t)
<1>1. t \in Path /\ t # <<>> /\ t[1] = "/"
  BY StringPath DEF Asking, V!Request, V!Bad
<1>2. r.large \in BOOLEAN /\ r.password \in BOOLEAN /\ r.verdict \in {200, 401, 403, 500} /\ snap.cache \in BOOLEAN
  BY DEF Asking, V!Request, Proper, V!Snapshot
<1>3. ~V!IsPrefix(V!Errors, t) /\ ~(V!ForwardAuth /\ t = V!Verify) /\ ~(asset /\ isMoved)
  BY DEF V!OneEngineOnly
<1>4. CASE a /\ V!IsPrefix(V!Acme, t)
  <2>1. F = <<"location", AcmeBlock, FALSE>>
    BY <1>1, <1>3, <1>4, NginxFindsAcme
  <2>2. AcmeBlock.kind = "acme"
    BY DEF AcmeBlock
  <2>3. V!NginxHost(r, a) = IF r.client = "abroad" THEN <<"status", 403>>
                            ELSE IF r.large THEN <<"status", 413>>
                            ELSE IF V!Limited(r) THEN <<"status", 429>> ELSE <<"challenge">>
    BY <2>1, <2>2 DEF V!NginxHost
  <2>4. V!EdgeHost(r, a) = IF r.client = "abroad" THEN <<"status", 403>>
                           ELSE IF V!Limited(r) THEN <<"status", 429>>
                           ELSE IF r.large THEN <<"status", 413>> ELSE <<"challenge">>
    BY <1>4 DEF V!EdgeHost
  <2> QED
    BY <2>3, <2>4
<1>5. CASE ~(a /\ V!IsPrefix(V!Acme, t))
  <2> DEFINE Rest(limit) ==
               IF V!Closed(r, best) THEN <<"status", 503>>
               ELSE IF best.kind = "deny" THEN <<"status", 403>>
               ELSE IF limit THEN <<"status", 429>>
               ELSE IF V!Authorize(r, best) # 0 THEN V!Refusal(V!Authorize(r, best), best)
               ELSE <<"proxy", best.path, best.kind, asset>>
             within == Rest(FALSE)
             beyond == Rest(TRUE)
  <2>1. best \in V!HostLocations /\ best \in HostLocation
    BY <1>1, BestIs DEF Reached
  <2>2. best.kind \in {"same", "proxy", "deny"}
    BY <2>1 DEF HostLocation
  <2>3. V!AccessPhase(r, Block(best)) = V!Authorize(r, best)
    BY <1>2, <2>1, AccessIsSame
  <2>4. /\ Block(best).path = best.path /\ Block(best).kind = best.kind
        /\ \A c : V!Refusal(c, Block(best)) = V!Refusal(c, best)
        /\ V!Closed(r, Block(best)) <=> V!Closed(r, best)
    BY BlockIs DEF V!Refusal, V!Closed
  <2>5. M = IF Slashless(t) THEN <<"slash", t>> ELSE <<"location", best>>
    BY <1>1, EdgeFinds
  <2>6. F = IF Slashless(t) THEN <<"slash", t, FALSE>>
            ELSE IF V!Proxies(best) /\ asset THEN <<"location", Block(best), TRUE>>
            ELSE IF isMoved THEN <<"moved", V!Longest(V!Redirects(t)), FALSE>>
            ELSE <<"location", Block(best), FALSE>>
    BY <1>1, <1>3, <1>5, NginxFinds
  <2>7. V!Proxies(best) <=> best.kind # "deny"
    BY <2>2 DEF V!Proxies
  <2>8. V!EdgeHost(r, a) =
          IF r.client = "abroad" THEN <<"status", 403>>
          ELSE IF V!Limited(r) THEN <<"status", 429>>
          ELSE IF r.large THEN <<"status", 413>>
          ELSE IF isMoved THEN <<"moved", V!Longest(V!Redirects(t)).path>>
          ELSE IF Slashless(t) THEN <<"slash", t>>
          ELSE within
    <3>1. CASE Slashless(t)
      <4>1. M = <<"slash", t>>
        BY <2>5, <3>1
      <4> QED
        BY <1>5, <3>1, <4>1 DEF V!EdgeHost
    <3>2. CASE ~Slashless(t)
      <4>1. M = <<"location", best>>
        BY <2>5, <3>2
      <4> HIDE DEF best
      <4> QED
        BY <1>5, <3>2, <4>1 DEF V!EdgeHost
    <3> QED
      BY <3>1, <3>2
  <2>9. V!NginxHost(r, a) =
          IF r.client = "abroad" THEN <<"status", 403>>
          ELSE IF r.large THEN <<"status", 413>>
          ELSE IF Slashless(t) THEN <<"slash", t>>
          ELSE IF isMoved THEN <<"moved", V!Longest(V!Redirects(t)).path>>
          ELSE IF V!Limited(r) THEN beyond ELSE within
    <3>1. CASE Slashless(t)
      <4>1. F = <<"slash", t, FALSE>>
        BY <2>6, <3>1
      <4> QED
        BY <3>1, <4>1 DEF V!NginxHost
    <3>2. CASE ~Slashless(t) /\ isMoved
      <4>1. F = <<"moved", V!Longest(V!Redirects(t)), FALSE>>
        BY <1>3, <2>6, <3>2
      <4> QED
        BY <3>2, <4>1 DEF V!NginxHost
    <3>3. CASE ~Slashless(t) /\ ~isMoved
      <4>1. F = <<"location", Block(best), V!Proxies(best) /\ asset>>
        <5>1. CASE V!Proxies(best) /\ asset
          BY <2>6, <3>3, <5>1
        <5>2. CASE ~(V!Proxies(best) /\ asset)
          BY <2>6, <3>3, <5>2
        <5> QED
          BY <5>1, <5>2
      <4>2. V!NginxHost(r, a) =
              IF r.client = "abroad" THEN <<"status", 403>>
              ELSE IF r.large THEN <<"status", 413>>
              ELSE IF V!Closed(r, best) THEN <<"status", 503>>
              ELSE IF best.kind = "deny" THEN <<"status", 403>>
              ELSE IF V!Limited(r) THEN <<"status", 429>>
              ELSE IF V!Authorize(r, best) # 0 THEN V!Refusal(V!Authorize(r, best), best)
              ELSE <<"proxy", best.path, best.kind, V!Proxies(best) /\ asset>>
        <5> HIDE DEF best, F
        <5> QED
          BY <2>2, <2>3, <2>4, <4>1 DEF V!NginxHost, F
      <4> QED
        BY <2>7, <3>3, <4>2
    <3> QED
      BY <3>1, <3>2, <3>3
  <2>10. Slashless(t) <=> M[1] = "slash"
    BY <2>5
  <2>11. \A code : V!Refusal(code, best)[1] # "proxy"
    BY DEF V!Refusal
  <2> HIDE DEF best, M, F, isMoved, asset
  <2>12. beyond[1] # "proxy"
    OBVIOUS
  <2> HIDE DEF Rest, within, beyond
  <2>13. V!NginxHost(r, a)[1] = "proxy" <=> V!EdgeHost(r, a)[1] = "proxy"
    <3>1. CASE V!Limited(r)
      BY <2>8, <2>9, <2>12, <3>1
    <3>2. CASE ~V!Limited(r)
      BY <2>8, <2>9, <3>2
    <3> QED
      BY <3>1, <3>2
  <2>14. ASSUME ~V!Limited(r), ~r.large, ~(isMoved /\ M[1] = "slash")
         PROVE  V!NginxHost(r, a) = V!EdgeHost(r, a)
    BY <2>8, <2>9, <2>10, <2>14
  <2> QED
    BY <2>13, <2>14 DEF M, isMoved
<1> QED
  BY <1>4, <1>5

\* Both choose the server alike.
LEMMA ServersAgree ==
  ASSUME Proper(snap), NEW r, Asking(r)
  PROVE  LET n == V!NginxServer(r)
             e == V!EdgeServer(r)
         IN  \/ n = "refuse" /\ e.kind = "refuse" /\ ~e.acme
             \/ n = "toHTTPS" /\ e.kind = "toHTTPS" /\ e.acme
             \/ n \in {"host", "defaultHost"} /\ e.kind = "host" /\ e.acme \in BOOLEAN
                /\ (e.acme <=> n = "defaultHost" \/ ~(snap.tls = "forced" /\ r.scheme = "https"))
             \/ n = "group" /\ e.kind = "group" /\ (e.acme <=> r.scheme # "https")
             \/ n = "default" /\ e.kind = "default" /\ e.acme
<1>1. /\ r.tunnel \in BOOLEAN /\ r.scheme \in {"http", "https"} /\ r.name \in {"host", "group", "other"}
      /\ snap.tls \in {"none", "both", "forced"} /\ snap.groupTls \in {"none", "forced"}
      /\ snap.published \in BOOLEAN /\ snap.default \in {"close", "404", "redirect", "host"}
  BY DEF Asking, V!Request, Proper, V!Snapshot
<1> DEFINE hosts  == r.name = "host" /\ (r.scheme = "https" => V!Cert) /\ (r.tunnel => snap.published)
           groups == r.name = "group" /\ (r.scheme = "https" => snap.groupTls = "forced") /\ ~r.tunnel
           forced == (hosts /\ snap.tls = "forced") \/ (groups /\ snap.groupTls = "forced")
           e == V!EdgeServer(r)
<1>2. e = CASE (hosts \/ groups) /\ forced /\ r.scheme = "http" -> [kind |-> "toHTTPS", acme |-> TRUE]
            [] hosts /\ ~(forced /\ r.scheme = "http")  -> [kind |-> "host", acme |-> ~forced]
            [] groups /\ ~(forced /\ r.scheme = "http") -> [kind |-> "group", acme |-> ~forced]
            [] OTHER -> [kind |-> IF r.tunnel THEN "refuse"
                                 ELSE IF snap.default = "host" THEN "host" ELSE "default",
                         acme |-> ~r.tunnel]
  BY DEF V!EdgeServer
<1>3. ~(hosts /\ groups)
  BY <1>1
<1>4. V!NginxServer(r) =
        IF hosts THEN IF r.scheme = "http" /\ snap.tls = "forced" THEN "toHTTPS" ELSE "host"
        ELSE IF groups THEN IF r.scheme = "http" /\ snap.groupTls = "forced" THEN "toHTTPS" ELSE "group"
        ELSE IF r.tunnel THEN "refuse"
        ELSE IF snap.default = "host" THEN "defaultHost" ELSE "default"
  <2>1. CASE r.tunnel
    <3>1. V!NginxServer(r) = IF r.name = "host" /\ snap.published /\ (r.scheme = "https" => V!Cert)
                               THEN IF r.scheme = "http" /\ snap.tls = "forced" THEN "toHTTPS" ELSE "host"
                               ELSE "refuse"
      BY <2>1 DEF V!NginxServer
    <3> QED
      BY <2>1, <3>1
  <2>2. CASE ~r.tunnel
    <3>1. V!NginxServer(r) =
            IF r.name = "host" /\ (r.scheme = "https" => V!Cert)
              THEN IF r.scheme = "http" /\ snap.tls = "forced" THEN "toHTTPS" ELSE "host"
            ELSE IF r.name = "group" /\ (r.scheme = "https" => snap.groupTls = "forced")
              THEN IF r.scheme = "http" /\ snap.groupTls = "forced" THEN "toHTTPS" ELSE "group"
            ELSE IF snap.default = "host" THEN "defaultHost" ELSE "default"
      BY <2>2 DEF V!NginxServer
    <3> QED
      BY <2>2, <3>1
  <2> QED
    BY <1>1, <2>1, <2>2
<1>5. groups /\ r.scheme = "https" => snap.groupTls = "forced"
  OBVIOUS
<1> HIDE DEF hosts, groups, e
<1>6. CASE hosts
  <2>1. CASE snap.tls = "forced" /\ r.scheme = "http"
    <3>1. e = [kind |-> "toHTTPS", acme |-> TRUE]
      BY <1>2, <1>3, <1>6, <2>1
    <3> QED
      BY <1>4, <1>6, <2>1, <3>1 DEF e
  <2>2. CASE ~(snap.tls = "forced" /\ r.scheme = "http")
    <3>1. e = [kind |-> "host", acme |-> ~(snap.tls = "forced")]
      BY <1>2, <1>3, <1>6, <2>2
    <3>2. V!NginxServer(r) = "host"
      BY <1>4, <1>6, <2>2
    <3>3. e.kind = "host" /\ e.acme \in BOOLEAN /\ (e.acme <=> ~(snap.tls = "forced"))
      BY <3>1
    <3> QED
      BY <1>1, <2>2, <3>2, <3>3 DEF e
  <2> QED
    BY <2>1, <2>2
<1>7. CASE groups
  <2>1. CASE snap.groupTls = "forced" /\ r.scheme = "http"
    <3>1. e = [kind |-> "toHTTPS", acme |-> TRUE]
      BY <1>2, <1>3, <1>7, <2>1
    <3> QED
      BY <1>3, <1>4, <1>7, <2>1, <3>1 DEF e
  <2>2. CASE ~(snap.groupTls = "forced" /\ r.scheme = "http")
    <3>1. e = [kind |-> "group", acme |-> ~(snap.groupTls = "forced")]
      BY <1>2, <1>3, <1>7, <2>2
    <3>2. V!NginxServer(r) = "group"
      BY <1>3, <1>4, <1>7, <2>2
    <3>3. e.kind = "group" /\ (e.acme <=> ~(snap.groupTls = "forced"))
      BY <3>1
    <3> QED
      BY <1>1, <1>5, <1>7, <2>2, <3>2, <3>3 DEF e
  <2> QED
    BY <2>1, <2>2
<1>8. CASE ~hosts /\ ~groups
  <2>1. e = [kind |-> IF r.tunnel THEN "refuse" ELSE IF snap.default = "host" THEN "host" ELSE "default",
             acme |-> ~r.tunnel]
    BY <1>2, <1>8
  <2>2. /\ e.kind = IF r.tunnel THEN "refuse" ELSE IF snap.default = "host" THEN "host" ELSE "default"
        /\ e.acme \in BOOLEAN /\ (e.acme <=> ~r.tunnel)
    BY <2>1
  <2>3. V!NginxServer(r) = IF r.tunnel THEN "refuse" ELSE IF snap.default = "host" THEN "defaultHost" ELSE "default"
    BY <1>4, <1>8
  <2>4. CASE r.tunnel
    BY <2>2, <2>3, <2>4 DEF e
  <2>5. CASE ~r.tunnel
    BY <2>2, <2>3, <2>5 DEF e
  <2> QED
    BY <2>4, <2>5
<1> QED
  BY <1>6, <1>7, <1>8

\* Both engines answer a request alike
LEMMA AnswersAgree ==
  ASSUME Proper(snap), NEW r, Asking(r), ~V!OneEngineOnly(r)
  PROVE  /\ V!Nginx(r)[1] = "proxy" <=> V!Edge(r)[1] = "proxy"
         /\ ~V!OrderMatters(r) => V!Nginx(r) = V!Edge(r)
<1> DEFINE n == V!NginxServer(r)
           e == V!EdgeServer(r)
           challenge == V!IsPrefix(V!Acme, r.path)
<1>1. /\ r.large \in BOOLEAN /\ r.scheme \in {"http", "https"} /\ snap.whole \in BOOLEAN
  BY DEF Asking, V!Request, Proper, V!Snapshot
<1>2. V!Nginx(r) =
        IF n = "refuse" /\ r.scheme = "https" THEN <<"noHandshake">>
        ELSE IF r.path = V!Bad THEN <<"status", 400>>
        ELSE IF n = "refuse" THEN IF r.large THEN <<"status", 413>> ELSE <<"closed">>
        ELSE IF r.client = "blocked" THEN <<"status", 403>>
        ELSE IF n \in {"host", "defaultHost"}
          THEN V!NginxHost(r, n = "defaultHost" \/ ~(snap.tls = "forced" /\ r.scheme = "https"))
        ELSE V!NginxOther(r, n)
  BY DEF V!Nginx
<1> DEFINE other == CASE e.kind = "toHTTPS" -> <<"toHTTPS">>
                      [] e.kind = "group" /\ V!Redirects(r.path) # {} ->
                           <<"moved", V!Longest(V!Redirects(r.path)).path>>
                      [] e.kind = "group" /\ snap.whole -> <<"moved", V!Root>>
                      [] e.kind = "refuse" \/ (e.kind = "default" /\ snap.default = "close") -> <<"closed">>
                      [] e.kind = "default" /\ snap.default = "redirect" -> <<"redirected">>
                      [] OTHER -> <<"status", 404>>
<1>3. V!Edge(r) =
        IF e.kind = "refuse" /\ r.scheme = "https" THEN <<"noHandshake">>
        ELSE IF r.client = "blocked" THEN <<"status", 403>>
        ELSE IF r.path = V!Bad THEN <<"status", 400>>
        ELSE IF e.kind = "host" THEN V!EdgeHost(r, e.acme)
        ELSE IF e.acme /\ challenge THEN <<"challenge">>
        ELSE other
  BY DEF V!Edge
<1>4. ~V!OrderMatters(r) => /\ ~V!Limited(r) /\ ~r.large /\ r.path # V!Bad
                            /\ ~(r.client = "blocked" /\ n = "refuse")
                            /\ ~(V!Redirects(r.path) # {} /\ V!Match(r.path)[1] = "slash")
  BY DEF V!OrderMatters
<1> HIDE DEF n, e, challenge
<1>5. CASE n = "refuse" /\ e.kind = "refuse" /\ ~e.acme
  <2>1. other = <<"closed">>
    BY <1>5
  <2> QED
    BY <1>1, <1>2, <1>3, <1>4, <1>5, <2>1
<1>6. CASE /\ n \in {"host", "defaultHost"} /\ e.kind = "host" /\ e.acme \in BOOLEAN
           /\ (e.acme <=> n = "defaultHost" \/ ~(snap.tls = "forced" /\ r.scheme = "https"))
  <2>1. e.acme = (n = "defaultHost" \/ ~(snap.tls = "forced" /\ r.scheme = "https"))
    BY <1>6
  <2>2. V!Nginx(r) = IF r.path = V!Bad THEN <<"status", 400>>
                     ELSE IF r.client = "blocked" THEN <<"status", 403>>
                     ELSE V!NginxHost(r, e.acme)
    BY <1>2, <1>6, <2>1
  <2>3. V!Edge(r) = IF r.client = "blocked" THEN <<"status", 403>>
                    ELSE IF r.path = V!Bad THEN <<"status", 400>>
                    ELSE V!EdgeHost(r, e.acme)
    BY <1>3, <1>6
  <2>4. CASE r.path = V!Bad \/ r.client = "blocked"
    BY <1>4, <2>2, <2>3, <2>4
  <2>5. CASE ~(r.path = V!Bad \/ r.client = "blocked")
    <3>1. /\ V!NginxHost(r, e.acme)[1] = "proxy" <=> V!EdgeHost(r, e.acme)[1] = "proxy"
          /\ ~V!Limited(r) /\ ~r.large /\ ~(V!Redirects(r.path) # {} /\ V!Match(r.path)[1] = "slash")
               => V!NginxHost(r, e.acme) = V!EdgeHost(r, e.acme)
      <4>1. e.acme => ~V!BelowAcme(r.path)
        BY <1>6 DEF V!OneEngineOnly, e
      <4> QED
        BY <1>6, <2>5, <4>1, HostsAgree
    <3> QED
      BY <1>4, <2>2, <2>3, <2>5, <3>1
  <2> QED
    BY <2>4, <2>5
<1>7. CASE \/ n = "toHTTPS" /\ e.kind = "toHTTPS" /\ e.acme
           \/ n = "group" /\ e.kind = "group" /\ (e.acme <=> r.scheme # "https")
           \/ n = "default" /\ e.kind = "default" /\ e.acme
  <2>1. V!NginxOther(r, n) = IF r.large THEN <<"status", 413>>
                             ELSE IF challenge /\ ~(n = "group" /\ r.scheme = "https") THEN <<"challenge">>
                             ELSE other
    <3>1. CASE n = "toHTTPS" /\ e.kind = "toHTTPS"
      BY <3>1 DEF V!NginxOther, challenge
    <3>2. CASE n = "group" /\ e.kind = "group"
      BY <1>1, <3>2 DEF V!NginxOther, challenge
    <3>3. CASE n = "default" /\ e.kind = "default"
      BY <3>3 DEF V!NginxOther, challenge
    <3> QED
      BY <1>7, <3>1, <3>2, <3>3
  <2>2. V!Nginx(r) = IF r.path = V!Bad THEN <<"status", 400>>
                     ELSE IF r.client = "blocked" THEN <<"status", 403>>
                     ELSE IF r.large THEN <<"status", 413>>
                     ELSE IF e.acme /\ challenge THEN <<"challenge">>
                     ELSE other
    <3>1. e.acme <=> ~(n = "group" /\ r.scheme = "https")
      BY <1>7
    <3> HIDE DEF other
    <3> QED
      BY <1>2, <1>7, <2>1, <3>1
  <2>3. V!Edge(r) = IF r.client = "blocked" THEN <<"status", 403>>
                    ELSE IF r.path = V!Bad THEN <<"status", 400>>
                    ELSE IF e.acme /\ challenge THEN <<"challenge">>
                    ELSE other
    <3> HIDE DEF other
    <3> QED
      BY <1>3, <1>7
  <2>4. other[1] # "proxy"
    <3>1. CASE e.kind = "toHTTPS"
      BY <3>1
    <3>2. CASE e.kind = "group"
      BY <1>1, <3>2
    <3>3. CASE e.kind = "default"
      BY <3>3
    <3> QED
      BY <1>7, <3>1, <3>2, <3>3
  <2> HIDE DEF other
  <2> QED
    BY <1>1, <1>4, <2>2, <2>3, <2>4
<1> QED
  BY <1>5, <1>6, <1>7, ServersAgree DEF n, e

-----------------------------------------------------------------------------
(* The specification *)

\* The admin goes from one of the snapshots to another.
Known == snap \in Settings

\* The snapshot stays one of the settings.
LEMMA KnownInvariant == EngineSpec => []Known
<1>1. EngineInit => Known
  BY DEF EngineInit, V!Init, Known
<1>2. Known /\ [EngineNext]_<<focus, vars, edgeVars, snap, lbVars>> => Known'
  <2> SUFFICES ASSUME Known, [EngineNext]_<<focus, vars, edgeVars, snap, lbVars>> PROVE Known'
    OBVIOUS
  <2>1. V!Next \/ snap' = snap
    BY DEF EngineNext
  <2> QED
    BY <2>1 DEF V!Next, V!Edit, Known
<1> QED
  BY <1>1, <1>2, PTL DEF EngineSpec

\* In every snapshot that validation admits, and however the admin changes it, Relay
\* Edge and the nginx configuration of the same snapshot answer a request alike, but
\* for what OneEngineOnly names; where OrderMatters the answers may differ, but one
\* passes the request on exactly when the other does.
THEOREM EnginesAlwaysAgree == EngineSpec => []EnginesAgree
<1>1. Known => EnginesAgree
  <2> SUFFICES ASSUME Known PROVE V!EnginesAgree
    BY DEF EnginesAgree
  <2>1. Proper(snap) /\ \A r \in Questions : Asking(r)
    BY SettingsAreProper DEF Known
  <2> SUFFICES ASSUME NEW r \in Questions, ~V!OneEngineOnly(r)
               PROVE  /\ V!Nginx(r)[1] = "proxy" <=> V!Edge(r)[1] = "proxy"
                      /\ ~V!OrderMatters(r) => V!Nginx(r) = V!Edge(r)
    BY DEF V!EnginesAgree
  <2> QED
    BY <2>1, AnswersAgree
<1> QED
  BY <1>1, KnownInvariant, PTL

-----------------------------------------------------------------------------
(* Access lists of the balancers *)

\* The first of a set of places is in it, and none of the others is before it.
LEMMA FirstPlace ==
  ASSUME NEW S \in SUBSET Nat, S # {}
  PROVE  B!First(S) \in S /\ \A k \in S : B!First(S) <= k
<1> DEFINE Less == OpToRel(<, Nat)
<1>1. IsWellFoundedOn(Less, Nat) /\ \A x, y \in Nat : y < x => <<y, x>> \in Less
  BY NatLessThanWellFounded DEF OpToRel
<1> HIDE DEF Less
<1>2. PICK i \in S : \A k \in S : ~(<<k, i>> \in Less)
  BY <1>1, WFMin
<1>3. \A k \in S : i <= k
  <2> SUFFICES ASSUME NEW k \in S PROVE i <= k
    OBVIOUS
  <2>1. ~(k < i)
    BY <1>1, <1>2
  <2> QED
    BY <2>1
<1> QED
  BY <1>3 DEF B!First

\* A list of rules as the balancers read it: the rules that allow or deny somebody,
\* up to one that does so with everybody.
Rule(r) == r.action \in {"allow", "deny"} /\ (r.all \/ r.cidr # {})
Read(rules) == { i \in DOMAIN rules : Rule(rules[i]) /\ \A j \in 1..(i - 1) : Rule(rules[j]) => ~rules[j].all }
Whom(r) == IF r.all THEN Addresses ELSE r.cidr

\* HAProxy reads those, and others that say nothing.
LEMMA HaproxyReads ==
  ASSUME NEW rules \in Seq(B!IPRule), NEW i \in DOMAIN rules, rules[i].action \in {"allow", "deny"}
  PROVE  i \in B!Reads(rules) <=> i \in Read(rules)
<1>1. \A j \in DOMAIN rules : rules[j] \in B!IPRule
  OBVIOUS
<1>2. i \in Nat /\ \A j \in 1..(i - 1) : j \in DOMAIN rules
  OBVIOUS
<1>3. \A j \in 1..(i - 1) : (rules[j].all /\ rules[j].action # "other") <=> (Rule(rules[j]) /\ rules[j].all)
  BY <1>1, <1>2 DEF Rule, B!IPRule
<1>4. (rules[i].all \/ rules[i].cidr # {}) <=> Rule(rules[i])
  BY DEF Rule
<1> QED
  BY <1>3, <1>4 DEF Read, B!Reads

\* The addresses that are let in before a place.
LEMMA AllowsAre ==
  ASSUME NEW rules \in Seq(B!IPRule), NEW n \in Nat, NEW S
  PROVE  S \in B!Allows(rules, n) <=>
           \E j \in Read(rules) : j < n /\ rules[j].action = "allow" /\ ~rules[j].all /\ S = rules[j].cidr
<1>1. \A j \in DOMAIN rules : rules[j].action = "allow" => (j \in B!Reads(rules) <=> j \in Read(rules))
  BY HaproxyReads
<1>2. B!Reads(rules) \subseteq DOMAIN rules /\ Read(rules) \subseteq DOMAIN rules
  BY DEF B!Reads, Read
<1> QED
  BY <1>1, <1>2 DEF B!Allows

\* HAProxy denies a client by a rule that no rule before it lets in, or at the end
\* of a list that lets in others.
LEMMA HaproxyDeniesWhom ==
  ASSUME NEW c, plan.access \in Seq(B!IPRule), c \in Addresses
  PROVE  LET rules == plan.access
             before(n) == \A j \in Read(rules) :
                            j < n /\ rules[j].action = "allow" /\ ~rules[j].all => c \notin rules[j].cidr
         IN  B!HaproxyDenies(c) <=>
               \/ \E i \in Read(rules) : rules[i].action = "deny" /\ c \in Whom(rules[i]) /\ before(i)
               \/ /\ \A i \in Read(rules) : ~rules[i].all
                  /\ \E i \in Read(rules) : rules[i].action = "allow"
                  /\ before(Len(rules) + 1)
<1> DEFINE rules == plan.access
           past == Len(rules) + 1
           before(n) == \A j \in Read(rules) :
                          j < n /\ rules[j].action = "allow" /\ ~rules[j].all => c \notin rules[j].cidr
           line(S, i) == [src |-> S, unless |-> B!Allows(rules, i)]
           denials == { i \in B!Reads(rules) : rules[i].action = "deny" }
           ended == \E i \in B!Reads(rules) : rules[i].all /\ rules[i].action # "other"
           applies(x) == c \in x.src /\ \A S \in x.unless : c \notin S
<1>1. /\ Read(rules) \subseteq DOMAIN rules /\ B!Reads(rules) \subseteq DOMAIN rules
      /\ DOMAIN rules \subseteq Nat /\ past \in Nat /\ \A i \in DOMAIN rules : i < past /\ rules[i] \in B!IPRule
  BY DEF Read, B!Reads
<1>2. ASSUME NEW n \in Nat PROVE (\A S \in B!Allows(rules, n) : c \notin S) <=> before(n)
  BY AllowsAre
<1>3. B!AccessRules(rules) = { line(Whom(rules[i]), i) : i \in denials }
                             \cup IF ended \/ B!Allows(rules, past) = {} THEN {} ELSE {line(Addresses, past)}
  BY DEF B!AccessRules, Whom
<1>4. \A i : i \in denials <=> i \in Read(rules) /\ rules[i].action = "deny"
  BY <1>1, HaproxyReads
<1>5. ended <=> \E i \in Read(rules) : rules[i].all
  <2>1. \A i \in Read(rules) : rules[i].action \in {"allow", "deny"}
    BY DEF Read, Rule
  <2>2. \A i \in DOMAIN rules : rules[i].action # "other" => rules[i].action \in {"allow", "deny"}
    BY <1>1 DEF B!IPRule
  <2> QED
    BY <1>1, <2>1, <2>2, HaproxyReads
<1>6. ASSUME \A i \in Read(rules) : ~rules[i].all
      PROVE  B!Allows(rules, past) # {} <=> \E i \in Read(rules) : rules[i].action = "allow"
  <2>1. \A S : S \in B!Allows(rules, past) <=>
               \E j \in Read(rules) : j < past /\ rules[j].action = "allow" /\ ~rules[j].all /\ S = rules[j].cidr
    BY <1>1, AllowsAre
  <2>2. \A j \in Read(rules) : j < past /\ ~rules[j].all
    BY <1>1, <1>6
  <2>3. ASSUME NEW j \in Read(rules), rules[j].action = "allow" PROVE rules[j].cidr \in B!Allows(rules, past)
    BY <2>1, <2>2, <2>3
  <2> QED
    BY <2>1, <2>3
<1> HIDE DEF denials, ended, past, before
<1>7. ASSUME NEW S, NEW n \in Nat PROVE applies(line(S, n)) <=> c \in S /\ before(n)
  BY <1>2
<1>8. B!HaproxyDenies(c) <=> \E x \in B!AccessRules(rules) : applies(x)
  BY DEF B!HaproxyDenies
<1> HIDE DEF applies, line
<1>9. (\E x \in B!AccessRules(rules) : applies(x)) <=>
        \/ \E i \in denials : applies(line(Whom(rules[i]), i))
        \/ ~ended /\ B!Allows(rules, past) # {} /\ applies(line(Addresses, past))
  BY <1>3
<1>10. \A i \in denials : i \in Nat
  BY <1>1, <1>4
<1>11. B!HaproxyDenies(c) <=>
         \/ \E i \in denials : c \in Whom(rules[i]) /\ before(i)
         \/ ~ended /\ B!Allows(rules, past) # {} /\ before(past)
  BY <1>1, <1>7, <1>8, <1>9, <1>10
<1>12. B!HaproxyDenies(c) <=>
         \/ \E i \in Read(rules) : rules[i].action = "deny" /\ c \in Whom(rules[i]) /\ before(i)
         \/ /\ \A i \in Read(rules) : ~rules[i].all
            /\ \E i \in Read(rules) : rules[i].action = "allow"
            /\ before(past)
  BY <1>4, <1>5, <1>6, <1>11
<1> QED
  BY <1>12 DEF before, past

\* Relay Balancer denies a client if the first rule that names it does, or if none
\* does and the list lets in others.
LEMMA BalancerDeniesWhom ==
  ASSUME NEW c, plan.access \in Seq(B!IPRule), c \in Addresses
  PROVE  LET rules == plan.access
             hits == { i \in Read(rules) : c \in Whom(rules[i]) }
         IN  B!BalancerDenies(c) <=>
               \/ hits # {} /\ rules[B!First(hits)].action = "deny"
               \/ /\ hits = {}
                  /\ \A i \in Read(rules) : ~rules[i].all
                  /\ \E i \in Read(rules) : rules[i].action = "allow"
<1> DEFINE rules == plan.access
           past == Len(rules) + 1
           hits == { i \in Read(rules) : c \in Whom(rules[i]) }
           spec == [i \in Read(rules) |-> [allow |-> rules[i].action = "allow", src |-> Whom(rules[i])]]
           open == (\E i \in Read(rules) : rules[i].all) \/ ~(\E i \in Read(rules) : spec[i].allow)
           found(f) == { i \in DOMAIN f : c \in f[i].src }
           denies(f) == found(f) # {} /\ ~f[B!First(found(f))].allow
<1>1. /\ Read(rules) \subseteq Nat /\ past \in Nat /\ \A i \in Read(rules) : i < past
      /\ \A i \in Read(rules) : rules[i].action \in {"allow", "deny"}
  BY DEF Read, Rule
<1>2. B!SpecRules(rules) = IF open THEN spec ELSE B!Ended(spec, past)
  BY DEF B!SpecRules, Read, Rule, Whom
<1>3. DOMAIN spec = Read(rules)
      /\ \A i \in Read(rules) : spec[i].src = Whom(rules[i]) /\ (spec[i].allow <=> rules[i].action = "allow")
  OBVIOUS
<1>4. B!BalancerDenies(c) <=> denies(B!SpecRules(rules))
  BY DEF B!BalancerDenies
<1>5. open <=> (\E i \in Read(rules) : rules[i].all) \/ ~(\E i \in Read(rules) : rules[i].action = "allow")
  BY <1>3
<1>6. found(spec) = hits
  BY <1>3
<1>7. hits # {} => B!First(hits) \in hits /\ \A k \in hits : B!First(hits) <= k
  <2>1. hits \in SUBSET Nat
    BY <1>1
  <2> HIDE DEF hits
  <2> QED
    BY <2>1, FirstPlace
<1>8. denies(spec) <=> hits # {} /\ rules[B!First(hits)].action = "deny"
  <2>1. \A i \in hits : i \in Read(rules)
    OBVIOUS
  <2>2. found(spec) = hits /\ (hits # {} => B!First(hits) \in Read(rules))
    BY <1>6, <1>7, <2>1
  <2> HIDE DEF hits, spec
  <2> QED
    BY <1>1, <1>3, <2>2
<1>9. denies(B!Ended(spec, past)) <=> hits = {} \/ rules[B!First(hits)].action = "deny"
  <2> DEFINE f == B!Ended(spec, past)
  <2> SUFFICES denies(f) <=> hits = {} \/ rules[B!First(hits)].action = "deny"
    OBVIOUS
  <2>1. /\ DOMAIN f = Read(rules) \cup {past}
        /\ f[past] = [allow |-> FALSE, src |-> Addresses]
        /\ \A i \in Read(rules) : f[i] = spec[i]
    BY <1>1, <1>3 DEF B!Ended
  <2>2. f[past].src = Addresses /\ ~f[past].allow
    BY <2>1
  <2> HIDE DEF f
  <2>3. found(f) = hits \cup {past}
    BY <1>3, <2>1, <2>2
  <2>4. hits \cup {past} \in SUBSET Nat /\ hits \cup {past} # {}
    BY <1>1
  <2> HIDE DEF hits, spec
  <2>5. B!First(hits \cup {past}) \in hits \cup {past} /\ \A k \in hits \cup {past} : B!First(hits \cup {past}) <= k
    BY <2>4, FirstPlace
  <2>6. CASE hits = {}
    <3>1. B!First(hits \cup {past}) = past
      BY <2>5, <2>6
    <3> QED
      BY <2>2, <2>3, <2>6, <3>1
  <2>7. CASE hits # {}
    <3>1. /\ B!First(hits) \in hits /\ B!First(hits \cup {past}) \in Nat /\ B!First(hits) \in Nat
          /\ \A i \in hits : i \in Read(rules) /\ i < past /\ i \in Nat
      BY <1>1, <1>7, <2>4, <2>5, <2>7 DEF hits
    <3>2. B!First(hits \cup {past}) <= B!First(hits) /\ B!First(hits \cup {past}) # past
      <4>1. B!First(hits) \in hits \cup {past} /\ B!First(hits) < past
        BY <3>1
      <4>2. B!First(hits \cup {past}) <= B!First(hits)
        BY <2>5, <4>1
      <4> QED
        BY <1>1, <3>1, <4>1, <4>2
    <3>3. B!First(hits \cup {past}) \in hits
      BY <2>5, <3>2
    <3>4. B!First(hits) <= B!First(hits \cup {past})
      BY <1>7, <2>7, <3>3
    <3>5. B!First(hits \cup {past}) = B!First(hits)
      BY <3>1, <3>2, <3>4
    <3>6. f[B!First(hits)] = spec[B!First(hits)] /\ B!First(hits) \in Read(rules)
      BY <2>1, <3>1
    <3> QED
      BY ZenonT(60), <1>1, <1>3, <2>3, <2>7, <3>5, <3>6
  <2> HIDE DEF denies
  <2> QED
    BY SMTT(60), <2>6, <2>7
<1> HIDE DEF denies, spec, hits
<1>10. B!BalancerDenies(c) <=> \/ open /\ denies(spec)
                               \/ ~open /\ denies(B!Ended(spec, past))
  BY <1>2, <1>4
<1> HIDE DEF open, past
<1>11. B!BalancerDenies(c) <=>
               \/ hits # {} /\ rules[B!First(hits)].action = "deny"
               \/ /\ hits = {}
                  /\ \A i \in Read(rules) : ~rules[i].all
                  /\ \E i \in Read(rules) : rules[i].action = "allow"
  BY <1>5, <1>8, <1>9, <1>10
<1> QED
  BY <1>11 DEF hits

\* The first rule that names a client denies it exactly if some rule does and none
\* before it lets the client in.
LEMMA DenialsAgree ==
  ASSUME NEW c \in Addresses, plan.access \in Seq(B!IPRule)
  PROVE  B!HaproxyDenies(c) <=> B!BalancerDenies(c)
<1> DEFINE rules == plan.access
           past == Len(rules) + 1
           hits == { i \in Read(rules) : c \in Whom(rules[i]) }
           lets(i) == rules[i].action = "allow" /\ ~rules[i].all /\ c \in rules[i].cidr
           before(n) == \A j \in Read(rules) :
                          j < n /\ rules[j].action = "allow" /\ ~rules[j].all => c \notin rules[j].cidr
           rest == (\A i \in Read(rules) : ~rules[i].all) /\ (\E i \in Read(rules) : rules[i].action = "allow")
<1>1. /\ Read(rules) \subseteq Nat /\ past \in Nat /\ \A i \in Read(rules) : i < past /\ rules[i] \in B!IPRule
      /\ \A i \in Read(rules) : rules[i].action \in {"allow", "deny"}
  BY DEF Read, Rule
<1>2. \A i, j \in Read(rules) : i < j => ~rules[i].all
  <2> SUFFICES ASSUME NEW i \in Read(rules), NEW j \in Read(rules), i < j PROVE ~rules[i].all
    OBVIOUS
  <2>1. i \in 1..(j - 1) /\ Rule(rules[i])
    BY DEF Read
  <2> QED
    BY <2>1 DEF Read
<1>3. hits # {} => B!First(hits) \in hits /\ \A k \in hits : B!First(hits) <= k
  <2>1. hits \in SUBSET Nat
    BY <1>1
  <2> HIDE DEF hits
  <2> QED
    BY <2>1, FirstPlace
<1>4. \A i \in Read(rules) : i \in hits <=> c \in Whom(rules[i])
  OBVIOUS
<1>5. \A i \in Read(rules) : lets(i) => i \in hits
  BY DEF Whom
<1>6. \A n : before(n) <=> \A j \in Read(rules) : j < n => ~lets(j)
  OBVIOUS
<1>7. \A i \in hits : i \in Read(rules)
  OBVIOUS
<1>8. B!HaproxyDenies(c) <=>
         \/ \E i \in Read(rules) : rules[i].action = "deny" /\ c \in Whom(rules[i]) /\ before(i)
         \/ rest /\ before(past)
  BY HaproxyDeniesWhom
<1>9. B!BalancerDenies(c) <=>
         \/ hits # {} /\ rules[B!First(hits)].action = "deny"
         \/ hits = {} /\ rest
  BY BalancerDeniesWhom
<1>10. \A i \in hits : rules[i].action = "allow" => lets(i) \/ rules[i].all
  BY DEF Whom
<1> HIDE DEF hits, before, rest, past, lets
<1>11. CASE hits = {}
  <2>1. before(past)
    BY <1>5, <1>6, <1>11
  <2>2. \A i \in Read(rules) : c \notin Whom(rules[i])
    BY <1>4, <1>11
  <2> QED
    BY <1>8, <1>9, <1>11, <2>1, <2>2
<1>12. CASE hits # {} /\ rules[B!First(hits)].action = "deny"
  <2>1. B!First(hits) \in Read(rules) /\ c \in Whom(rules[B!First(hits)])
    BY <1>3, <1>4, <1>7, <1>12
  <2>2. ASSUME NEW j \in Read(rules), j < B!First(hits) PROVE ~lets(j)
    BY <1>1, <1>3, <1>5, <1>12, <2>1, <2>2
  <2> QED
    BY <1>6, <1>8, <1>9, <1>12, <2>1, <2>2
<1>13. CASE hits # {} /\ rules[B!First(hits)].action = "allow"
  <2> DEFINE f == B!First(hits)
  <2>1. f \in Read(rules) /\ f \in hits /\ f \in Nat /\ (lets(f) \/ rules[f].all)
    BY <1>1, <1>3, <1>7, <1>10, <1>13
  <2> HIDE DEF f
  <2>2. ASSUME NEW i \in Read(rules), rules[i].action = "deny", c \in Whom(rules[i]), before(i) PROVE FALSE
    <3>1. i \in hits /\ i \in Nat
      BY <1>1, <1>4, <2>2
    <3>2. f <= i /\ f # i
      BY <1>3, <1>13, <2>2, <3>1 DEF f
    <3>3. f < i
      BY <2>1, <3>1, <3>2
    <3>4. ~rules[f].all
      BY <1>2, <2>1, <2>2, <3>3
    <3> QED
      BY <1>6, <2>1, <2>2, <3>3, <3>4
  <2>3. ASSUME rest, before(past) PROVE FALSE
    <3>1. ~rules[f].all
      BY <2>1, <2>3 DEF rest
    <3> QED
      BY <1>1, <1>6, <2>1, <2>3, <3>1
  <2> QED
    BY <1>8, <1>9, <1>13, <2>2, <2>3
<1> QED
  BY <1>1, <1>3, <1>7, <1>11, <1>12, <1>13

-----------------------------------------------------------------------------
(* Rules and servers of the balancers *)

\* A plan, and what its parts are.
LEMMA PlanIs ==
  ASSUME plan \in B!Snapshot
  PROVE  /\ plan.mode \in {"http", "tcp"} /\ plan.fed \in BOOLEAN /\ plan.default \in {0, 1, 2}
         /\ plan.rules \in Seq([conds: Seq(B!Condition), backend: {1, 2}])
         /\ plan.algo \in {"uri", "first", "none"}
         /\ plan.sticky \in {"off", "source", "prefix", "insert", "other"}
         /\ plan.forward \in BOOLEAN /\ plan.backup \in SUBSET {1, 2} /\ plan.access \in Seq(B!IPRule)
  BY DEF B!Snapshot, B!Mode, B!Backends, B!Nobody

\* What is in a sequence is what it is a sequence of.
LEMMA InSequence == ASSUME NEW S, NEW s \in Seq(S), NEW i \in DOMAIN s PROVE s[i] \in S
  OBVIOUS

\* Both take the rules whose conditions hold, an unknown condition being false.
LEMMA RoutesAgree ==
  ASSUME plan \in B!Snapshot, NEW r
  PROVE  B!HaproxyBackend(r) = B!Route(r)
<1> DEFINE rules == plan.rules
           holds(i) == \A j \in B!RenderedRule(rules[i]).conds :
                         B!CondHolds(rules[i].conds[j], r) # rules[i].conds[j].negate
           hits == { i \in DOMAIN rules : ~B!RenderedRule(rules[i]).skip /\ holds(i) }
<1>1. ASSUME NEW i \in DOMAIN rules PROVE rules[i].conds \in Seq(B!Condition)
  <2>1. rules \in Seq([conds: Seq(B!Condition), backend: {1, 2}])
    BY PlanIs
  <2>2. rules[i] \in [conds: Seq(B!Condition), backend: {1, 2}]
    BY <2>1, InSequence
  <2> QED
    BY <2>2
<1>2. ASSUME NEW i \in DOMAIN rules
      PROVE  (/\ rules[i].conds # <<>>
              /\ \A j \in DOMAIN rules[i].conds : B!AclHolds(rules[i].conds[j], r) # rules[i].conds[j].negate)
             <=> ~B!RenderedRule(rules[i]).skip /\ holds(i)
  <2> DEFINE conds == rules[i].conds
             known(j) == conds[j].type \in B!Known
             acl(j) == B!AclHolds(conds[j], r)
             cond(j) == B!CondHolds(conds[j], r)
  <2>1. \A j \in DOMAIN conds : conds[j].negate \in BOOLEAN
    <3> SUFFICES ASSUME NEW j \in DOMAIN conds PROVE conds[j].negate \in BOOLEAN
      OBVIOUS
    <3>1. conds \in Seq(B!Condition)
      BY <1>1
    <3>2. conds[j] \in B!Condition
      BY <3>1
    <3> QED
      BY <3>2 DEF B!Condition
  <2>2. ASSUME NEW j PROVE /\ known(j) => acl(j) = cond(j)
                           /\ ~known(j) => acl(j) = FALSE
    BY DEF B!AclHolds, B!CondHolds
  <2>3. B!RenderedRule(rules[i]).skip <=> conds = <<>> \/ \E j \in DOMAIN conds : ~known(j) /\ ~conds[j].negate
    BY DEF B!RenderedRule
  <2>4. B!RenderedRule(rules[i]).conds = { j \in DOMAIN conds : known(j) }
    BY DEF B!RenderedRule
  <2>5. holds(i) <=> \A j \in DOMAIN conds : known(j) => cond(j) # conds[j].negate
    BY <2>4
  <2>6. \A j \in DOMAIN conds : (acl(j) # conds[j].negate)
                                <=> (known(j) => cond(j) # conds[j].negate) /\ (known(j) \/ conds[j].negate)
    BY <2>1, <2>2
  <2> HIDE DEF conds, known, acl, cond, holds
  <2>7. (\A j \in DOMAIN conds : acl(j) # conds[j].negate)
        <=> holds(i) /\ \A j \in DOMAIN conds : known(j) \/ conds[j].negate
    BY <2>5, <2>6
  <2>8. (conds # <<>> /\ \A j \in DOMAIN conds : acl(j) # conds[j].negate)
        <=> ~B!RenderedRule(rules[i]).skip /\ holds(i)
    BY <2>3, <2>7
  <2> QED
    BY <2>8 DEF conds, acl
<1>3. B!UseBackend(r) = hits
  BY <1>2 DEF B!UseBackend
<1>4. B!Route(r) = IF hits = {} THEN plan.default ELSE rules[B!First(hits)].backend
  BY DEF B!Route
<1> HIDE DEF hits
<1> QED
  BY <1>3, <1>4 DEF B!HaproxyBackend

\* The first of some servers is one of them.
LEMMA FirstServer ==
  ASSUME NEW S \in SUBSET {1, 2}, S # {}
  PROVE  B!First(S) \in S /\ (CHOOSE s \in S : \A k \in S : s <= k) = B!First(S)
  BY FirstPlace DEF B!First

\* Both give a session to the server it sticks to, or to the same of the others,
\* and set a cookie when the client's was of no use.
LEMMA ServersOfPlanAgree ==
  ASSUME plan \in B!Snapshot, servers \in [{1, 2} -> {"up", "drain", "maint", "down"}], NEW r \in B!Request
  PROVE  /\ B!HaproxyServers(r) = IF B!Persist(r) # B!Nobody THEN {B!Persist(r)} ELSE B!Picks
         /\ B!HaproxySetsCookie(r) = B!SetsCookie(r)
<1> DEFINE active == { s \in {1, 2} \ plan.backup : servers[s] = "up" }
           spare  == { s \in plan.backup : servers[s] = "up" }
           usable(s) == servers[s] \in {"up", "drain"}
           kept == { s \in {1, 2} : usable(s) /\
                       CASE B!Sticky = "source" -> s = r.stuck
                         [] B!Sticky \in {"insert", "prefix"} -> s = r.cookie
                         [] OTHER -> FALSE }
<1>1. r.cookie \in 0..3 /\ r.stuck \in 0..2
  BY DEF B!Request
<1>2. plan.backup \in SUBSET {1, 2}
  BY PlanIs
<1>3. /\ { s \in {1, 2} : servers[s] = "up" } \ plan.backup = active
      /\ { s \in {1, 2} : servers[s] = "up" } \cap plan.backup = spare
  BY <1>2
<1>4. B!HaproxyServers(r) = IF kept # {} THEN kept ELSE IF active # {} THEN B!Choice(active)
                            ELSE IF spare # {} THEN {B!First(spare)} ELSE {}
  BY <1>3 DEF B!HaproxyServers
<1>5. B!Picks = IF active # {} THEN B!Choice(active) ELSE B!Choice(IF spare = {} THEN {} ELSE {B!First(spare)})
  BY DEF B!Picks, B!UsableLB
<1>6. \A x \in {1, 2} : B!Choice({x}) = {x}
  BY DEF B!Choice
<1>7. B!Choice({}) = {}
  BY DEF B!Choice
<1>8. spare # {} => B!First(spare) \in {1, 2} /\ B!First(spare) \in spare
  BY <1>2, FirstServer
<1>9. active # {} => B!Choice(active) \subseteq active
  <2>1. active \in SUBSET {1, 2}
    OBVIOUS
  <2> HIDE DEF active
  <2> QED
    BY <2>1, FirstServer DEF B!Choice
<1>10. B!Persist(r) \in {0, 1, 2} /\ kept = IF B!Persist(r) = 0 THEN {} ELSE {B!Persist(r)}
  <2>1. CASE B!Sticky = "source"
    BY <1>1, <2>1 DEF B!Persist, B!UsablePersist, B!Nobody
  <2>2. CASE B!Sticky \in {"insert", "prefix"}
    BY <1>1, <2>2 DEF B!Persist, B!UsablePersist, B!Nobody
  <2>3. CASE B!Sticky \notin {"source", "insert", "prefix"}
    BY <2>3 DEF B!Persist, B!Nobody
  <2> QED
    BY <2>1, <2>2, <2>3
<1>11. active \subseteq {1, 2} /\ spare \subseteq {1, 2}
  BY <1>2
<1>12. (B!Sticky = "insert" /\ kept = {}) => \A s \in {1, 2} : ~(s = r.cookie /\ usable(s))
  OBVIOUS
<1>13. (B!Sticky = "insert" /\ kept # {}) => \A s \in kept : s = r.cookie /\ usable(s)
  OBVIOUS
<1> HIDE DEF active, spare, kept, usable
<1>14. B!Picks = IF active # {} THEN B!Choice(active) ELSE IF spare # {} THEN {B!First(spare)} ELSE {}
  BY <1>5, <1>6, <1>7, <1>8
<1>15. B!HaproxyServers(r) = IF B!Persist(r) # 0 THEN {B!Persist(r)} ELSE B!Picks
  BY <1>4, <1>10, <1>14
<1>16. B!HaproxyServers(r) \subseteq {1, 2}
  BY <1>8, <1>9, <1>10, <1>11, <1>14, <1>15
<1>17. B!HaproxySetsCookie(r) <=> B!Sticky = "insert" /\ ~\E s \in B!HaproxyServers(r) : s = r.cookie /\ usable(s)
  BY DEF B!HaproxySetsCookie, usable
<1>18. B!HaproxySetsCookie(r) <=> B!SetsCookie(r)
  BY <1>4, <1>10, <1>12, <1>13, <1>16, <1>17 DEF B!SetsCookie, B!Nobody
<1>19. B!HaproxySetsCookie(r) \in BOOLEAN /\ B!SetsCookie(r) \in BOOLEAN
  BY DEF B!HaproxySetsCookie, B!SetsCookie
<1> QED
  BY <1>15, <1>18, <1>19 DEF B!Nobody

\* Both do the same with a session.
LEMMA SessionsAgree ==
  ASSUME plan \in B!Snapshot, servers \in [{1, 2} -> {"up", "drain", "maint", "down"}], NEW r \in B!Request
  PROVE  B!Haproxy(r) = B!Balancer(r)
<1>1. B!HaproxyBackend(r) = B!Route(r)
  BY RoutesAgree
<1>2. /\ B!HaproxyServers(r) = IF B!Persist(r) # B!Nobody THEN {B!Persist(r)} ELSE B!Picks
      /\ B!HaproxySetsCookie(r) = B!SetsCookie(r)
  BY ServersOfPlanAgree
<1>3. B!HaproxyForwards(r) = B!Forwards(r)
  <2>1. plan.fed \in BOOLEAN /\ plan.forward \in BOOLEAN /\ r.local \in BOOLEAN
    BY PlanIs DEF B!Request
  <2> QED
    BY <2>1 DEF B!HaproxyForwards, B!Forwards
<1> QED
  BY <1>1, <1>2, <1>3 DEF B!Haproxy, B!Balancer

\* The servers change, and the plan stays one of the plans.
Planned == plan \in Plans /\ servers \in [{1, 2} -> {"up", "drain", "maint", "down"}]

\* That holds from the beginning, whichever part moves.
LEMMA PlannedInvariant == EngineSpec => []Planned
<1>1. EngineInit => Planned
  BY DEF EngineInit, B!Init, Planned
<1>2. Planned /\ [EngineNext]_<<focus, vars, edgeVars, snap, lbVars>> => Planned'
  <2> SUFFICES ASSUME Planned, [EngineNext]_<<focus, vars, edgeVars, snap, lbVars>> PROVE Planned'
    OBVIOUS
  <2>1. B!Next \/ UNCHANGED <<plan, servers>>
    BY DEF EngineNext, lbVars
  <2>2. CASE B!Next
    BY <2>2 DEF B!Next, B!Change, Planned
  <2> QED
    BY <2>1, <2>2 DEF Planned
<1> QED
  BY <1>1, <1>2, PTL DEF EngineSpec

\* Relay Balancer does with every session what HAProxy does under the same plan, and
\* its statistics are open to the same clients, in whatever states the servers are.
THEOREM BalancersAlwaysAgree == EngineSpec => []BalancersAgree
<1>1. Planned => BalancersAgree
  <2> SUFFICES ASSUME Planned PROVE B!BalancersAgree
    BY DEF BalancersAgree
  <2>1. plan \in B!Snapshot /\ Sessions \subseteq B!Request
    BY PlansAreTyped DEF Planned
  <2>2. plan.access \in Seq(B!IPRule)
    BY <2>1, PlanIs
  <2> QED
    BY <2>1, <2>2, SessionsAgree, DenialsAgree DEF B!BalancersAgree, Planned
<1> QED
  BY <1>1, PlannedInvariant, PTL

=============================================================================
