------------------------------ MODULE Releases ------------------------------
(***************************************************************************)
(* The release store one engine agent keeps on disk                        *)
(* (src/internal/agent/releases.go):                                       *)
(*                                                                         *)
(*    <root>/releases/<hash>/   one directory per file set     s.dirs      *)
(*    <root>/current            symlink to the active one      s.current   *)
(*    <root>/history.json       activated hashes, oldest first s.history   *)
(*    <root>/stopped            marker file                    s.stopped   *)
(*                                                                         *)
(* A store is a record with these four fields and every operator here is a *)
(* pure function of it.  AgentContract composes them into whole requests;  *)
(* Agent performs them one file operation at a time.                       *)
(***************************************************************************)
EXTENDS Integers, Sequences, FiniteSets

CONSTANTS
    Hash,         \* hashes of the file sets Relay renders
    Boot,         \* BootstrapHash, the release written by boot()
    None,         \* "" : no release
    Keep,         \* releases.keep (10 in the code)
    MaxHistory    \* history.json is cut to its newest MaxHistory entries (50)

ASSUME ReleaseAssumption ==
    /\ Boot \notin Hash
    /\ None \notin Hash \cup {Boot}
    /\ Keep \in Nat
    /\ MaxHistory \in Nat \ {0}

Release == Hash \cup {Boot}

Store ==
    [ dirs    : SUBSET Release,
      current : Release \cup {None},
      history : Seq(Release),
      stopped : BOOLEAN ]

EmptyStore == [dirs |-> {}, current |-> None, history |-> <<>>, stopped |-> FALSE]

-----------------------------------------------------------------------------
(* Reading *)

Latest(S) == CHOOSE i \in S : \A j \in S : j <= i

Newest(h) == IF h = <<>> THEN None ELSE h[Len(h)]

Positions(h, r) == { i \in 1..Len(h) : h[i] = r }

\* What previous() looks back over: the entries older than the newest mention
\* of the current release that name another release still on disk.
Earlier(s) ==
    LET at == Positions(s.history, s.current)
    IN  IF at = {} THEN {}
        ELSE { j \in 1..(Latest(at) - 1) :
                 s.history[j] # s.current /\ s.history[j] \in s.dirs }

Previous(s) == IF Earlier(s) = {} THEN None ELSE s.history[Latest(Earlier(s))]

-----------------------------------------------------------------------------
(* Writing: one operator per file operation *)

Written(s, h) == [s EXCEPT !.dirs = @ \cup {h}]

\* remove() never deletes the current release or one the history names.
Removed(s, h) ==
    IF h = s.current \/ Positions(s.history, h) # {} THEN s
    ELSE [s EXCEPT !.dirs = @ \ {h}]

\* swap() also refuses a release that is not on disk.  It is never asked to
\* (Agent: CurrentPresent), so the refusal is not a branch here.
Swapped(s, h) == [s EXCEPT !.current = h]

Push(h, r) == IF Newest(h) = r THEN h ELSE Append(h, r)

Cut(h) == IF Len(h) > MaxHistory THEN SubSeq(h, Len(h) - MaxHistory + 1, Len(h)) ELSE h

\* the history activate() saves once the link points at h
Recorded(s, h) == [s EXCEPT !.history = Cut(Push(@, h))]

Pop(h, r) == IF Newest(h) = r THEN SubSeq(h, 1, Len(h) - 1) ELSE h

\* the history revert() saves: the failed entry dropped, prev on top of it
Unrecorded(s, failed, prev) ==
    [s EXCEPT !.history = IF prev = None THEN Pop(@, failed)
                          ELSE Push(Pop(@, failed), prev)]

\* the history rollback() saves: everything after prev dropped
RewoundTo(s, prev) ==
    [s EXCEPT !.history =
        IF Positions(@, prev) = {} THEN <<prev>>
        ELSE SubSeq(@, 1, Latest(Positions(@, prev)))]

\* As Kept, one release short.
KeptOneLess(s) ==
    LET h == s.history
        always == {s.current, Boot}
    IN  always \cup
        { h[i] : i \in { j \in 1..Len(h) :
            Cardinality(always \cup { h[k] : k \in (j + 1)..Len(h) }) < Keep + 1 } }

\* The releases prune() keeps: the current one, the bootstrap one and, newest
\* first, history entries until Keep + 2 are kept.
Kept(s) ==
    LET h == s.history
        always == {s.current, Boot}
    IN  always \cup
        { h[i] : i \in { j \in 1..Len(h) :
            Cardinality(always \cup { h[k] : k \in (j + 1)..Len(h) }) < Keep + 2 } }

Pruned(s) == [s EXCEPT !.dirs = @ \cap Kept(s)]

\* h without the entries outside K (a recursive function, which the prover can
\* unfold, in place of SelectSeq, which it cannot)
OnlyIn(h, K) ==
    LET kept[i \in 0..Len(h)] ==
            IF i = 0 THEN <<>>
            ELSE IF h[i] \in K THEN Append(kept[i - 1], h[i]) ELSE kept[i - 1]
    IN  kept[Len(h)]

\* the history prune() saves: entries whose directory is gone are dropped
Trimmed(s) == [s EXCEPT !.history = OnlyIn(@, s.dirs)]

Marked(s, on) == [s EXCEPT !.stopped = on]

-----------------------------------------------------------------------------
(* Whole requests: what a store becomes when nothing interrupts them *)

Activated(s, h) == Recorded(Swapped(Written(s, h), h), h)

\* activate, the marker, and prune
Applied(s, h, stop) == Trimmed(Pruned(Marked(Activated(s, h), stop)))

\* activate, then revert
Undone(s, h) == Unrecorded(Swapped(Activated(s, h), s.current), h, s.current)

RolledBack(s) == RewoundTo(Swapped(s, Previous(s)), Previous(s))
=============================================================================
