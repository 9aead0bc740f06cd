------------------------- MODULE AgentSessionProofs -------------------------
(***************************************************************************)
(* What a memory.db keeps of agent sessions is right whatever the number of *)
(* calls under way, how their steps interleave and where they die: three    *)
(* inductive invariants, one for each family of tools, over common types.   *)
(***************************************************************************)
EXTENDS AgentSession, FiniteSetTheorems, TLAPS

USE AgentSessionAssumption, LedgerAssumption

-----------------------------------------------------------------------------
(* Types.                                                                  *)

Texts     == Bodies \cup {NoBody}
Callers   == Sessions \cup {NoSession}
ReadKeys  == Files \X Sessions
ShellKeys == Commands \X Callers
Keys      == ReadKeys \cup ShellKeys

LedgerRow == [hash : Contents, base : Texts, count : Nat]
Answer    == [mode : {"none", "full", "diff", "stub", "entropy"}, keep : Texts, against : Texts]
Stations  == {"idle", "lookup", "resolve", "reply", "recorded", "detecting", "found", "polled"}
CallState ==
  [st : Stations, op : {NoCall, "read", "record", "detect", "poll"},
   key : Files \cup Commands \cup {NoCall}, s : Callers, mode : Modes,
   v : Contents \cup {NoBody}, cached : SUBSET LedgerRow, out : Answer, n : {0},
   hits : SUBSET (Keys \cup Messages), must : SUBSET Keys]
Story ==
  [seen : [ReadKeys -> SUBSET Bodies], viewed : [ReadKeys -> SUBSET Contents],
   lost : SUBSET ((Files \cup Commands \cup {NoCall}) \X Callers), answers : [Keys -> Nat],
   given : [Messages -> Nat], posted : SUBSET Messages]

\* A call is about a file, a command or nothing, according to its stage.
CallFits(x) ==
  /\ x.st \in {"lookup", "resolve", "reply"} => x.op = "read" /\ x.key \in Files /\ x.v \in Contents
  /\ x.st = "lookup" => x.s \in Sessions
  /\ x.st = "resolve" /\ x.s = NoSession => x.cached = {}
  /\ \A r, q \in x.cached : r = q
  /\ x.st = "reply" => x.out.keep = IF x.out.mode \in {"full", "diff"} THEN Prefix[x.v] ELSE NoBody
  /\ x.st = "recorded" => x.op = "record" /\ x.key \in Commands
  /\ x.st = "polled" => x.hits \subseteq Messages
  /\ x.st \in {"detecting", "found"} => x.hits \subseteq Keys

Typed ==
  /\ tree \in [Files -> Contents] /\ clock \in Nat
  /\ reads \in [DOMAIN reads -> LedgerRow] /\ DOMAIN reads \subseteq ReadKeys
  /\ shells \in [DOMAIN shells -> Nat] /\ DOMAIN shells \subseteq ShellKeys
  /\ rem \in [DOMAIN rem -> [msg : Messages, due : Nat, delivered : BOOLEAN]]
  /\ call \in [Calls -> CallState]
  /\ \A c \in Calls : CallFits(call[c])
  /\ past \in Story

LEMMA ResolveFits ==
  ASSUME NEW mode \in Modes, NEW v, NEW cached
  PROVE  /\ resolve(mode, v, cached) \in {"stub", "diff", "full", "entropy"}
         /\ resolve(mode, v, cached) = "stub" =>
              mode = "stub" \/ (mode = "auto" /\ \E r \in cached : r.hash = v)
         /\ resolve(mode, v, cached) = "diff" => \E r \in cached : r.base # NoBody
         /\ resolve(mode, v, cached) = "entropy" => mode = "entropy"
BY DEF resolve, Modes

LEMMA ServedFits ==
  ASSUME NEW how \in {"stub", "diff", "full", "entropy"}, NEW v \in Contents,
         NEW cached \in SUBSET LedgerRow, NEW out \in Served(how, v, cached)
  PROVE  /\ out \in Answer /\ out.mode # "none"
         /\ out.mode \in {"stub", "entropy"} => out.mode = how /\ out.keep = NoBody
         /\ out.mode \in {"full", "diff"} => out.keep = Prefix[v]
         /\ out.mode = "diff" => how = "diff" /\ \E r \in cached : out.against = r.base
BY DEF Served, Answer, LedgerRow, Texts

\* One call moves: its new state is all there is to check.
LEMMA CallMoves ==
  ASSUME call \in [Calls -> CallState], \A d \in Calls : CallFits(call[d]),
         NEW c \in Calls, NEW x \in CallState, CallFits(x), call' = [call EXCEPT ![c] = x]
  PROVE  call' \in [Calls -> CallState] /\ \A d \in Calls : CallFits(call'[d])
<1>1. \A d \in Calls : call'[d] = IF d = c THEN x ELSE call[d]
  OBVIOUS
<1>2. \A d \in Calls : CallFits(call'[d])
  BY <1>1
<1> QED BY <1>2

LEMMA IdleFits == Idle \in CallState /\ CallFits(Idle)
BY DEF Idle, NoOut, CallState, CallFits, Stations, Callers, Modes, Answer, Texts

LEMMA InitTyped == Init => Typed
<1> SUFFICES ASSUME Init PROVE Typed
  OBVIOUS
<1>1. past \in Story
  BY DEF Init, Story, ReadKeys, ShellKeys, Keys, Callers
<1>2. call \in [Calls -> CallState] /\ \A c \in Calls : CallFits(call[c])
  BY IdleFits DEF Init
<1> QED BY <1>1, <1>2 DEF Init, Typed

LEMMA StepTyped == Typed /\ [Next]_vars => Typed'
<1> SUFFICES ASSUME Typed, [Next]_vars PROVE Typed'
  OBVIOUS
<1> DEFINE CallsFit == call \in [Calls -> CallState] /\ \A d \in Calls : CallFits(call[d])
<1>0. /\ CallsFit /\ past \in Story
      /\ \A d \in Calls : call[d] \in CallState /\ CallFits(call[d])
  BY DEF Typed
<1>1. ASSUME NEW c \in Calls, NEW f \in Files, NEW s \in Callers, NEW mode \in Modes,
             ReadFile(c, f, s, mode)
      PROVE Typed'
  <2> DEFINE x == [Idle EXCEPT !.st = IF s = NoSession THEN "resolve" ELSE "lookup",
                     !.op = "read", !.key = f, !.s = s, !.mode = mode, !.v = tree[f]]
  <2>1. x \in CallState /\ CallFits(x)
    <3>1. tree[f] \in Contents
      BY DEF Typed
    <3>2. x \in CallState
      BY <3>1, IdleFits DEF CallState, Stations
    <3>3. CallFits(x)
      BY <3>1, s # NoSession => s \in Sessions DEF Idle, CallFits, Callers
    <3> QED BY <3>2, <3>3
  <2>2. call' = [call EXCEPT ![c] = x]
    BY <1>1 DEF ReadFile, Begin
  <2> HIDE DEF x
  <2>3. CallsFit'
    BY <2>1, <2>2, <1>0, CallMoves
  <2> QED BY <2>3, <1>0, <1>1 DEF ReadFile, Typed
<1>2. ASSUME NEW c \in Calls, Lookup(c) PROVE Typed'
  <2> DEFINE x == [call[c] EXCEPT !.st = "resolve",
                     !.cached = lookup(reads, call[c].key, call[c].s)]
  <2>1. lookup(reads, call[c].key, call[c].s) \subseteq LedgerRow
    BY DEF lookup, Typed
  <2>2. \A r, q \in lookup(reads, call[c].key, call[c].s) : r = q
    BY DEF lookup, Typed
  <2>3. x \in CallState /\ CallFits(x)
    <3>1. call[c].st = "lookup" /\ call[c] \in CallState /\ CallFits(call[c])
      BY <1>0, <1>2 DEF Lookup
    <3>2. x \in CallState
      BY <3>1, <2>1 DEF CallState, Stations
    <3>3. CallFits(x)
      BY <3>1, <2>2 DEF CallState, CallFits
    <3> QED BY <3>2, <3>3
  <2>4. call' = [call EXCEPT ![c] = x]
    BY <1>2, <1>0 DEF Lookup, CallState
  <2> HIDE DEF x
  <2>5. CallsFit'
    BY <2>3, <2>4, <1>0, CallMoves
  <2> QED BY <2>5, <1>0, <1>2 DEF Lookup, Typed
<1>3. ASSUME NEW c \in Calls, Upsert(c) PROVE Typed'
  <2> DEFINE how == resolve(call[c].mode, call[c].v, call[c].cached)
  <2>0. /\ call[c] \in CallState /\ CallFits(call[c]) /\ call[c].st = "resolve"
        /\ call[c].op = "read" /\ call[c].key \in Files /\ call[c].v \in Contents
        /\ call[c].s \in Callers /\ call[c].cached \in SUBSET LedgerRow
        /\ call[c].mode \in Modes
    BY <1>0, <1>3 DEF Upsert, CallFits, CallState
  <2>1. PICK out \in Served(how, call[c].v, call[c].cached) :
          /\ call' = [call EXCEPT ![c].st = "reply", ![c].out = out]
          /\ reads' = IF call[c].s = NoSession THEN reads
                      ELSE upsert(reads, call[c].key, call[c].s, call[c].v, out, call[c].cached)
    BY <1>3 DEF Upsert
  <2>2. how \in {"stub", "diff", "full", "entropy"}
    BY <2>0, ResolveFits
  <2>3. out \in Answer
    BY <2>0, <2>1, <2>2, ServedFits
  <2> DEFINE x == [call[c] EXCEPT !.st = "reply", !.out = out]
  <2>4. x \in CallState /\ CallFits(x)
    <3>1. x \in CallState
      BY <2>0, <2>3 DEF CallState, Stations
    <3>2. out.keep = IF out.mode \in {"full", "diff"} THEN Prefix[call[c].v] ELSE NoBody
      BY <2>0, <2>1, <2>2, ServedFits DEF Answer
    <3>3. CallFits(x)
      BY <2>0, <3>2 DEF CallState, CallFits
    <3> QED BY <3>1, <3>3
  <2>5. call' = [call EXCEPT ![c] = x]
    BY <2>1, <2>0, <1>0 DEF CallState
  <2> HIDE DEF x, how
  <2>6. CallsFit'
    BY <2>4, <2>5, <1>0, CallMoves
  <2>7. reads' \in [DOMAIN reads' -> LedgerRow] /\ DOMAIN reads' \subseteq ReadKeys
    <3>1. CASE call[c].s = NoSession
      BY <3>1, <2>1 DEF Typed
    <3>2. CASE call[c].s # NoSession
      <4> DEFINE k == <<call[c].key, call[c].s>>
      <4>1. k \in ReadKeys
        BY <2>0, <3>2 DEF ReadKeys, Callers
      <4>2. out.keep \in Texts
        BY <2>3 DEF Answer
      <4> DEFINE new == [hash |-> call[c].v,
                         base |-> IF out.keep = NoBody /\ k \in DOMAIN reads THEN reads[k].base
                                  ELSE out.keep,
                         count |-> IF k \in DOMAIN reads THEN reads[k].count + 1 ELSE 1]
      <4>3. new \in LedgerRow
        BY <4>2, <2>0 DEF LedgerRow, Typed
      <4>4. reads' = [y \in DOMAIN reads \cup {k} |-> IF y = k THEN new ELSE reads[y]]
        BY <2>1, <3>2 DEF upsert
      <4> HIDE DEF k, new
      <4> QED BY <4>1, <4>3, <4>4 DEF Typed
    <3> QED BY <3>1, <3>2
  <2>8. past' \in Story
    <3>1. CASE call[c].s # NoSession /\ call[c].mode \in {"stub", "entropy"}
      <4>1. <<call[c].key, call[c].s>> \in ReadKeys
        BY <2>0, <3>1 DEF ReadKeys, Callers
      <4>2. past' = [past EXCEPT !.viewed[<<call[c].key, call[c].s>>] = @ \cup {call[c].v}]
        BY <1>3, <3>1 DEF Upsert
      <4> QED BY <4>1, <4>2, <2>0, <1>0 DEF Story
    <3>2. CASE ~(call[c].s # NoSession /\ call[c].mode \in {"stub", "entropy"})
      BY <1>0, <1>3, <3>2 DEF Upsert
    <3> QED BY <3>1, <3>2
  <2> QED BY <2>6, <2>7, <2>8, <1>3 DEF Upsert, Typed
<1>4. ASSUME NEW c \in Calls, ReadFails(c) PROVE Typed'
  <2>1. CallsFit'
    BY <1>0, <1>4, IdleFits, CallMoves DEF ReadFails, Finish
  <2> QED BY <2>1, <1>0, <1>4 DEF ReadFails, Typed
<1>5. ASSUME NEW c \in Calls, ReadReply(c) PROVE Typed'
  <2>1. CallsFit'
    BY <1>0, <1>5, IdleFits, CallMoves DEF ReadReply, Finish
  <2>2. past' \in Story
    <3>1. CASE call[c].s = NoSession
      BY <1>0, <1>5, <3>1 DEF ReadReply
    <3>2. CASE call[c].s # NoSession
      <4> DEFINE k == <<call[c].key, call[c].s>>
                 sent == IF call[c].out.mode \in {"full", "diff"}
                           THEN past.seen[k] \cup {call[c].out.keep} ELSE past.seen[k]
      <4>1. k \in ReadKeys /\ k \in Keys
        BY <1>0, <1>5, <3>2 DEF ReadReply, CallFits, CallState, ReadKeys, Callers, Keys
      <4>2. sent \in SUBSET Bodies
        <5>1. past.seen[k] \in SUBSET Bodies
          BY <1>0, <4>1 DEF Story
        <5>2. call[c].out.mode \in {"full", "diff"} => call[c].out.keep \in Bodies
          BY <1>0, <1>5 DEF ReadReply, CallFits
        <5> HIDE DEF k
        <5> QED BY <5>1, <5>2
      <4>3. past' = [past EXCEPT !.answers[k] = @ + 1, !.seen[k] = sent]
        BY <1>0, <1>5, <3>2 DEF ReadReply, Story
      <4> HIDE DEF k, sent
      <4>4. /\ past.answers \in [Keys -> Nat] /\ past.seen \in [ReadKeys -> SUBSET Bodies]
            /\ [past.answers EXCEPT ![k] = @ + 1] \in [Keys -> Nat]
            /\ [past.seen EXCEPT ![k] = sent] \in [ReadKeys -> SUBSET Bodies]
        BY <1>0, <4>1, <4>2 DEF Story
      <4>5. past' = [past EXCEPT !.answers = [past.answers EXCEPT ![k] = @ + 1],
                                 !.seen = [past.seen EXCEPT ![k] = sent]]
        BY <4>3
      <4> QED BY <1>0, <4>4, <4>5 DEF Story
    <3> QED BY <3>1, <3>2
  <2> QED BY <2>1, <2>2, <1>5 DEF ReadReply, Typed
<1>6. ASSUME NEW c \in Calls, NEW cmd \in Commands, NEW s \in Callers, Record(c, cmd, s)
      PROVE Typed'
  <2> DEFINE x == [Idle EXCEPT !.st = "recorded", !.op = "record", !.key = cmd, !.s = s]
  <2>1. x \in CallState
    BY IdleFits DEF CallState, Stations
  <2>2. CallFits(x)
    BY DEF Idle, CallFits
  <2>3. call' = [call EXCEPT ![c] = x]
    BY <1>6 DEF Record, Begin
  <2> HIDE DEF x
  <2>4. CallsFit'
    BY <2>1, <2>2, <2>3, <1>0, CallMoves
  <2>5. shells' \in [DOMAIN shells' -> Nat] /\ DOMAIN shells' \subseteq ShellKeys
    <3>1. <<cmd, s>> \in ShellKeys
      BY DEF ShellKeys
    <3> QED BY <3>1, <1>6 DEF Record, record, Typed
  <2> QED BY <2>4, <2>5, <1>6 DEF Record, Typed
<1>7. ASSUME NEW c \in Calls, ReadBack(c) PROVE Typed'
  <2>1. CallsFit'
    BY <1>0, <1>7, IdleFits, CallMoves DEF ReadBack, Finish
  <2> DEFINE k == <<call[c].key, call[c].s>>
  <2>2. k \in Keys
    BY <1>0, <1>7 DEF ReadBack, CallFits, CallState, ShellKeys, Keys
  <2>3. past' = [past EXCEPT !.answers[k] = @ + 1]
    BY <1>7 DEF ReadBack
  <2> HIDE DEF k
  <2>4. past.answers \in [Keys -> Nat] /\ [past.answers EXCEPT ![k] = @ + 1] \in [Keys -> Nat]
    BY <1>0, <2>2 DEF Story
  <2>5. past' = [past EXCEPT !.answers = [past.answers EXCEPT ![k] = @ + 1]]
    BY <2>3
  <2>6. past' \in Story
    BY <1>0, <2>4, <2>5 DEF Story
  <2> QED BY <2>1, <2>6, <1>7 DEF ReadBack, Typed
<1>8. ASSUME NEW c \in Calls, NEW s \in Callers, Detect(c, s) PROVE Typed'
  <2> DEFINE must == {k \in DOMAIN past.answers :
                        past.answers[k] >= Threshold /\ s \in {NoSession, k[2]}}
             x == [Idle EXCEPT !.st = "detecting", !.op = "detect", !.s = s,
                     !.hits = query_reads(reads, s), !.must = must]
  <2>1. must \subseteq Keys /\ query_reads(reads, s) \subseteq Keys
    BY <1>0 DEF Story, query_reads, Keys, Typed
  <2>2. call' = [call EXCEPT ![c] = x]
    BY <1>8 DEF Detect, Begin
  <2> HIDE DEF must
  <2>3. x \in CallState
    BY <2>1, IdleFits DEF CallState, Stations
  <2>4. CallFits(x)
    BY <2>1 DEF Idle, CallFits
  <2> HIDE DEF x
  <2>5. CallsFit'
    BY <2>2, <2>3, <2>4, <1>0, CallMoves
  <2> QED BY <2>5, <1>0, <1>8 DEF Detect, Typed
<1>9. ASSUME NEW c \in Calls, DetectShells(c) PROVE Typed'
  <2> DEFINE hits == call[c].hits \cup query_shells(shells, call[c].s)
             x == [call[c] EXCEPT !.st = "found", !.hits = hits]
  <2>1. call[c].st = "detecting" /\ call[c] \in CallState /\ CallFits(call[c])
    BY <1>0, <1>9 DEF DetectShells
  <2>2. hits \subseteq Keys
    BY <2>1 DEF query_shells, Keys, Typed, CallFits
  <2>3. call' = [call EXCEPT ![c] = x]
    BY <1>9, <1>0 DEF DetectShells, CallState
  <2> HIDE DEF hits
  <2>4. x \in CallState
    BY <2>1, <2>2 DEF CallState, Stations
  <2>5. CallFits(x)
    BY <2>1, <2>2 DEF CallState, CallFits
  <2> HIDE DEF x
  <2>6. CallsFit'
    BY <2>3, <2>4, <2>5, <1>0, CallMoves
  <2> QED BY <2>6, <1>0, <1>9 DEF DetectShells, Typed
<1>10. ASSUME NEW c \in Calls, DetectReply(c) PROVE Typed'
  <2>1. CallsFit'
    BY <1>0, <1>10, IdleFits, CallMoves DEF DetectReply, Finish
  <2> QED BY <2>1, <1>0, <1>10 DEF DetectReply, Typed
<1>11. ASSUME NEW c \in Calls, NEW m \in Messages, NEW due \in 0 .. MaxClock,
              SetReminder(c, m, due)
       PROVE Typed'
  <2>1. CallsFit'
    BY <1>0, <1>11, IdleFits, CallMoves DEF SetReminder, Begin
  <2>2. past' \in Story
    BY <1>0, <1>11 DEF SetReminder, Story
  <2>3. rem' \in [DOMAIN rem' -> [msg : Messages, due : Nat, delivered : BOOLEAN]]
    BY <1>11 DEF SetReminder, remind_set, Typed
  <2> QED BY <2>1, <2>2, <2>3, <1>11 DEF SetReminder, Typed
<1>12. ASSUME NEW c \in Calls, Poll(c) PROVE Typed'
  <2> DEFINE msgs == {rem[i].msg : i \in Due(rem, clock)}
             x == [Idle EXCEPT !.st = "polled", !.op = "poll", !.hits = msgs]
  <2>1. msgs \subseteq Messages
    BY DEF Due, Typed
  <2>2. call' = [call EXCEPT ![c] = x]
    BY <1>12 DEF Poll
  <2> HIDE DEF msgs
  <2>3. x \in CallState
    BY <2>1, IdleFits DEF CallState, Stations
  <2>4. CallFits(x)
    BY <2>1 DEF Idle, CallFits
  <2> HIDE DEF x
  <2>5. CallsFit'
    BY <2>2, <2>3, <2>4, <1>0, CallMoves
  <2>6. rem' \in [DOMAIN rem' -> [msg : Messages, due : Nat, delivered : BOOLEAN]]
    BY <1>12 DEF Poll, remind_poll, Typed
  <2> QED BY <2>5, <2>6, <1>0, <1>12 DEF Poll, Typed
<1>13. ASSUME NEW c \in Calls, PollReply(c) PROVE Typed'
  <2>1. CallsFit'
    BY <1>0, <1>13, IdleFits, CallMoves DEF PollReply, Finish
  <2>2. past' \in Story
    BY <1>0, <1>13 DEF PollReply, Story
  <2> QED BY <2>1, <2>2, <1>13 DEF PollReply, Typed
<1>14. ASSUME NEW c \in Calls, NEW id \in DOMAIN rem, DeleteReminder(c, id) PROVE Typed'
  <2>1. CallsFit'
    BY <1>0, <1>14, IdleFits, CallMoves DEF DeleteReminder, Begin
  <2>2. rem' \in [DOMAIN rem' -> [msg : Messages, due : Nat, delivered : BOOLEAN]]
    BY <1>14 DEF DeleteReminder, remind_delete, Restrict, Typed
  <2> QED BY <2>1, <2>2, <1>0, <1>14 DEF DeleteReminder, Typed
<1>15. ASSUME NEW c \in Calls, Die(c) PROVE Typed'
  <2>1. CallsFit'
    BY <1>0, <1>15, IdleFits, CallMoves DEF Die, Finish
  <2>2. past' \in Story
    <3>1. <<call[c].key, call[c].s>> \in (Files \cup Commands \cup {NoCall}) \X Callers
      BY <1>0 DEF CallState
    <3> QED BY <1>0, <1>15, <3>1 DEF Die, Story
  <2> QED BY <2>1, <2>2, <1>15 DEF Die, Typed
<1>16. ASSUME NEW f \in Files, NEW v \in Contents, Edit(f, v) PROVE Typed'
  BY <1>0, <1>16 DEF Edit, Typed
<1>17. CASE Tick
  BY <1>0, <1>17 DEF Tick, Typed
<1>18. CASE UNCHANGED vars
  BY <1>0, <1>18 DEF vars, Typed
<1> QED BY <1>1, <1>2, <1>3, <1>4, <1>5, <1>6, <1>7, <1>8, <1>9, <1>10, <1>11, <1>12,
           <1>13, <1>14, <1>15, <1>16, <1>17, <1>18 DEF Next, Callers

\* Every reachable state is well typed, and a call is at a stage that fits
\* what it is about.
THEOREM AlwaysTyped == Spec => []Typed
BY InitTyped, StepTyped, PTL DEF Spec

-----------------------------------------------------------------------------
(* The invariant of the reads.                                             *)

\* Unless an answer was lost, a row's baseline is a body the session has, and
\* its hash that of a content the session has or has seen an excerpt of.
RowFits(k, r) ==
  \/ k \in past.lost
  \/ /\ r.base \in {NoBody} \cup Sent(k)
     /\ Prefix[r.hash] \in Sent(k) \/ r.hash \in past.viewed[k]

ReadInv ==
  /\ \A k \in DOMAIN reads : RowFits(k, reads[k])
  /\ \A c \in Calls : call[c].st = "resolve" =>
       \A r \in call[c].cached : RowFits(<<call[c].key, call[c].s>>, r)
  /\ \A c \in Calls : Replying(c, "diff") => call[c].out.against \in Bodies
  /\ ReadsBuildOnSent

\* What a session has been sent or shown it keeps, and an answer that is
\* under way arrives or is counted as lost.
LEMMA SentStays ==
  ASSUME Typed, [Next]_vars
  PROVE  /\ past.lost \subseteq past.lost'
         /\ \A k \in ReadKeys :
              /\ past.viewed[k] \subseteq past.viewed'[k]
              /\ \A b \in Bodies : b \in Sent(k) => k \in past.lost' \/ b \in Sent(k)'
<1> DEFINE Same == past' = past
           Carried(d, k) ==
             call[d].st = "reply" /\ call[d].op = "read" /\ <<call[d].key, call[d].s>> = k =>
               \/ call'[d] = call[d]
               \/ call[d].out.keep \in past.seen'[k] \cup {NoBody}
               \/ k \in past.lost'
           Told(k) == past.seen[k] \subseteq past.seen'[k] /\ past.viewed[k] \subseteq past.viewed'[k]
           Goal == /\ past.lost \subseteq past.lost'
                   /\ \A k \in ReadKeys : Told(k) /\ \A d \in Calls : Carried(d, k)
<1>0. past \in Story /\ call \in [Calls -> CallState] /\ \A d \in Calls : CallFits(call[d])
  BY DEF Typed
<1>1. ASSUME NEW c \in Calls, Upsert(c) PROVE Goal
  <2>1. call[c].st = "resolve" /\ \A d \in Calls : d # c => call'[d] = call[d]
    BY <1>0, <1>1 DEF Upsert
  <2>2. \A k \in ReadKeys, d \in Calls : Carried(d, k)
    BY <2>1
  <2>3. \/ Same
        \/ past' = [past EXCEPT !.viewed[<<call[c].key, call[c].s>>] = @ \cup {call[c].v}]
    BY <1>1 DEF Upsert
  <2>4. past.lost \subseteq past.lost' /\ \A k \in ReadKeys : Told(k)
    BY <2>3, <1>0 DEF Story
  <2> QED BY <2>2, <2>4
<1>2. ASSUME NEW c \in Calls, ReadReply(c) PROVE Goal
  <2> DEFINE k0 == <<call[c].key, call[c].s>>
  <2>1. call[c].st = "reply" /\ call[c].op = "read" /\ \A d \in Calls : d # c => call'[d] = call[d]
    BY <1>0, <1>2 DEF ReadReply, Finish
  <2>2. CASE call[c].s = NoSession
    <3>1. \A k \in ReadKeys : k0 # k
      BY <2>2 DEF ReadKeys
    <3>2. past' = past
      BY <1>2, <2>2 DEF ReadReply
    <3> QED BY <2>1, <3>1, <3>2
  <2>3. CASE call[c].s # NoSession
    <3> DEFINE sent == IF call[c].out.mode \in {"full", "diff"}
                         THEN past.seen[k0] \cup {call[c].out.keep} ELSE past.seen[k0]
    <3>1. past' = [past EXCEPT !.answers[k0] = @ + 1, !.seen[k0] = sent]
      BY <1>0, <1>2, <2>3 DEF ReadReply, Story
    <3>2. past'.lost = past.lost /\ past'.viewed = past.viewed
            /\ past'.seen = [past.seen EXCEPT ![k0] = sent]
      BY <3>1, <1>0 DEF Story
    <3>3. k0 \in ReadKeys
      BY <1>0, <2>1, <2>3 DEF CallFits, CallState, ReadKeys, Callers
    <3>4. past'.seen[k0] = sent /\ \A k \in ReadKeys : k # k0 => past'.seen[k] = past.seen[k]
      BY <3>2, <3>3, <1>0 DEF Story
    <3>5. call[c].out.keep \in sent \cup {NoBody}
      BY <1>0, <2>1 DEF CallFits
    <3> HIDE DEF k0, sent
    <3>6. past.seen[k0] \subseteq sent
      BY DEF sent
    <3>7. \A d \in Calls, k \in ReadKeys : Carried(d, k)
      BY <2>1, <3>4, <3>5 DEF k0
    <3> QED BY <3>2, <3>4, <3>6, <3>7
  <2> QED BY <2>2, <2>3
<1>3. ASSUME NEW c \in Calls, Die(c) PROVE Goal
  <2>1. \A d \in Calls : d # c => call'[d] = call[d]
    BY <1>0, <1>3 DEF Die, Finish
  <2>2. \/ past' = past /\ ~((call[c].st = "reply" /\ call[c].s # NoSession) \/ call[c].st = "recorded")
        \/ past' = [past EXCEPT !.lost = @ \cup {<<call[c].key, call[c].s>>}]
    BY <1>3 DEF Die
  <2>3. \A d \in Calls, k \in ReadKeys : Carried(d, k)
    BY <2>1, <2>2, <1>0 DEF ReadKeys, Story
  <2> QED BY <2>2, <2>3, <1>0 DEF Story
<1>4. ASSUME \A c \in Calls : ~Upsert(c) /\ ~ReadReply(c) /\ ~Die(c) PROVE Goal
  <2>1. past.lost = past.lost' /\ past.seen = past.seen' /\ past.viewed = past.viewed'
    BY <1>0, <1>4 DEF Next, vars, ReadFile, Lookup, ReadFails, Record, ReadBack, Detect,
         DetectShells, DetectReply, SetReminder, Poll, PollReply, DeleteReminder, Edit, Tick,
         Story
  <2>2. \A d \in Calls : call'[d] = call[d] \/ call[d].st # "reply"
    BY <1>0, <1>4 DEF Next, vars, ReadFile, Lookup, ReadFails, Record, ReadBack, Detect,
         DetectShells, DetectReply, SetReminder, Poll, PollReply, DeleteReminder, Edit, Tick,
         Begin, Finish
  <2>3. \A k \in ReadKeys, d \in Calls : Carried(d, k)
    BY <2>2
  <2>4. past.lost \subseteq past.lost' /\ \A k \in ReadKeys : Told(k)
    BY <2>1
  <2> QED BY <2>3, <2>4
<1>5. Goal
  <2> HIDE DEF Goal
  <2> QED BY <1>1, <1>2, <1>3, <1>4
<1>6. ASSUME NEW k \in ReadKeys, NEW b \in Bodies, b \in Sent(k), k \notin past.lost'
      PROVE  b \in Sent(k)'
  <2>1. CASE b \in past.seen[k]
    BY <2>1, <1>5 DEF Sent
  <2>2. CASE b \notin past.seen[k]
    <3>1. PICK d \in Calls : /\ call[d].st = "reply" /\ call[d].op = "read"
                             /\ <<call[d].key, call[d].s>> = k /\ call[d].out.keep = b
      BY <2>2, <1>6 DEF Sent
    <3>2. call'[d] = call[d] \/ b \in past.seen'[k]
      BY <3>1, <1>5, <1>6
    <3> QED BY <3>1, <3>2 DEF Sent
  <2> QED BY <2>1, <2>2
<1> QED BY <1>5, <1>6

LEMMA RowsStayFit ==
  ASSUME Typed, [Next]_vars, NEW k \in ReadKeys, NEW r \in LedgerRow, RowFits(k, r)
  PROVE  RowFits(k, r)'
<1>1. Prefix[r.hash] \in Bodies /\ r.base \in Bodies \cup {NoBody}
  BY DEF LedgerRow, Texts
<1> QED BY <1>1, SentStays DEF RowFits

\* Only two steps give a call something to answer with.
LEMMA QuietSteps ==
  ASSUME Typed, [Next]_vars, \A c \in Calls : ~Upsert(c) /\ ~Lookup(c)
  PROVE  /\ reads' = reads
         /\ \A d \in Calls : \/ call'[d] = call[d]
                             \/ call'[d].st \notin {"resolve", "reply"}
                             \/ call'[d].st = "resolve" /\ call'[d].cached = {}
<1>0. call \in [Calls -> CallState] /\ Idle.st = "idle" /\ Idle.cached = {}
  BY DEF Typed, Idle
<1>1. reads' = reads
  BY DEF Next, vars, ReadFile, ReadFails, ReadReply, Record, ReadBack, Detect,
         DetectShells, DetectReply, SetReminder, Poll, PollReply, DeleteReminder, Die, Edit, Tick
<1> DEFINE Goal == \A d \in Calls : \/ call'[d] = call[d]
                                    \/ call'[d].st \notin {"resolve", "reply"}
                                    \/ call'[d].st = "resolve" /\ call'[d].cached = {}
<1>2. ASSUME NEW c \in Calls, NEW f \in Files, NEW s \in Callers, NEW mode \in Modes,
             ReadFile(c, f, s, mode)
      PROVE Goal
  BY <1>0, <1>2 DEF ReadFile, Begin, Idle
<1>3. ASSUME NEW c \in Calls, NEW cmd \in Commands, NEW s \in Callers, Record(c, cmd, s)
      PROVE Goal
  BY <1>0, <1>3 DEF Record, Begin, Idle
<1>4. ASSUME NEW c \in Calls, NEW s \in Callers, Detect(c, s) PROVE Goal
  BY <1>0, <1>4 DEF Detect, Begin, Idle
<1>5. ASSUME NEW c \in Calls, Poll(c) PROVE Goal
  BY <1>0, <1>5 DEF Poll, Idle
<1>6. ASSUME NEW c \in Calls, DetectShells(c) PROVE Goal
  BY <1>0, <1>6 DEF DetectShells, CallState
<1>7. ASSUME NEW c \in Calls, call' = [call EXCEPT ![c] = Idle] PROVE Goal
  BY <1>0, <1>7
<1>8. ASSUME call' = call PROVE Goal
  BY <1>8
<1>9. Goal
  <2> HIDE DEF Goal
  <2> QED BY <1>2, <1>3, <1>4, <1>5, <1>6, <1>7, <1>8
        DEF Next, vars, Callers, ReadFails, ReadReply, ReadBack, DetectReply, SetReminder,
            PollReply, DeleteReminder, Die, Edit, Tick, Begin, Finish
<1> QED BY <1>1, <1>9

LEMMA InitReads == Init => ReadInv
BY DEF Init, ReadInv, ReadsBuildOnSent, DiffAppliesToSent, StubOnlyOfServed, Replying, Idle

LEMMA StepReads == Typed /\ ReadInv /\ [Next]_vars => ReadInv'
<1> SUFFICES ASSUME Typed, ReadInv, [Next]_vars PROVE ReadInv'
  OBVIOUS
<1> DEFINE Key(c) == <<call[c].key, call[c].s>>
           \* What the invariant says of a call.
           Sound(c) ==
             /\ call[c].st = "resolve" => \A r \in call[c].cached : RowFits(Key(c), r)
             /\ Replying(c, "diff") =>
                  /\ call[c].out.against \in Bodies
                  /\ Key(c) \in past.lost \/ call[c].out.against \in Sent(Key(c))
             /\ Replying(c, "stub") /\ call[c].mode = "auto" =>
                  \/ Key(c) \in past.lost
                  \/ Prefix[call[c].v] \in Sent(Key(c))
                  \/ call[c].v \in past.viewed[Key(c)]
           Rows == \A k \in DOMAIN reads : RowFits(k, reads[k])
<1>0. /\ call \in [Calls -> CallState] /\ past \in Story
      /\ \A d \in Calls : call[d] \in CallState /\ CallFits(call[d])
      /\ DOMAIN reads \subseteq ReadKeys /\ reads \in [DOMAIN reads -> LedgerRow]
  BY DEF Typed
<1>1. Rows /\ \A c \in Calls : Sound(c)
  BY DEF ReadInv, ReadsBuildOnSent, DiffAppliesToSent, StubOnlyOfServed
<1>2. ASSUME Rows', \A c \in Calls : Sound(c)' PROVE ReadInv'
  BY <1>2 DEF ReadInv, ReadsBuildOnSent, DiffAppliesToSent, StubOnlyOfServed
<1>3. ASSUME reads' = reads PROVE Rows'
  BY <1>0, <1>1, <1>3, RowsStayFit
<1>4. ASSUME NEW d \in Calls, call'[d] = call[d] PROVE Sound(d)'
  <2>1. CASE call[d].s \notin Sessions
    <3>1. call[d].s = NoSession
      BY <1>0, <2>1 DEF CallState, Callers
    <3>2. call[d].st = "resolve" => call[d].cached = {}
      BY <1>0, <3>1 DEF CallFits
    <3> QED BY <1>4, <3>1, <3>2 DEF Replying
  <2>2. CASE call[d].st \notin {"resolve", "reply"}
    BY <2>2, <1>4 DEF Replying
  <2>3. CASE call[d].s \in Sessions /\ call[d].st \in {"resolve", "reply"}
    <3>1. Key(d) \in ReadKeys /\ Key(d)' = Key(d)
      BY <1>0, <1>4, <2>3 DEF CallFits, ReadKeys
    <3>2. Sound(d) /\ call[d].cached \subseteq LedgerRow /\ Prefix[call[d].v] \in Bodies
      BY <1>0, <1>1, <2>3 DEF CallState, CallFits
    <3>3. (call[d].st = "resolve" => \A r \in call[d].cached : RowFits(Key(d), r))'
      <4> HIDE DEF Key
      <4> QED BY <1>4, <3>1, <3>2, RowsStayFit
    <3>4. /\ Key(d) \in past.lost => Key(d) \in past.lost'
          /\ past.viewed[Key(d)] \subseteq past.viewed'[Key(d)]
          /\ \A b \in Bodies : b \in Sent(Key(d)) => Key(d) \in past.lost' \/ b \in Sent(Key(d))'
      <4> HIDE DEF Key
      <4> QED BY <3>1, SentStays
    <3>5. Replying(d, "diff")' = Replying(d, "diff") /\ Replying(d, "stub")' = Replying(d, "stub")
      BY <1>4 DEF Replying
    <3> QED
      <4> HIDE DEF Key
      <4> QED BY <1>4, <3>1, <3>2, <3>3, <3>4, <3>5
  <2> QED BY <2>1, <2>2, <2>3
<1>5. CASE \A c \in Calls : ~Upsert(c) /\ ~Lookup(c)
  <2>1. \A d \in Calls : Sound(d)'
    <3>1. ASSUME NEW d \in Calls, call'[d].st \notin {"resolve", "reply"} PROVE Sound(d)'
      BY <3>1 DEF Replying
    <3>2. ASSUME NEW d \in Calls, call'[d].st = "resolve" /\ call'[d].cached = {}
          PROVE Sound(d)'
      BY <3>2 DEF Replying
    <3> HIDE DEF Sound
    <3> QED BY <1>4, <1>5, <3>1, <3>2, QuietSteps
  <2>2. reads' = reads
    BY <1>5, QuietSteps
  <2> HIDE DEF Sound, Rows
  <2> QED BY <1>2, <1>3, <2>1, <2>2
<1>6. ASSUME NEW c \in Calls, Lookup(c) PROVE ReadInv'
  <2>1. /\ reads' = reads /\ past' = past /\ call[c].st = "lookup"
        /\ \A d \in Calls : d # c => call'[d] = call[d]
        /\ call'[c] = [call[c] EXCEPT !.st = "resolve",
                         !.cached = lookup(reads, call[c].key, call[c].s)]
    BY <1>0, <1>6 DEF Lookup, CallState
  <2>2. /\ call'[c].st = "resolve" /\ call'[c].cached = lookup(reads, call[c].key, call[c].s)
        /\ call'[c].key = call[c].key /\ call'[c].s = call[c].s
    BY <1>0, <2>1 DEF CallState
  <2>3. Sound(c)'
    <3>1. ASSUME NEW r \in call'[c].cached PROVE RowFits(Key(c), r)'
      <4>1. Key(c) \in DOMAIN reads /\ r = reads[Key(c)]
        BY <2>2, <3>1 DEF lookup
      <4>2. Key(c)' = Key(c) /\ RowFits(Key(c), r) /\ Key(c) \in ReadKeys /\ r \in LedgerRow
        BY <1>0, <1>1, <2>2, <4>1
      <4> HIDE DEF Key
      <4> QED BY <4>2, RowsStayFit
    <3> QED BY <2>2, <3>1 DEF Replying
  <2> HIDE DEF Sound, Rows
  <2> QED BY <1>2, <1>3, <1>4, <2>1, <2>3
<1>7. ASSUME NEW c \in Calls, Upsert(c) PROVE ReadInv'
  <2>a. PICK old : old = call[c]
    OBVIOUS
  <2>b. PICK k : k = Key(c)
    OBVIOUS
  <2> DEFINE how == resolve(old.mode, old.v, old.cached)
  <2>0. /\ k = <<old.key, old.s>>
        /\ old \in CallState /\ CallFits(old) /\ old.st = "resolve" /\ old.op = "read"
        /\ old.key \in Files /\ old.v \in Contents /\ old.s \in Callers
        /\ old.cached \in SUBSET LedgerRow /\ old.mode \in Modes
    BY <2>a, <2>b, <1>0, <1>7 DEF Upsert, CallFits, CallState
  <2>1. PICK out \in Served(how, old.v, old.cached) :
          /\ call' = [call EXCEPT ![c].st = "reply", ![c].out = out]
          /\ reads' = IF old.s = NoSession THEN reads
                      ELSE upsert(reads, old.key, old.s, old.v, out, old.cached)
    BY <2>a, <1>7 DEF Upsert
  <2>2. how \in {"stub", "diff", "full", "entropy"}
    BY <2>0, ResolveFits
  <2>3. /\ out \in Answer /\ out.mode # "none"
        /\ out.mode \in {"stub", "entropy"} => out.mode = how /\ out.keep = NoBody
        /\ out.mode \in {"full", "diff"} => out.keep = Prefix[old.v]
        /\ out.mode = "diff" => how = "diff" /\ \E r \in old.cached : out.against = r.base
    BY <2>0, <2>1, <2>2, ServedFits
  <2>4. /\ \A d \in Calls : d # c => call'[d] = call[d]
        /\ call'[c] = [old EXCEPT !.st = "reply", !.out = out]
    BY <2>a, <1>0, <2>1
  <2>5. /\ call'[c].st = "reply" /\ call'[c].out = out /\ call'[c].op = "read"
        /\ call'[c].key = old.key /\ call'[c].s = old.s /\ call'[c].v = old.v
        /\ call'[c].mode = old.mode /\ Key(c)' = k
    BY <2>0, <2>4 DEF CallState
  <2>6. CASE old.s = NoSession
    <3>1. Sound(c)'
      BY <2>5, <2>6 DEF Replying
    <3>2. reads' = reads
      BY <2>1, <2>6
    <3> HIDE DEF Sound, Rows
    <3> QED BY <1>2, <1>3, <1>4, <2>4, <3>1, <3>2
  <2>7. CASE old.s # NoSession
    <3>1. k \in ReadKeys
      BY <2>0, <2>7 DEF ReadKeys, Callers
    <3>2. \A r \in old.cached : RowFits(k, r)'
      <4>1. \A r \in old.cached : RowFits(k, r) /\ r \in LedgerRow
        BY <2>a, <2>b, <1>1, <2>0
      <4> QED BY <3>1, <4>1, RowsStayFit
    <3>3. out.keep \in Sent(k)'
      BY <2>0, <2>5 DEF Sent
    \* What the answer leaves out is there in another form.
    <3>4. \/ k \in past.lost'
          \/ Prefix[old.v] \in Sent(k)'
          \/ old.v \in past.viewed'[k]
      <4>1. CASE out.mode \in {"full", "diff"}
        BY <2>3, <3>3, <4>1
      <4>2. CASE old.mode \in {"stub", "entropy"}
        <5>1. past' = [past EXCEPT !.viewed[k] = @ \cup {old.v}]
          BY <2>a, <2>0, <1>7, <2>7, <4>2 DEF Upsert
        <5> QED BY <1>0, <3>1, <5>1 DEF Story
      <4>3. CASE out.mode \notin {"full", "diff"} /\ old.mode \notin {"stub", "entropy"}
        <5>1. PICK r \in old.cached : r.hash = old.v
          BY <2>0, <2>3, <4>3, ResolveFits DEF Answer
        <5> QED BY <3>2, <5>1 DEF RowFits
      <4> QED BY <4>1, <4>2, <4>3
    <3>5. Sound(c)'
      <4>1. ASSUME out.mode = "diff"
            PROVE out.against \in Bodies /\ (k \in past.lost' \/ out.against \in Sent(k)')
        <5>1. PICK r \in old.cached : out.against = r.base /\ how = "diff"
          BY <2>3, <4>1
        <5>2. r.base # NoBody
          BY <2>0, <5>1, ResolveFits DEF CallFits
        <5>3. r.base \in Bodies
          BY <2>0, <5>2 DEF LedgerRow, Texts
        <5> QED BY <3>2, <5>1, <5>3 DEF RowFits
      <4> QED BY <2>5, <3>4, <4>1 DEF Replying
    <3>6. Rows'
      <4>1. ASSUME NEW q \in DOMAIN reads', q # k PROVE RowFits(q, reads[q])' /\ reads'[q] = reads[q]
        <5>1. q \in DOMAIN reads /\ reads'[q] = reads[q]
          BY <2>0, <2>1, <2>7, <4>1 DEF upsert
        <5> QED BY <1>0, <1>1, <5>1, RowsStayFit
      <4>2. /\ reads'[k].hash = old.v
            /\ reads'[k].base = IF out.keep = NoBody /\ k \in DOMAIN reads THEN reads[k].base
                                ELSE out.keep
        BY <2>0, <2>1, <2>7 DEF upsert
      <4>3. PICK new : new = reads'[k]
        OBVIOUS
      <4>4. k \in past.lost' \/ new.base \in ({NoBody} \cup Sent(k)')
        <5>1. ASSUME k \in DOMAIN reads, new.base = reads[k].base
              PROVE k \in past.lost' \/ new.base \in ({NoBody} \cup Sent(k)')
          <6>1. PICK r : r = reads[k]
            OBVIOUS
          <6>2. RowFits(k, r) /\ r \in LedgerRow
            BY <1>0, <1>1, <5>1, <6>1
          <6> QED BY <3>1, <5>1, <6>1, <6>2, RowsStayFit DEF RowFits
        <5> QED BY <3>3, <4>2, <4>3, <5>1
      <4>5. RowFits(k, new)'
        BY <3>4, <4>2, <4>3, <4>4 DEF RowFits
      <4>6. RowFits(k, reads[k])'
        BY <4>3, <4>5 DEF RowFits
      <4> QED BY <4>1, <4>6
    <3> HIDE DEF Sound, Rows
    <3> QED BY <1>2, <1>4, <2>4, <3>5, <3>6
  <2> QED BY <2>6, <2>7
<1> QED BY <1>5, <1>6, <1>7

\* Whatever stubs, excerpts, edits and other calls lie between: an answer
\* that is a diff or an outline alone builds on what the session has been
\* sent or shown, unless one of its answers was lost (read::compute).
THEOREM ReadsAlwaysBuild == Spec => []ReadsBuildOnSent
<1>1. Typed /\ ReadInv /\ [Next]_vars => (Typed /\ ReadInv)'
  BY StepTyped, StepReads
<1>2. ReadInv => ReadsBuildOnSent
  BY DEF ReadInv
<1> QED BY InitTyped, InitReads, <1>1, <1>2, PTL DEF Spec

-----------------------------------------------------------------------------
(* The invariant of the counts.                                            *)

\* The calls that have counted a read or a command and not answered yet.
Pending(k) ==
  {c \in Calls : /\ call[c].st \in {"reply", "recorded"}
                 /\ <<call[c].key, call[c].s>> = k}

CountOf(k) ==
  IF k \in DOMAIN reads THEN reads[k].count ELSE IF k \in DOMAIN shells THEN shells[k] ELSE 0

CountInv ==
  /\ \A k \in Keys : past.answers[k] + Cardinality(Pending(k)) <= CountOf(k)
  /\ \A c \in Calls : call[c].st = "detecting" =>
       \A k \in call[c].must : k \in call[c].hits \/ k \in query_shells(shells, call[c].s)
  /\ LoopsAreFound

\* One call moves: it leaves the pending calls of a key, or joins them.
LEMMA PendingMoves ==
  ASSUME Typed, NEW c \in Calls, NEW x, call' = [call EXCEPT ![c] = x], NEW k
  PROVE  /\ Cardinality(Pending(k)) \in Nat /\ Cardinality(Pending(k)') \in Nat
         /\ LET joins == x.st \in {"reply", "recorded"} /\ <<x.key, x.s>> = k IN
            /\ c \notin Pending(k) /\ joins =>
                 Cardinality(Pending(k)') = Cardinality(Pending(k)) + 1
            /\ c \notin Pending(k) /\ ~joins => Cardinality(Pending(k)') = Cardinality(Pending(k))
            /\ c \in Pending(k) /\ ~joins =>
                 Cardinality(Pending(k)') = Cardinality(Pending(k)) - 1
<1>1. \A d \in Calls : call'[d] = IF d = c THEN x ELSE call[d]
  BY DEF Typed
<1>2. IsFiniteSet(Pending(k)) /\ IsFiniteSet(Pending(k)')
  BY FS_Subset DEF Pending
<1> DEFINE joins == x.st \in {"reply", "recorded"} /\ <<x.key, x.s>> = k
<1>3. c \notin Pending(k) /\ joins => Pending(k)' = Pending(k) \cup {c}
  BY <1>1 DEF Pending
<1>4. c \notin Pending(k) /\ ~joins => Pending(k)' = Pending(k)
  BY <1>1 DEF Pending
<1>5. c \in Pending(k) /\ ~joins => Pending(k)' = Pending(k) \ {c}
  BY <1>1 DEF Pending
<1> HIDE DEF joins
<1>6. /\ Cardinality(Pending(k)) \in Nat /\ Cardinality(Pending(k)') \in Nat
      /\ c \notin Pending(k) => Cardinality(Pending(k) \cup {c}) = Cardinality(Pending(k)) + 1
      /\ c \in Pending(k) => Cardinality(Pending(k) \ {c}) = Cardinality(Pending(k)) - 1
  BY <1>2, FS_CardinalityType, FS_AddElement, FS_RemoveElement
<1> QED BY <1>3, <1>4, <1>5, <1>6 DEF joins

\* Files and commands are told apart.
LEMMA KeysApart ==
  /\ \A k \in ReadKeys : k \notin ShellKeys
  /\ \A f \in Files : \A s : <<f, s>> \in Keys => <<f, s>> \in ReadKeys
BY DEF ReadKeys, ShellKeys, Keys

LEMMA InitCounts == Init => CountInv
<1> SUFFICES ASSUME Init PROVE CountInv
  OBVIOUS
<1>1. \A k : Pending(k) = {}
  BY DEF Init, Idle, Pending
<1>2. \A k \in Keys : past.answers[k] = 0
  BY DEF Init, Keys, ReadKeys, ShellKeys, Callers
<1>3. \A k : CountOf(k) = 0
  BY DEF Init, CountOf
<1>4. \A c \in Calls : call[c].st = "idle"
  BY DEF Init, Idle
<1>5. \A k \in Keys : past.answers[k] + Cardinality(Pending(k)) <= CountOf(k)
  BY <1>1, <1>2, <1>3, FS_EmptySet
<1> QED BY <1>4, <1>5 DEF CountInv, LoopsAreFound

\* Each row counts what was answered and what is being answered.
LEMMA StepCounted ==
  ASSUME Typed, CountInv, [Next]_vars, NEW k \in Keys
  PROVE  past.answers'[k] + Cardinality(Pending(k)') <= CountOf(k)'
<1> DEFINE Goal == past.answers'[k] + Cardinality(Pending(k)') <= CountOf(k)'
           Stays == past.answers'[k] = past.answers[k] /\ CountOf(k)' >= CountOf(k)
<1>0. /\ past \in Story /\ past.answers \in [Keys -> Nat] /\ past.answers[k] \in Nat
      /\ call \in [Calls -> CallState]
      /\ \A d \in Calls : call[d] \in CallState /\ CallFits(call[d])
      /\ DOMAIN reads \subseteq ReadKeys /\ reads \in [DOMAIN reads -> LedgerRow]
      /\ DOMAIN shells \subseteq ShellKeys /\ shells \in [DOMAIN shells -> Nat]
  BY DEF Typed, Story
<1>1. CountOf(k) \in Nat /\ past.answers[k] + Cardinality(Pending(k)) <= CountOf(k)
  BY <1>0 DEF CountInv, CountOf, LedgerRow
<1>2. Cardinality(Pending(k)) \in Nat
  BY FS_Subset, FS_CardinalityType DEF Pending
<1>3. ASSUME NEW c \in Calls, NEW x, x.st \notin {"reply", "recorded"},
             call' = [call EXCEPT ![c] = x], past.answers'[k] = past.answers[k],
             reads' = reads, shells' = shells
      PROVE Goal
  <2>1. Cardinality(Pending(k)') \in Nat /\ Cardinality(Pending(k)') <= Cardinality(Pending(k))
    <3> DEFINE joins == x.st \in {"reply", "recorded"} /\ <<x.key, x.s>> = k
    <3>1. /\ ~joins /\ Cardinality(Pending(k)') \in Nat
          /\ c \notin Pending(k) /\ ~joins => Cardinality(Pending(k)') = Cardinality(Pending(k))
          /\ c \in Pending(k) /\ ~joins =>
               Cardinality(Pending(k)') = Cardinality(Pending(k)) - 1
      BY <1>3, PendingMoves
    <3> QED BY <1>2, <3>1
  <2>2. CountOf(k)' = CountOf(k)
    BY <1>3 DEF CountOf
  <2> QED BY <1>0, <1>1, <1>2, <1>3, <2>1, <2>2
<1>4. ASSUME call' = call, past' = past, reads' = reads, shells' = shells PROVE Goal
  <2>1. Pending(k)' = Pending(k) /\ CountOf(k)' = CountOf(k)
    BY <1>4 DEF Pending, CountOf
  <2> QED BY <1>1, <1>4, <2>1
<1>5. ASSUME NEW c \in Calls, Lookup(c) PROVE Goal
  <2> DEFINE x == [call[c] EXCEPT !.st = "resolve",
                     !.cached = lookup(reads, call[c].key, call[c].s)]
  <2>1. x.st = "resolve" /\ call' = [call EXCEPT ![c] = x]
    BY <1>0, <1>5 DEF Lookup, CallState
  <2> HIDE DEF x
  <2> QED BY <1>3, <1>5, <2>1 DEF Lookup
<1>6. ASSUME NEW c \in Calls, DetectShells(c) PROVE Goal
  <2> DEFINE x == [call[c] EXCEPT !.st = "found",
                     !.hits = call[c].hits \cup query_shells(shells, call[c].s)]
  <2>1. x.st = "found" /\ call' = [call EXCEPT ![c] = x]
    BY <1>0, <1>6 DEF DetectShells, CallState
  <2> HIDE DEF x
  <2> QED BY <1>3, <1>6, <2>1 DEF DetectShells
<1>7. ASSUME NEW c \in Calls, NEW f \in Files, NEW s \in Callers, NEW mode \in Modes,
             ReadFile(c, f, s, mode)
      PROVE Goal
  <2> DEFINE x == [Idle EXCEPT !.st = IF s = NoSession THEN "resolve" ELSE "lookup",
                     !.op = "read", !.key = f, !.s = s, !.mode = mode, !.v = tree[f]]
  <2>1. x.st \in {"resolve", "lookup"} /\ call' = [call EXCEPT ![c] = x]
    BY <1>7 DEF ReadFile, Begin, Idle
  <2> HIDE DEF x
  <2> QED BY <1>3, <1>7, <2>1 DEF ReadFile
<1>8. ASSUME NEW c \in Calls, NEW s \in Callers, Detect(c, s) PROVE Goal
  <2>1. PICK x : x.st = "detecting" /\ call' = [call EXCEPT ![c] = x]
    BY <1>8 DEF Detect, Begin, Idle
  <2> QED BY <1>3, <1>8, <2>1 DEF Detect
<1>9. ASSUME NEW c \in Calls, Poll(c) PROVE Goal
  <2>1. PICK x : x.st = "polled" /\ call' = [call EXCEPT ![c] = x]
    BY <1>9 DEF Poll, Idle
  <2> QED BY <1>3, <1>9, <2>1 DEF Poll
<1>10. ASSUME NEW c \in Calls, call' = [call EXCEPT ![c] = Idle],
              past.answers'[k] = past.answers[k], reads' = reads, shells' = shells
       PROVE Goal
  BY <1>3, <1>10 DEF Idle
<1>11. ASSUME NEW c \in Calls, Upsert(c) PROVE Goal
  <2>0. /\ call[c].st = "resolve" /\ c \notin Pending(k) /\ call[c].key \in Files
        /\ call[c].s \in Callers /\ past.answers' = past.answers /\ shells' = shells
    BY <1>0, <1>11 DEF Upsert, CallFits, CallState, Story, Pending
  <2>1. PICK out :
          /\ call' = [call EXCEPT ![c].st = "reply", ![c].out = out]
          /\ reads' = IF call[c].s = NoSession THEN reads
                      ELSE upsert(reads, call[c].key, call[c].s, call[c].v, out, call[c].cached)
    BY <1>11 DEF Upsert
  <2>2. PICK x : /\ call' = [call EXCEPT ![c] = x]
                 /\ x.st = "reply" /\ x.key = call[c].key /\ x.s = call[c].s
    <3> DEFINE y == [call[c] EXCEPT !.st = "reply", !.out = out]
    <3>1. call' = [call EXCEPT ![c] = y] /\ y.st = "reply" /\ y.key = call[c].key /\ y.s = call[c].s
      BY <1>0, <2>1 DEF CallState
    <3> HIDE DEF y
    <3> QED BY <3>1
  <2>3. CASE <<call[c].key, call[c].s>> = k
    <3>1. k \in ReadKeys /\ call[c].s # NoSession /\ k \notin DOMAIN shells
      BY <1>0, <2>0, <2>3, KeysApart DEF ReadKeys
    <3>2. CountOf(k)' = CountOf(k) + 1
      <4>1. k \in DOMAIN reads'
        BY <2>1, <2>3, <3>1 DEF upsert
      <4>2. reads'[k].count = IF k \in DOMAIN reads THEN reads[k].count + 1 ELSE 1
        BY <2>1, <2>3, <3>1 DEF upsert
      <4> QED BY <3>1, <4>1, <4>2 DEF CountOf
    <3>3. Cardinality(Pending(k)') = Cardinality(Pending(k)) + 1
      BY <2>0, <2>2, <2>3, PendingMoves
    <3> QED BY <1>0, <1>1, <1>2, <2>0, <3>2, <3>3
  <2>4. CASE <<call[c].key, call[c].s>> # k
    <3>1. CountOf(k)' = CountOf(k)
      BY <2>0, <2>1, <2>4 DEF CountOf, upsert
    <3>2. Cardinality(Pending(k)') = Cardinality(Pending(k))
      BY <2>0, <2>2, <2>4, PendingMoves
    <3> QED BY <1>1, <2>0, <3>1, <3>2
  <2> QED BY <2>3, <2>4
<1>12. ASSUME NEW c \in Calls, NEW cmd \in Commands, NEW s \in Callers, Record(c, cmd, s)
       PROVE Goal
  <2>1. PICK x : /\ call' = [call EXCEPT ![c] = x]
                 /\ x.st = "recorded" /\ x.key = cmd /\ x.s = s
    <3> DEFINE y == [Idle EXCEPT !.st = "recorded", !.op = "record", !.key = cmd, !.s = s]
    <3>1. call' = [call EXCEPT ![c] = y] /\ y.st = "recorded" /\ y.key = cmd /\ y.s = s
      BY <1>12 DEF Record, Begin, Idle
    <3> HIDE DEF y
    <3> QED BY <3>1
  <2>2. c \notin Pending(k) /\ past' = past /\ reads' = reads /\ shells' = record(shells, cmd, s)
    BY <1>12 DEF Record, Begin, Pending
  <2>3. CASE <<cmd, s>> = k
    <3>1. k \notin DOMAIN reads
      BY <1>0, <2>3, KeysApart DEF ShellKeys
    <3>2. CountOf(k)' = CountOf(k) + 1
      BY <1>0, <2>2, <2>3, <3>1 DEF CountOf, record
    <3>3. Cardinality(Pending(k)') = Cardinality(Pending(k)) + 1
      BY <2>1, <2>2, <2>3, PendingMoves
    <3> QED BY <1>0, <1>1, <1>2, <2>2, <3>2, <3>3
  <2>4. CASE <<cmd, s>> # k
    <3>1. CountOf(k)' = CountOf(k)
      BY <2>2, <2>4 DEF CountOf, record
    <3>2. Cardinality(Pending(k)') = Cardinality(Pending(k))
      BY <2>1, <2>2, <2>4, PendingMoves
    <3> QED BY <1>1, <2>2, <3>1, <3>2
  <2> QED BY <2>3, <2>4
\* An answer arrives: one pending call less, one answer more.
<1>13. ASSUME NEW c \in Calls, call' = [call EXCEPT ![c] = Idle], reads' = reads, shells' = shells,
              call[c].st \in {"reply", "recorded"}, NEW k0, k0 = <<call[c].key, call[c].s>>,
              k0 \in Keys, past.answers' = [past.answers EXCEPT ![k0] = @ + 1]
       PROVE Goal
  <2>1. CountOf(k)' = CountOf(k)
    BY <1>13 DEF CountOf
  <2>2. Idle.st = "idle"
    BY DEF Idle
  <2>3. CASE k = k0
    <3>1. c \in Pending(k)
      BY <1>13, <2>3 DEF Pending
    <3>2. Cardinality(Pending(k)') = Cardinality(Pending(k)) - 1
      BY <1>13, <2>2, <3>1, PendingMoves
    <3>3. past.answers'[k] = past.answers[k] + 1
      BY <1>0, <1>13, <2>3
    <3> QED BY <1>0, <1>1, <1>2, <2>1, <3>2, <3>3
  <2>4. CASE k # k0
    <3>1. past.answers'[k] = past.answers[k]
      BY <1>0, <1>13, <2>4
    <3> QED BY <1>10, <1>13, <3>1
  <2> QED BY <2>3, <2>4
<1>14. ASSUME NEW c \in Calls, ReadReply(c) PROVE Goal
  <2>1. CASE call[c].s = NoSession
    BY <1>10, <1>14, <2>1 DEF ReadReply, Finish
  <2>2. CASE call[c].s # NoSession
    <3>1. PICK k0 : k0 = <<call[c].key, call[c].s>>
      OBVIOUS
    <3>2. k0 \in Keys
      BY <1>0, <1>14, <2>2, <3>1 DEF ReadReply, CallFits, CallState, ReadKeys, Keys, Callers
    <3>3. past.answers' = [past.answers EXCEPT ![k0] = @ + 1]
      BY <1>0, <1>14, <2>2, <3>1 DEF ReadReply, Story
    <3> QED BY <1>13, <1>14, <3>1, <3>2, <3>3 DEF ReadReply, Finish
  <2> QED BY <2>1, <2>2
<1>15. ASSUME NEW c \in Calls, ReadBack(c) PROVE Goal
  <2>1. PICK k0 : k0 = <<call[c].key, call[c].s>>
    OBVIOUS
  <2>2. k0 \in Keys
    BY <1>0, <1>15, <2>1 DEF ReadBack, CallFits, CallState, ShellKeys, Keys
  <2>3. past.answers' = [past.answers EXCEPT ![k0] = @ + 1]
    BY <1>0, <1>15, <2>1 DEF ReadBack, Story
  <2> QED BY <1>13, <1>15, <2>1, <2>2, <2>3 DEF ReadBack, Finish
<1>16. ASSUME NEW c \in Calls,
              ReadFails(c) \/ DetectReply(c) \/ PollReply(c) \/ Die(c)
       PROVE Goal
  <2>1. past.answers' = past.answers
    BY <1>0, <1>16 DEF ReadFails, DetectReply, PollReply, Die, Story
  <2> QED BY <1>10, <1>16, <2>1 DEF ReadFails, DetectReply, PollReply, Die, Finish
<1>17. ASSUME NEW c \in Calls, NEW m \in Messages, NEW due, SetReminder(c, m, due) PROVE Goal
  <2>1. past.answers' = past.answers
    BY <1>0, <1>17 DEF SetReminder, Story
  <2> QED BY <1>10, <1>17, <2>1 DEF SetReminder, Begin
<1>18. ASSUME NEW c \in Calls, NEW id, DeleteReminder(c, id) PROVE Goal
  BY <1>10, <1>18 DEF DeleteReminder, Begin
<1>19. ASSUME NEW f, NEW v, Edit(f, v) PROVE Goal
  BY <1>4, <1>19 DEF Edit
<1>20. Tick \/ UNCHANGED vars => Goal
  BY <1>4 DEF Tick, vars
<1> HIDE DEF Goal
<1>21. Goal
  BY <1>5, <1>6, <1>7, <1>8, <1>9, <1>11, <1>12, <1>14, <1>15, <1>16, <1>17, <1>18, <1>19, <1>20
  DEF Next, Callers
<1> QED BY <1>21 DEF Goal

LEMMA StepCounts == Typed /\ CountInv /\ [Next]_vars => CountInv'
<1> SUFFICES ASSUME Typed, CountInv, [Next]_vars PROVE CountInv'
  OBVIOUS
<1> DEFINE Sees(d) ==
             /\ call[d].st = "detecting" =>
                  \A k \in call[d].must :
                    k \in call[d].hits \/ k \in query_shells(shells, call[d].s)
             /\ call[d].st = "found" => call[d].must \subseteq call[d].hits
<1>0. /\ past \in Story /\ past.answers \in [Keys -> Nat] /\ call \in [Calls -> CallState]
      /\ \A d \in Calls : call[d] \in CallState /\ CallFits(call[d])
      /\ DOMAIN reads \subseteq ReadKeys /\ reads \in [DOMAIN reads -> LedgerRow]
      /\ DOMAIN shells \subseteq ShellKeys /\ shells \in [DOMAIN shells -> Nat]
  BY DEF Typed, Story
<1>1. \A d \in Calls : Sees(d)
  BY DEF CountInv, LoopsAreFound
<1>2. (\A d \in Calls : Sees(d)') => CountInv'
  <2>1. ASSUME NEW k \in Keys
        PROVE past.answers'[k] + Cardinality(Pending(k)') <= CountOf(k)'
    BY <2>1, StepCounted
  <2> QED BY <2>1 DEF CountInv, LoopsAreFound
<1>3. \A k, s : k \in query_shells(shells, s) => k \in query_shells(shells, s)'
  <2>1. \/ shells' = shells
        \/ \E cmd \in Commands, s \in Callers : shells' = record(shells, cmd, s)
    BY DEF Next, vars, ReadFile, Lookup, Upsert, ReadFails, ReadReply, Record, ReadBack, Detect,
           DetectShells, DetectReply, SetReminder, Poll, PollReply, DeleteReminder, Die, Edit,
           Tick, Callers
  <2>2. ASSUME NEW k \in DOMAIN shells PROVE k \in DOMAIN shells' /\ shells'[k] >= shells[k]
                                              /\ shells[k] \in Nat /\ shells'[k] \in Nat
    <3>1. CASE shells' = shells
      BY <1>0, <2>2, <3>1
    <3>2. ASSUME NEW cmd \in Commands, NEW s \in Callers, shells' = record(shells, cmd, s)
          PROVE k \in DOMAIN shells' /\ shells'[k] \in {shells[k], shells[k] + 1}
      BY <2>2, <3>2 DEF record
    <3> QED BY <1>0, <2>1, <2>2, <3>1, <3>2
  <2> QED BY <2>2 DEF query_shells
<1>4. ASSUME NEW d \in Calls, call'[d] = call[d] \/ call'[d].st \notin {"detecting", "found"}
      PROVE Sees(d)'
  BY <1>1, <1>3, <1>4
<1>5. ASSUME NEW c \in Calls, NEW s \in Callers, Detect(c, s) PROVE CountInv'
  <2> DEFINE must == {k \in DOMAIN past.answers :
                        past.answers[k] >= Threshold /\ s \in {NoSession, k[2]}}
  <2>1. /\ call'[c].st = "detecting" /\ call'[c].s = s /\ call'[c].hits = query_reads(reads, s)
        /\ call'[c].must = must /\ shells' = shells
        /\ \A d \in Calls : d # c => call'[d] = call[d]
    BY <1>0, <1>5 DEF Detect, Begin, Idle
  \* Whoever was answered so often has a row that says so.
  <2>2. ASSUME NEW k \in must PROVE k \in query_reads(reads, s) \/ k \in query_shells(shells, s)
    <3>1. /\ k \in Keys /\ past.answers[k] \in Nat /\ past.answers[k] >= Threshold
          /\ s \in {NoSession, k[2]}
      BY <1>0
    <3>2. past.answers[k] + Cardinality(Pending(k)) <= CountOf(k)
      BY <3>1 DEF CountInv
    <3>3. Cardinality(Pending(k)) \in Nat /\ CountOf(k) \in Nat
      BY <1>0, FS_Subset, FS_CardinalityType DEF Pending, CountOf, LedgerRow
    <3>4. CountOf(k) >= Threshold /\ CountOf(k) # 0
      BY <3>1, <3>2, <3>3
    <3> HIDE DEF must
    <3> QED BY <3>1, <3>4 DEF CountOf, query_reads, query_shells
  <2>3. Sees(c)'
    BY <2>1, <2>2
  <2> HIDE DEF Sees
  <2> QED BY <1>2, <1>4, <2>1, <2>3
<1>6. ASSUME NEW c \in Calls, DetectShells(c) PROVE CountInv'
  <2>1. /\ call[c].st = "detecting" /\ call'[c].st = "found" /\ call'[c].must = call[c].must
        /\ call'[c].hits = call[c].hits \cup query_shells(shells, call[c].s)
        /\ \A d \in Calls : d # c => call'[d] = call[d]
    BY <1>0, <1>6 DEF DetectShells, CallState
  <2>2. Sees(c)'
    BY <1>1, <2>1
  <2> HIDE DEF Sees
  <2> QED BY <1>2, <1>4, <2>1, <2>2
<1>7. ASSUME \A c \in Calls : ~DetectShells(c) /\ \A s \in Callers : ~Detect(c, s)
      PROVE CountInv'
  <2> DEFINE Goal == \A d \in Calls : call'[d] = call[d] \/ call'[d].st \notin {"detecting", "found"}
  <2>1. ASSUME NEW c \in Calls, NEW x, x.st \notin {"detecting", "found"},
               call' = [call EXCEPT ![c] = x]
        PROVE Goal
    BY <1>0, <2>1
  <2>2. ASSUME NEW c \in Calls, Upsert(c) PROVE Goal
    BY <1>0, <2>2 DEF Upsert, CallState
  <2>3. ASSUME NEW c \in Calls, Lookup(c) PROVE Goal
    BY <1>0, <2>3 DEF Lookup, CallState
  <2>4. ASSUME NEW c \in Calls, NEW f, NEW s, NEW mode, ReadFile(c, f, s, mode) PROVE Goal
    BY <1>0, <2>4 DEF ReadFile, Begin, Idle
  <2>5. ASSUME NEW c \in Calls, NEW cmd, NEW s, Record(c, cmd, s) PROVE Goal
    BY <1>0, <2>5 DEF Record, Begin, Idle
  <2>6. ASSUME NEW c \in Calls, Poll(c) PROVE Goal
    BY <1>0, <2>6 DEF Poll, Idle
  <2>7. ASSUME call' = call PROVE Goal
    BY <2>7
  <2>8. Idle.st = "idle"
    BY DEF Idle
  <2>9. Goal
    <3> HIDE DEF Goal
    <3> QED BY <1>7, <2>1, <2>2, <2>3, <2>4, <2>5, <2>6, <2>7, <2>8
        DEF Next, vars, Callers, ReadFails, ReadReply, ReadBack, DetectReply, SetReminder,
            PollReply, DeleteReminder, Die, Edit, Tick, Begin, Finish
  <2> HIDE DEF Sees
  <2> QED BY <1>2, <1>4, <2>9
<1> QED BY <1>5, <1>6, <1>7

\* loop check names every read and every command that had been answered
\* Threshold times when it began, however many calls of however many
\* processes overlap with it (crabcc loop, query_reads and query_shells).
THEOREM LoopsAlwaysFound == Spec => []LoopsAreFound
<1>1. Typed /\ CountInv /\ [Next]_vars => (Typed /\ CountInv)'
  BY StepTyped, StepCounts
<1>2. CountInv => LoopsAreFound
  BY DEF CountInv
<1> QED BY InitTyped, InitCounts, <1>1, <1>2, PTL DEF Spec

-----------------------------------------------------------------------------
(* The invariant of the reminders.                                         *)

Pollers(m) == {c \in Calls : call[c].st = "polled" /\ m \in call[c].hits}

\* A message is claimed once and then given once.
Claimed(m) ==
  /\ \A i \in DOMAIN rem : rem[i].msg = m /\ ~rem[i].delivered =>
       past.given[m] = 0 /\ Pollers(m) = {}
  /\ \A c, d \in Pollers(m) : c = d
  /\ past.given[m] \in {0, 1}
  /\ past.given[m] = 1 => Pollers(m) = {}
  /\ past.given[m] = 1 \/ Pollers(m) # {} => m \in past.posted

MessageInv ==
  /\ \A m \in Messages : Claimed(m)
  /\ \A i, j \in DOMAIN rem : rem[i].msg = rem[j].msg => i = j
  /\ \A i \in DOMAIN rem : rem[i].msg \in past.posted

LEMMA InitMessages == Init => MessageInv
BY DEF Init, MessageInv, Claimed, Pollers, Idle

LEMMA StepMessages == Typed /\ MessageInv /\ [Next]_vars => MessageInv'
<1> SUFFICES ASSUME Typed, MessageInv, [Next]_vars PROVE MessageInv'
  OBVIOUS
<1>0. /\ past \in Story /\ past.given \in [Messages -> Nat] /\ call \in [Calls -> CallState]
      /\ \A d \in Calls : call[d] \in CallState /\ CallFits(call[d])
      /\ rem \in [DOMAIN rem -> [msg : Messages, due : Nat, delivered : BOOLEAN]]
      /\ Idle.st = "idle"
  BY DEF Typed, Story, Idle
<1>1. /\ \A m \in Messages : Claimed(m)
      /\ \A i, j \in DOMAIN rem : rem[i].msg = rem[j].msg => i = j
      /\ \A i \in DOMAIN rem : rem[i].msg \in past.posted
  BY DEF MessageInv
<1>2. ASSUME NEW m \in Messages, Pollers(m)' = Pollers(m), past'.given = past.given,
             past.posted \subseteq past'.posted,
             \A i \in DOMAIN rem' :
               rem'[i].msg = m /\ ~rem'[i].delivered => i \in DOMAIN rem /\ rem'[i] = rem[i]
      PROVE Claimed(m)'
  BY <1>1, <1>2 DEF Claimed
<1>3. ASSUME NEW m \in Messages,
             \A d \in Calls : call'[d] = call[d] \/ (call[d].st # "polled" /\ call'[d].st # "polled")
      PROVE Pollers(m)' = Pollers(m)
  BY <1>3 DEF Pollers
<1>4. ASSUME NEW c \in Calls, NEW m \in Messages, NEW due, SetReminder(c, m, due)
      PROVE MessageInv'
  <2>1. ASSUME NEW q \in Messages PROVE Pollers(q)' = Pollers(q)
    BY <1>0, <1>3, <1>4 DEF SetReminder, Begin
  <2>2. past'.given = past.given /\ past'.posted = past.posted \cup {m} /\ m \notin past.posted
    BY <1>0, <1>4 DEF SetReminder, Story
  <2>3. PICK id : /\ DOMAIN rem' = DOMAIN rem \cup {id}
                  /\ rem'[id].msg = m
                  /\ \A i \in DOMAIN rem \ {id} : rem'[i] = rem[i]
    <3>1. PICK id : rem' = [i \in DOMAIN rem \cup {id} |->
                              IF i = id THEN [msg |-> m, due |-> due, delivered |-> FALSE]
                              ELSE rem[i]]
      <4> DEFINE new == IF DOMAIN rem = {} THEN 1
                        ELSE 1 + CHOOSE i \in DOMAIN rem : \A j \in DOMAIN rem : j <= i
      <4>1. rem' = [i \in DOMAIN rem \cup {new} |->
                      IF i = new THEN [msg |-> m, due |-> due, delivered |-> FALSE] ELSE rem[i]]
        BY <1>4 DEF SetReminder, remind_set
      <4> HIDE DEF new
      <4> QED BY <4>1
    <3> QED BY <3>1
  <2>4. \A i \in DOMAIN rem \ {id} : rem[i].msg # m
    BY <1>1, <2>2
  <2>5. past.given[m] = 0 /\ Pollers(m) = {}
    BY <1>1, <2>2 DEF Claimed
  <2>6. /\ \A i, j \in DOMAIN rem' : rem'[i].msg = rem'[j].msg => i = j
        /\ \A i \in DOMAIN rem' : rem'[i].msg \in past'.posted
    BY <1>1, <2>2, <2>3, <2>4
  <2>7. ASSUME NEW q \in Messages PROVE Claimed(q)'
    <3>1. CASE q = m
      BY <2>1, <2>2, <2>5, <3>1 DEF Claimed
    <3>2. CASE q # m
      BY <1>2, <2>1, <2>2, <2>3, <3>2
    <3> QED BY <3>1, <3>2
  <2> QED BY <2>6, <2>7 DEF MessageInv
<1>5. ASSUME NEW c \in Calls, Poll(c) PROVE MessageInv'
  <2> DEFINE msgs == {rem[i].msg : i \in Due(rem, clock)}
  <2>1. /\ call[c].st = "idle" /\ call'[c].st = "polled" /\ call'[c].hits = msgs
        /\ \A d \in Calls : d # c => call'[d] = call[d]
        /\ past' = past
    BY <1>0, <1>5 DEF Poll, Idle
  <2>2. /\ DOMAIN rem' = DOMAIN rem
        /\ \A i \in DOMAIN rem : /\ rem'[i].msg = rem[i].msg
                                 /\ ~rem'[i].delivered => i \notin Due(rem, clock) /\ rem'[i] = rem[i]
    BY <1>0, <1>5 DEF Poll, remind_poll
  \* A message that is claimed now was claimed by nobody.
  <2>3. ASSUME NEW m \in Messages, m \in msgs PROVE Claimed(m)'
    <3>1. PICK j \in DOMAIN rem : rem[j].msg = m /\ j \in Due(rem, clock) /\ ~rem[j].delivered
      BY <2>3 DEF Due
    <3>2. m \in past.posted /\ past.given[m] = 0 /\ Pollers(m) = {}
      BY <1>1, <3>1 DEF Claimed
    <3>3. Pollers(m)' = {c}
      BY <2>1, <2>3, <3>2 DEF Pollers
    <3>4. \A i \in DOMAIN rem' : rem'[i].msg = m => rem'[i].delivered
      BY <1>1, <2>2, <3>1
    <3> QED BY <2>1, <3>2, <3>3, <3>4 DEF Claimed
  <2>4. ASSUME NEW m \in Messages, m \notin msgs PROVE Claimed(m)'
    <3>1. Pollers(m)' = Pollers(m)
      BY <2>1, <2>4 DEF Pollers
    <3> QED BY <1>2, <2>1, <2>2, <3>1
  <2>5. /\ \A i, j \in DOMAIN rem' : rem'[i].msg = rem'[j].msg => i = j
        /\ \A i \in DOMAIN rem' : rem'[i].msg \in past'.posted
    BY <1>1, <2>1, <2>2
  <2> QED BY <2>3, <2>4, <2>5 DEF MessageInv
\* The claim ends: with the message given, or with the caller.
<1>6. ASSUME NEW c \in Calls, call[c].st = "polled", call' = [call EXCEPT ![c] = Idle], rem' = rem,
             past'.posted = past.posted,
             \/ past'.given = past.given
             \/ \A m \in Messages :
                  past'.given[m] = IF m \in call[c].hits THEN past.given[m] + 1 ELSE past.given[m]
      PROVE MessageInv'
  <2>1. ASSUME NEW m \in Messages PROVE Claimed(m)'
    <3>1. Pollers(m)' = Pollers(m) \ {c}
      BY <1>0, <1>6 DEF Pollers
    <3>2. \/ past'.given[m] = past.given[m]
          \/ c \in Pollers(m) /\ past'.given[m] = past.given[m] + 1
      BY <1>6 DEF Pollers
    <3> QED BY <1>1, <1>6, <3>1, <3>2 DEF Claimed
  <2> QED BY <1>1, <1>6, <2>1 DEF MessageInv
<1>7. ASSUME NEW c \in Calls, PollReply(c) PROVE MessageInv'
  <2>1. /\ past'.posted = past.posted
        /\ \A m \in Messages :
             past'.given[m] = IF m \in call[c].hits THEN past.given[m] + 1 ELSE past.given[m]
    BY <1>0, <1>7 DEF PollReply, Story
  <2> QED BY <1>6, <1>7, <2>1 DEF PollReply, Finish
\* Every other step leaves the claims and the messages alone.
<1>8. ASSUME \A d \in Calls : call'[d] = call[d] \/ (call[d].st # "polled" /\ call'[d].st # "polled"),
             past'.given = past.given, past'.posted = past.posted,
             DOMAIN rem' \subseteq DOMAIN rem, \A i \in DOMAIN rem' : rem'[i] = rem[i]
      PROVE MessageInv'
  <2>1. ASSUME NEW m \in Messages PROVE Claimed(m)'
    BY <1>2, <1>3, <1>8
  <2> QED BY <1>1, <1>8, <2>1 DEF MessageInv
<1>9. ASSUME NEW c \in Calls, Die(c) PROVE MessageInv'
  <2>1. past'.posted = past.posted /\ past'.given = past.given
    BY <1>0, <1>9 DEF Die, Story
  <2>2. CASE call[c].st = "polled"
    BY <1>6, <1>9, <2>1, <2>2 DEF Die, Finish
  <2>3. CASE call[c].st # "polled"
    BY <1>0, <1>8, <1>9, <2>1, <2>3 DEF Die, Finish
  <2> QED BY <2>2, <2>3
<1>10. ASSUME NEW c \in Calls, NEW id \in DOMAIN rem, DeleteReminder(c, id) PROVE MessageInv'
  <2>1. DOMAIN rem' \subseteq DOMAIN rem /\ \A i \in DOMAIN rem' : rem'[i] = rem[i]
    BY <1>10 DEF DeleteReminder, remind_delete, Restrict
  <2> QED BY <1>0, <1>8, <1>10, <2>1 DEF DeleteReminder, Begin
<1>11. ASSUME \A c \in Calls : /\ ~Poll(c) /\ ~PollReply(c) /\ ~Die(c)
                               /\ \A m \in Messages, due \in 0 .. MaxClock : ~SetReminder(c, m, due)
                               /\ \A id \in DOMAIN rem : ~DeleteReminder(c, id)
       PROVE MessageInv'
  <2> DEFINE Calm(d) == call'[d] = call[d] \/ (call[d].st # "polled" /\ call'[d].st # "polled")
             Goal == \A d \in Calls : Calm(d)
  <2>1. rem' = rem
    BY <1>11 DEF Next, vars, ReadFile, Lookup, Upsert, ReadFails, ReadReply, Record, ReadBack,
         Detect, DetectShells, DetectReply, Edit, Tick
  <2>2. ASSUME NEW c \in Calls, Upsert(c) PROVE Goal
    BY <1>0, <2>2 DEF Upsert, CallState
  <2>3. ASSUME NEW c \in Calls, Lookup(c) PROVE Goal
    BY <1>0, <2>3 DEF Lookup, CallState
  <2>4. ASSUME NEW c \in Calls, NEW f, NEW s, NEW mode, ReadFile(c, f, s, mode) PROVE Goal
    BY <1>0, <2>4 DEF ReadFile, Begin, Idle
  <2>5. ASSUME NEW c \in Calls, NEW cmd, NEW s, Record(c, cmd, s) PROVE Goal
    BY <1>0, <2>5 DEF Record, Begin, Idle
  <2>6. ASSUME NEW c \in Calls, NEW s, Detect(c, s) PROVE Goal
    BY <1>0, <2>6 DEF Detect, Begin, Idle
  <2>7. ASSUME NEW c \in Calls, DetectShells(c) PROVE Goal
    BY <1>0, <2>7 DEF DetectShells, CallState
  <2>8. ASSUME call' = call PROVE Goal
    BY <2>8
  <2>9. ASSUME NEW c \in Calls, ReadFails(c) \/ ReadReply(c) \/ ReadBack(c) \/ DetectReply(c)
        PROVE Goal
    BY <1>0, <2>9 DEF ReadFails, ReadReply, ReadBack, DetectReply, Finish
  <2>10. Goal
    <3> HIDE DEF Goal
    <3> QED BY <1>11, <2>2, <2>3, <2>4, <2>5, <2>6, <2>7, <2>8, <2>9 DEF Next, vars, Edit, Tick
  <2>11. past'.posted = past.posted /\ past'.given = past.given
    <3>1. ASSUME NEW c \in Calls, Upsert(c) \/ ReadReply(c) \/ ReadBack(c)
          PROVE past'.posted = past.posted /\ past'.given = past.given
      BY <1>0, <3>1 DEF Upsert, ReadReply, ReadBack, Story
    <3>2. \/ \E c \in Calls : Upsert(c) \/ ReadReply(c) \/ ReadBack(c)
          \/ past' = past
      BY <1>11 DEF Next, vars, ReadFile, Lookup, ReadFails, Record, Detect, DetectShells,
                   DetectReply, Edit, Tick
    <3> QED BY <3>1, <3>2
  <2> QED BY <1>8, <2>1, <2>10, <2>11
<1> QED
  <2>1. CASE \E c \in Calls, m \in Messages, due \in 0 .. MaxClock : SetReminder(c, m, due)
    BY <1>4, <2>1
  <2>2. CASE \E c \in Calls, id \in DOMAIN rem : DeleteReminder(c, id)
    BY <1>10, <2>2
  <2> QED BY <1>5, <1>7, <1>9, <1>11, <2>1, <2>2

\* A message is delivered to one poller at most, counting the answers under
\* way, whoever polls and dies and whatever ids are handed out again
\* ("each due reminder is claimed by exactly one caller").
THEOREM AlwaysDeliveredOnce == Spec => []DeliveredOnce
<1>1. Typed /\ MessageInv /\ [Next]_vars => (Typed /\ MessageInv)'
  BY StepTyped, StepMessages
<1>2. Typed /\ MessageInv => DeliveredOnce
  <2> SUFFICES ASSUME Typed, MessageInv, NEW m \in Messages
               PROVE past.given[m] + Cardinality(Pollers(m)) <= 1
    BY DEF DeliveredOnce, Pollers
  <2>1. CASE Pollers(m) = {}
    BY <2>1, FS_EmptySet DEF MessageInv, Claimed
  <2>2. CASE Pollers(m) # {}
    <3>1. PICK c : c \in Pollers(m)
      BY <2>2
    <3>2. Pollers(m) = {c} /\ past.given[m] = 0
      BY <2>2, <3>1 DEF MessageInv, Claimed
    <3>3. Cardinality(Pollers(m)) = 1
      BY <3>2, FS_Singleton
    <3> QED BY <3>2, <3>3
  <2> QED BY <2>1, <2>2
<1> QED BY InitTyped, InitMessages, <1>1, <1>2, PTL DEF Spec
=============================================================================
