---------------------------- MODULE AgentLoopProofs ----------------------------
(***************************************************************************)
(* The agent loop, for any tools, budgets, windows and number of runs:      *)
(* requests pair calls and results, a pause keeps its call, and a goal      *)
(* concludes checked.                                                       *)
(***************************************************************************)
EXTENDS AgentLoop, SequenceTheorems, WellFoundedInduction, TLAPS

-----------------------------------------------------------------------------
(* The inductive invariant.                                                  *)

IsCall(m) == m.role = "assistant" /\ m.about \in Actions

\* Calls and results pair up, but for a call at the end.
Paired(s) ==
    \A i \in 1..Len(s) :
        /\ IsCall(s[i]) /\ i < Len(s) => s[i + 1] = Result(s[i].about)
        /\ s[i].role = "tool" => i > 1 /\ s[i - 1] = Call(s[i].about)

\* No call is open at the end.
Answered(s) == Len(s) > 0 /\ ~IsCall(s[Len(s)])

\* What is stored for the next run, and what a pause left in it.
StoredInv ==
    /\ ~interrupted => Paired(stored)
    /\ run.outcome = "paused" =>
         runs \in 1..MaxRuns /\ Pending(stored) = <<approvals[runs].action>>

\* The transcript of the run under way, by the step it is at.
TranscriptInv ==
    run.pc # "idle" =>
        /\ run.base <= Len(run.messages) /\ Len(run.messages) > 0
        /\ run.attached => run.base < Len(run.messages)
        /\ ~interrupted => Paired(Transcript(run))
        /\ run.pc # "execute" => Answered(run.messages)
        /\ run.pc = "execute" => run.messages[Len(run.messages)] = Call(Head(run.batch))

\* The run's budgets, and what it takes for verified.
RunInv ==
    run.pc # "idle" =>
        /\ runs > 0 /\ run.outcome = "none"
        /\ run.pc \in {"call", "execute"} => run.batch # <<>>
        /\ run.pc = "call" => run.calls + Len(run.batch) <= MaxToolCalls
        /\ run.pc = "execute" => run.calls + Len(run.batch) <= MaxToolCalls + 1
        /\ run.verified => check \in {"passed", "red", "guarded"}

LoopInv == TypeOK /\ StoredInv /\ TranscriptInv /\ RunInv

-----------------------------------------------------------------------------
(* Messages.                                                                 *)

LEMMA MessageFacts ==
    /\ \A about \in {"task", "gate", "context", "summary"} :
         User(about) \in Message /\ User(about).role = "user" /\ ~IsCall(User(about))
    /\ Text \in Message /\ Text.role = "assistant" /\ ~IsCall(Text)
    /\ \A a \in Actions :
         /\ Call(a) \in Message /\ Call(a).role = "assistant" /\ Call(a).about = a /\ IsCall(Call(a))
         /\ Result(a) \in Message /\ Result(a).role = "tool" /\ Result(a).about = a
         /\ ~IsCall(Result(a))
    /\ \A m \in Message : IsCall(m) => m.about \in Actions /\ m = Call(m.about) /\ m.role # "tool"
<1>1. "text" \notin Actions
  BY AgentAssumption
<1>2. \A about \in {"task", "gate", "context", "summary"} :
         User(about) \in Message /\ User(about).role = "user" /\ ~IsCall(User(about))
  BY DEF User, Message, IsCall
<1>3. Text \in Message /\ Text.role = "assistant" /\ ~IsCall(Text)
  BY <1>1 DEF Text, Message, IsCall
<1>4. \A a \in Actions :
         /\ Call(a) \in Message /\ Call(a).role = "assistant" /\ Call(a).about = a /\ IsCall(Call(a))
         /\ Result(a) \in Message /\ Result(a).role = "tool" /\ Result(a).about = a
         /\ ~IsCall(Result(a))
  BY DEF Call, Result, Message, IsCall
<1>5. \A m \in Message : IsCall(m) => m.about \in Actions /\ m = Call(m.about) /\ m.role # "tool"
  BY DEF Message, IsCall, Call
<1> QED BY <1>2, <1>3, <1>4, <1>5

LEMMA PendingFacts ==
    ASSUME NEW h \in Seq(Message)
    PROVE  \/ Pending(h) = <<>> /\ (Len(h) = 0 \/ Answered(h))
           \/ /\ Len(h) > 0 /\ IsCall(h[Len(h)]) /\ h[Len(h)].about \in Actions
              /\ h[Len(h)] = Call(h[Len(h)].about)
              /\ Pending(h) = <<h[Len(h)].about>> /\ Pending(h) # <<>>
<1>1. CASE h = <<>>
  BY <1>1 DEF Pending
<1>2. CASE h # <<>>
  <2>1. Len(h) \in Nat /\ Len(h) > 0 /\ h[Len(h)] \in Message /\ Last(h) = h[Len(h)]
    BY <1>2 DEF Last
  <2>2. CASE IsCall(h[Len(h)])
    BY <1>2, <2>1, <2>2, MessageFacts DEF Pending, IsCall
  <2>3. CASE ~IsCall(h[Len(h)])
    BY <1>2, <2>1, <2>3 DEF Pending, IsCall, Answered
  <2> QED BY <2>2, <2>3
<1> QED BY <1>1, <1>2

\* Sequences that end alike have the same call open.
LEMMA PendingOfEnd ==
    ASSUME NEW g \in Seq(Message), NEW h \in Seq(Message), Len(g) > 0, Len(h) > 0,
           g[Len(g)] = h[Len(h)]
    PROVE  Pending(g) = Pending(h)
<1>1. g # <<>> /\ h # <<>> /\ Last(g) = Last(h)
  BY DEF Last
<1> QED BY <1>1 DEF Pending

LEMMA Appended ==
    ASSUME NEW s \in Seq(Message), NEW x \in Message
    PROVE  /\ Append(s, x) \in Seq(Message) /\ Len(s) \in Nat /\ Len(Append(s, x)) = Len(s) + 1
           /\ \A i \in 1..Len(s) : Append(s, x)[i] = s[i]
           /\ Append(s, x)[Len(s) + 1] = x
  OBVIOUS

\* A message that is no result goes after no open call, a result after its call.
LEMMA AppendPaired ==
    ASSUME NEW s \in Seq(Message), NEW x \in Message, Paired(s),
           \/ x.role # "tool" /\ (Len(s) = 0 \/ Answered(s))
           \/ Len(s) > 0 /\ s[Len(s)] = Call(x.about) /\ x = Result(x.about) /\ x.about \in Actions
    PROVE  Paired(Append(s, x))
<1> DEFINE t == Append(s, x)
           n == Len(s)
<1>1. /\ t \in Seq(Message) /\ n \in Nat /\ Len(t) = n + 1
      /\ \A i \in 1..n : t[i] = s[i]
      /\ t[n + 1] = x
  BY Appended
<1> HIDE DEF t
<1>2. ASSUME NEW i \in 1..(n + 1), IsCall(t[i]), i < n + 1
      PROVE  t[i + 1] = Result(t[i].about)
  <2>1. i \in 1..n /\ t[i] = s[i] /\ IsCall(s[i])
    BY <1>1, <1>2
  <2>2. CASE i < n
    <3>1. i + 1 \in 1..n /\ t[i + 1] = s[i + 1]
      BY <1>1, <2>1, <2>2
    <3> QED BY <2>1, <2>2, <3>1 DEF Paired
  <2>3. CASE i = n
    <3>1. ~Answered(s) /\ n > 0
      BY <1>1, <2>1, <2>3 DEF Answered
    <3>2. s[n] = Call(x.about) /\ x = Result(x.about) /\ x.about \in Actions
      BY <1>1, <3>1
    <3> QED BY <1>1, <2>1, <2>3, <3>2, MessageFacts
  <2> QED BY <1>1, <2>1, <2>2, <2>3
<1>3. ASSUME NEW i \in 1..(n + 1), t[i].role = "tool"
      PROVE  i > 1 /\ t[i - 1] = Call(t[i].about)
  <2>1. CASE i \in 1..n
    <3>1. i > 1 /\ s[i - 1] = Call(s[i].about)
      BY <1>1, <1>3, <2>1 DEF Paired
    <3>2. i - 1 \in 1..n
      BY <1>1, <2>1, <3>1
    <3> QED BY <1>1, <2>1, <3>1, <3>2
  <2>2. CASE i = n + 1
    <3>1. n > 0 /\ s[n] = Call(x.about) /\ x.about \in Actions
      BY <1>1, <1>3, <2>2
    <3>2. i > 1 /\ i - 1 = n /\ n \in 1..n
      BY <1>1, <2>2, <3>1
    <3> QED BY <1>1, <2>2, <3>1, <3>2
  <2> QED BY <1>1, <2>1, <2>2
<1> QED BY <1>1, <1>2, <1>3 DEF Paired, t

LEMMA AppendAnswers ==
    ASSUME NEW s \in Seq(Message), NEW x \in Message, ~IsCall(x)
    PROVE  Answered(Append(s, x))
BY Appended DEF Answered

-----------------------------------------------------------------------------
(* Least and greatest positions, and where a history is cut.                 *)

LEMMA HasLeast ==
    ASSUME NEW S \in SUBSET Nat, S # {}
    PROVE  \E n \in S : \A m \in S : n <= m
<1> DEFINE R == OpToRel(<, Nat)
<1>1. R = {pair \in Nat \X Nat : pair[1] < pair[2]}
  BY DEF OpToRel
<1>2. IsWellFoundedOn(R, Nat)
  BY NatLessThanWellFounded
<1> HIDE DEF R
<1>3. PICK n \in S : \A m \in S : <<m, n>> \notin R
  BY <1>2, WFMin
<1>4. \A m \in S : ~(m < n)
  BY <1>1, <1>3
<1> QED BY <1>3, <1>4

LEMMA LeastOf ==
    ASSUME NEW S \in SUBSET Nat, S # {}
    PROVE  Min(S) \in S
BY HasLeast DEF Min

LEMMA GreatestOf ==
    ASSUME NEW n \in Nat, NEW S \in SUBSET (1..n), S # {}
    PROVE  Max(S) \in S
<1> DEFINE T == {m \in Nat : n - m \in S}
<1>1. \A i \in S : n - i \in T /\ n - (n - i) = i
  OBVIOUS
<1>2. T \in SUBSET Nat /\ T # {}
  BY <1>1
<1>3. PICK m \in T : \A t \in T : m <= t
  <2> HIDE DEF T
  <2> QED BY <1>2, HasLeast
<1>4. n - m \in S /\ m \in Nat
  BY <1>3
<1>5. ASSUME NEW j \in S PROVE n - m >= j
  <2>1. m <= n - j
    BY <1>1, <1>3
  <2> QED BY <1>4, <2>1
<1> HIDE DEF T
<1> QED BY <1>4, <1>5 DEF Max

LEMMA CutFacts ==
    ASSUME NEW h \in Seq(Message), Len(h) > 2 * Window, CutAt(h) # 1
    PROVE  CutAt(h) \in 2..Len(h) /\ h[CutAt(h)].role # "tool"
<1> DEFINE users == {i \in DOMAIN h : h[i].role = "user"}
           tails == {i \in users : Cardinality({j \in users : j >= i}) = Window}
           turn == IF tails = {} THEN 1 ELSE Max(tails)
           first == IF turn = 1 THEN Len(h) - 2 * Window + 1 ELSE turn
           kept == {i \in first..Len(h) : h[i].role # "tool"}
<1>1. CutAt(h) = IF kept = {} THEN 1 ELSE Min(kept)
  BY DEF CutAt
<1>2. Len(h) \in Nat /\ DOMAIN h = 1..Len(h) /\ Window \in Nat /\ tails \subseteq 1..Len(h)
  BY AgentAssumption
<1> HIDE DEF tails
<1>3. turn \in Nat /\ turn >= 1
  <2>1. CASE tails = {}
    BY <2>1
  <2>2. CASE tails # {}
    <3>1. Max(tails) \in tails
      BY <1>2, <2>2, GreatestOf
    <3>2. Max(tails) \in 1..Len(h) /\ turn = Max(tails)
      BY <1>2, <2>2, <3>1
    <3> HIDE DEF turn
    <3> QED BY <1>2, <3>2
  <2> QED BY <2>1, <2>2
<1> HIDE DEF turn
<1>4. first \in Nat /\ first >= 1
  <2>1. CASE turn = 1
    BY <1>2, <2>1
  <2>2. CASE turn # 1
    BY <1>3, <2>2
  <2> QED BY <2>1, <2>2
<1> HIDE DEF first
<1>5. kept # {} /\ kept \in SUBSET Nat /\ kept \subseteq 1..Len(h)
  BY <1>1, <1>2, <1>4
<1>6. Min(kept) \in kept
  <2> HIDE DEF kept
  <2> QED BY <1>5, LeastOf
<1> QED BY <1>1, <1>2, <1>4, <1>5, <1>6

LEMMA CompactedFacts ==
    ASSUME NEW h \in Seq(Message)
    PROVE  /\ Compacted(h) \in Seq(Message)
           /\ Pending(Compacted(h)) = Pending(h)
           /\ Paired(h) => Paired(Compacted(h))
<1> DEFINE c == CutAt(h)
           n == Len(h)
           head == <<User("summary"), Text>>
           tail == SubSeq(h, c, n)
<1>1. CASE Len(h) <= 2 * Window \/ CutAt(h) = 1
  BY <1>1 DEF Compacted
<1>2. CASE ~(Len(h) <= 2 * Window \/ CutAt(h) = 1)
  <2>1. Compacted(h) = head \o tail
    BY <1>2 DEF Compacted
  <2>2. n \in Nat /\ Window \in Nat
    BY AgentAssumption
  <2>3. c \in 2..n /\ h[c].role # "tool"
    BY <1>2, <2>2, CutFacts
  <2> HIDE DEF c
  <2>4. /\ tail \in Seq(Message) /\ Len(tail) = n - c + 1
        /\ \A i \in 1..(n - c + 1) : tail[i] = h[c + i - 1]
    <3>1. \A i \in c..n : h[i] \in Message
      BY <2>2, <2>3
    <3>2. /\ tail \in Seq(Message)
          /\ Len(tail) = IF c <= n THEN n - c + 1 ELSE 0
          /\ \A i \in 1..(n - c + 1) : tail[i] = h[c + i - 1]
      BY <2>2, <2>3, <3>1, SubSeqProperties
    <3> QED BY <2>2, <2>3, <3>2
  <2>5. head \in Seq(Message) /\ Len(head) = 2 /\ head[1] = User("summary") /\ head[2] = Text
    BY MessageFacts
  <2> HIDE DEF head, tail
  <2> DEFINE g == head \o tail
             l == n - c + 3
  <2>6. /\ g \in Seq(Message) /\ Len(g) = l /\ l \in Nat /\ l >= 3
        /\ g[1] = User("summary") /\ g[2] = Text
        /\ \A i \in 3..l : g[i] = h[c + i - 3]
    <3>1. /\ g \in Seq(Message) /\ Len(g) = Len(head) + Len(tail)
          /\ \A i \in 1..(Len(head) + Len(tail)) :
               g[i] = IF i <= Len(head) THEN head[i] ELSE tail[i - Len(head)]
      BY <2>4, <2>5, ConcatProperties
    <3> HIDE DEF g
    <3>2. Len(head) + Len(tail) = l /\ l \in Nat /\ l >= 3
      BY <2>2, <2>3, <2>4, <2>5
    <3>3. g[1] = User("summary") /\ g[2] = Text
      BY <2>5, <3>1, <3>2
    <3>4. ASSUME NEW i \in 3..l
          PROVE  g[i] = h[c + i - 3]
      <4>1. i \in 1..l /\ ~(i <= 2) /\ i - 2 \in 1..(n - c + 1) /\ c + (i - 2) - 1 = c + i - 3
        BY <2>2, <2>3, <3>2
      <4>2. g[i] = tail[i - 2]
        BY <2>5, <3>1, <3>2, <4>1
      <4>3. tail[i - 2] = h[c + (i - 2) - 1]
        BY <2>4, <4>1
      <4> QED BY <4>1, <4>2, <4>3
    <3> QED BY <3>1, <3>2, <3>3, <3>4
  <2> HIDE DEF g
  <2>7. Pending(g) = Pending(h)
    <3>1. n > 0 /\ l \in 3..l /\ c + l - 3 = n
      BY <2>2, <2>3, <2>6
    <3>2. g[l] = h[n]
      BY <2>6, <3>1
    <3> QED BY <2>2, <2>6, <3>1, <3>2, PendingOfEnd
  <2>8. ASSUME Paired(h) PROVE Paired(g)
    <3>1. ASSUME NEW i \in 1..l, IsCall(g[i]), i < l
          PROVE  g[i + 1] = Result(g[i].about)
      <4>1. i \in 3..l
        BY <2>6, <3>1, MessageFacts
      <4>2. c + i - 3 \in 1..n /\ c + i - 3 < n /\ i + 1 \in 3..l
            /\ c + (i + 1) - 3 = (c + i - 3) + 1
        BY <2>2, <2>3, <2>6, <3>1, <4>1
      <4>3. g[i] = h[c + i - 3] /\ g[i + 1] = h[(c + i - 3) + 1]
        BY <2>6, <4>1, <4>2
      <4> QED BY <2>8, <3>1, <4>2, <4>3 DEF Paired
    <3>2. ASSUME NEW i \in 1..l, g[i].role = "tool"
          PROVE  i > 1 /\ g[i - 1] = Call(g[i].about)
      <4>1. i \in 3..l
        BY <2>6, <3>2, MessageFacts
      <4>2. i # 3
        BY <2>2, <2>3, <2>6, <3>2
      <4>3. i - 1 \in 3..l /\ c + i - 3 \in 1..n /\ c + (i - 1) - 3 = (c + i - 3) - 1
        BY <2>2, <2>3, <2>6, <4>1, <4>2
      <4>4. g[i] = h[c + i - 3] /\ g[i - 1] = h[(c + i - 3) - 1]
        BY <2>6, <4>1, <4>3
      <4>5. h[(c + i - 3) - 1] = Call(h[c + i - 3].about)
        BY <2>8, <3>2, <4>3, <4>4 DEF Paired
      <4> QED BY <4>1, <4>4, <4>5
    <3> QED BY <2>6, <3>1, <3>2 DEF Paired
  <2> QED BY <2>1, <2>6, <2>7, <2>8 DEF g
<1> QED BY <1>1, <1>2

-----------------------------------------------------------------------------
(* The transcript of a run.                                                  *)

\* The attachments go after the first b messages.
Spliced(s, b) == SubSeq(s, 1, b) \o <<User("context")>> \o SubSeq(s, b + 1, Len(s))

LEMMA SplicedFacts ==
    ASSUME NEW s \in Seq(Message), NEW b \in 0..Len(s)
    PROVE  /\ Spliced(s, b) \in Seq(Message) /\ Len(Spliced(s, b)) = Len(s) + 1
           /\ \A i \in 1..(Len(s) + 1) :
                Spliced(s, b)[i] = IF i <= b THEN s[i]
                                   ELSE IF i = b + 1 THEN User("context") ELSE s[i - 1]
<1> DEFINE n == Len(s)
           x == SubSeq(s, 1, b)
           y == <<User("context")>>
           z == SubSeq(s, b + 1, n)
<1>1. n \in Nat /\ b \in Nat /\ b <= n /\ \A i \in 1..n : s[i] \in Message
  OBVIOUS
<1> HIDE DEF n
<1>2. x \in Seq(Message) /\ Len(x) = b /\ \A i \in 1..b : x[i] = s[i]
  <2>1. 1 \in Int /\ b \in Int /\ \A i \in 1..b : s[i] \in Message
    BY <1>1
  <2>2. /\ x \in Seq(Message) /\ Len(x) = IF 1 <= b THEN b - 1 + 1 ELSE 0
        /\ \A i \in 1..(b - 1 + 1) : x[i] = s[1 + i - 1]
    BY <2>1, SubSeqProperties
  <2> HIDE DEF x
  <2>3. b - 1 + 1 = b /\ \A i \in Int : 1 + i - 1 = i
    BY <1>1
  <2> QED BY <1>1, <2>2, <2>3
<1>3. z \in Seq(Message) /\ Len(z) = n - b /\ \A i \in 1..(n - b) : z[i] = s[b + i]
  <2>1. b + 1 \in Int /\ n \in Int /\ \A i \in (b + 1)..n : s[i] \in Message
    BY <1>1
  <2>2. /\ z \in Seq(Message) /\ Len(z) = IF b + 1 <= n THEN n - (b + 1) + 1 ELSE 0
        /\ \A i \in 1..(n - (b + 1) + 1) : z[i] = s[(b + 1) + i - 1]
    BY <2>1, SubSeqProperties
  <2> HIDE DEF z
  <2>3. n - (b + 1) + 1 = n - b /\ \A i \in Int : (b + 1) + i - 1 = b + i
    BY <1>1
  <2> QED BY <1>1, <2>2, <2>3
<1>4. y \in Seq(Message) /\ Len(y) = 1 /\ y[1] = User("context")
  BY MessageFacts
<1>5. Spliced(s, b) = (x \o y) \o z
  BY DEF Spliced, n
<1> HIDE DEF x, y, z
<1> DEFINE xy == x \o y
<1>6. /\ xy \in Seq(Message) /\ Len(xy) = b + 1
      /\ \A i \in 1..(b + 1) : xy[i] = IF i <= b THEN s[i] ELSE User("context")
  <2>1. /\ xy \in Seq(Message) /\ Len(xy) = Len(x) + Len(y)
        /\ \A i \in 1..(Len(x) + Len(y)) : xy[i] = IF i <= Len(x) THEN x[i] ELSE y[i - Len(x)]
    BY <1>2, <1>4, ConcatProperties
  <2> HIDE DEF xy
  <2>2. ASSUME NEW i \in 1..(b + 1)
        PROVE  xy[i] = IF i <= b THEN s[i] ELSE User("context")
    <3>1. CASE i <= b
      BY <1>1, <1>2, <1>4, <2>1, <3>1
    <3>2. CASE ~(i <= b)
      <4>1. i - b = 1
        BY <1>1, <3>2
      <4> QED BY <1>1, <1>2, <1>4, <2>1, <3>2, <4>1
    <3> QED BY <3>1, <3>2
  <2> QED BY <1>1, <1>2, <1>4, <2>1, <2>2
<1> HIDE DEF xy
<1> DEFINE t == xy \o z
<1>7. /\ t \in Seq(Message) /\ Len(t) = n + 1
      /\ \A i \in 1..(n + 1) : t[i] = IF i <= b + 1 THEN xy[i] ELSE z[i - (b + 1)]
  <2>1. /\ t \in Seq(Message) /\ Len(t) = Len(xy) + Len(z)
        /\ \A i \in 1..(Len(xy) + Len(z)) : t[i] = IF i <= Len(xy) THEN xy[i] ELSE z[i - Len(xy)]
    BY <1>3, <1>6, ConcatProperties
  <2> HIDE DEF t
  <2>2. Len(xy) + Len(z) = n + 1
    BY <1>1, <1>3, <1>6
  <2> QED BY <1>6, <2>1, <2>2
<1> HIDE DEF t
<1>8. ASSUME NEW i \in 1..(n + 1)
      PROVE  t[i] = IF i <= b THEN s[i] ELSE IF i = b + 1 THEN User("context") ELSE s[i - 1]
  <2>1. CASE i <= b + 1
    <3>1. i \in 1..(b + 1)
      BY <1>1, <2>1
    <3> QED BY <1>1, <1>6, <1>7, <2>1, <3>1
  <2>2. CASE ~(i <= b + 1)
    <3>1. i - (b + 1) \in 1..(n - b) /\ b + (i - (b + 1)) = i - 1 /\ ~(i <= b) /\ i # b + 1
      BY <1>1, <2>2
    <3> QED BY <1>3, <1>7, <2>2, <3>1
  <2> QED BY <2>1, <2>2
<1>9. Spliced(s, b) = t
  BY <1>5 DEF t, xy
<1> QED BY <1>7, <1>8, <1>9 DEF n

\* The transcript with the attachments, where there are any.
Joined(attached, base, messages) == IF attached THEN Spliced(messages, base) ELSE messages

LEMMA TranscriptForm ==
    ASSUME NEW r
    PROVE  Transcript(r) = Joined(r.attached, r.base, r.messages)
BY DEF Transcript, Joined, Spliced

LEMMA JoinedFacts ==
    ASSUME NEW s \in Seq(Message), NEW b \in 0..Len(s), NEW attached \in BOOLEAN
    PROVE  /\ Joined(attached, b, s) \in Seq(Message)
           /\ Len(Joined(attached, b, s)) >= Len(s)
           /\ attached => Len(Joined(attached, b, s)) = Len(s) + 1
           /\ Len(s) > 0 /\ (attached => b < Len(s)) =>
                Joined(attached, b, s)[Len(Joined(attached, b, s))] = s[Len(s)]
<1>1. Len(s) \in Nat /\ b \in Nat
  OBVIOUS
<1>2. CASE ~attached
  BY <1>1, <1>2 DEF Joined
<1>3. CASE attached
  <2> DEFINE t == Spliced(s, b)
             n == Len(s)
  <2>1. /\ t \in Seq(Message) /\ Len(t) = n + 1
        /\ \A i \in 1..(n + 1) : t[i] = IF i <= b THEN s[i]
                                        ELSE IF i = b + 1 THEN User("context") ELSE s[i - 1]
    BY SplicedFacts
  <2>2. Joined(attached, b, s) = t
    BY <1>3 DEF Joined
  <2> HIDE DEF t, n
  <2>3. n \in Nat /\ (n > 0 /\ b < n => t[n + 1] = s[n])
    <3>1. n \in Nat
      BY <1>1 DEF n
    <3>2. n > 0 /\ b < n => n + 1 \in 1..(n + 1) /\ ~(n + 1 <= b) /\ n + 1 # b + 1 /\ (n + 1) - 1 = n
      BY <1>1, <3>1
    <3> QED BY <2>1, <3>1, <3>2
  <2>4. Len(t) >= n
    BY <2>1, <2>3
  <2> QED BY <1>3, <2>1, <2>2, <2>3, <2>4 DEF n
<1> QED BY <1>2, <1>3

LEMMA JoinedAppend ==
    ASSUME NEW s \in Seq(Message), NEW b \in 0..Len(s), NEW attached \in BOOLEAN, NEW x \in Message
    PROVE  Joined(attached, b, Append(s, x)) = Append(Joined(attached, b, s), x)
<1>1. CASE ~attached
  BY <1>1 DEF Joined
<1>2. CASE attached
  <2> DEFINE n == Len(s)
             u == Append(s, x)
             t == Spliced(s, b)
             v == Spliced(u, b)
             w == Append(t, x)
  <2>1. u \in Seq(Message) /\ n \in Nat /\ Len(u) = n + 1 /\ u[n + 1] = x
        /\ \A i \in 1..n : u[i] = s[i]
    BY Appended
  <2>2. b \in 0..n /\ b \in 0..Len(u) /\ b \in Nat /\ b <= n
    BY <2>1
  <2>3. /\ t \in Seq(Message) /\ Len(t) = n + 1
        /\ \A i \in 1..(n + 1) : t[i] = IF i <= b THEN s[i]
                                        ELSE IF i = b + 1 THEN User("context") ELSE s[i - 1]
    BY SplicedFacts
  <2> HIDE DEF n, u
  <2>4. /\ v \in Seq(Message) /\ Len(v) = n + 2
        /\ \A i \in 1..(n + 2) : v[i] = IF i <= b THEN u[i]
                                        ELSE IF i = b + 1 THEN User("context") ELSE u[i - 1]
    <3>1. /\ v \in Seq(Message) /\ Len(v) = Len(u) + 1
          /\ \A i \in 1..(Len(u) + 1) : v[i] = IF i <= b THEN u[i]
                                          ELSE IF i = b + 1 THEN User("context") ELSE u[i - 1]
      BY <2>1, <2>2, SplicedFacts
    <3> HIDE DEF v
    <3>2. Len(u) + 1 = n + 2
      BY <2>1
    <3> QED BY <3>1, <3>2
  <2> HIDE DEF t, v
  <2>5. /\ w \in Seq(Message) /\ Len(w) = n + 2
        /\ \A i \in 1..(n + 1) : w[i] = t[i]
        /\ w[n + 2] = x
    <3>1. /\ w \in Seq(Message) /\ Len(w) = Len(t) + 1
          /\ \A i \in 1..Len(t) : w[i] = t[i]
          /\ w[Len(t) + 1] = x
      BY <2>3, Appended
    <3> HIDE DEF w
    <3>2. Len(t) + 1 = n + 2
      BY <2>1, <2>3
    <3> QED BY <2>3, <3>1, <3>2
  <2> HIDE DEF w
  <2>6. ASSUME NEW i \in 1..(n + 2)
        PROVE  v[i] = w[i]
    <3>1. CASE i = n + 2
      <4>1. ~(i <= b) /\ i # b + 1 /\ i - 1 = n + 1
        BY <2>1, <2>2, <3>1
      <4> QED BY <2>1, <2>4, <2>5, <3>1, <4>1
    <3>2. CASE i \in 1..(n + 1)
      <4>1. i <= b => i \in 1..n
        BY <2>1, <2>2, <3>2
      <4>2. ~(i <= b) /\ i # b + 1 => i - 1 \in 1..n
        BY <2>1, <2>2, <3>2
      <4> QED BY <2>1, <2>3, <2>4, <2>5, <3>2, <4>1, <4>2
    <3> QED BY <2>1, <3>1, <3>2
  <2>7. v = w
    <3>1. DOMAIN v = 1..(n + 2) /\ DOMAIN w = 1..(n + 2)
      BY <2>4, <2>5
    <3>2. v = [i \in 1..(n + 2) |-> v[i]] /\ w = [i \in 1..(n + 2) |-> w[i]]
      BY <2>4, <2>5, <3>1
    <3> QED BY <2>6, <3>2
  <2> QED BY <1>2, <2>7 DEF Joined, v, w, t, u
<1> QED BY <1>1, <1>2

-----------------------------------------------------------------------------
(* The rows of runs.                                                         *)

LEMMA RunFields ==
    ASSUME NEW r \in RunRows
    PROVE  /\ r.pc \in {"idle", "turn", "conclude", "call", "execute"} /\ r.outcome \in Ends
           /\ r.goal \in BOOLEAN /\ r.approval \in 0..MaxRuns /\ r.attached \in BOOLEAN
           /\ r.base \in Nat /\ r.messages \in Seq(Message) /\ r.turn \in 0..MaxTurns
           /\ r.calls \in 0..MaxToolCalls /\ r.batch \in Seq(Actions) /\ r.failed \in SUBSET Actions
           /\ r.duplicates \in Nat /\ r.modified \in BOOLEAN /\ r.verified \in BOOLEAN
BY DEF RunRows

LEMMA EndedFacts ==
    ASSUME NEW outcome \in Ends
    PROVE  /\ Ended(outcome) \in RunRows
           /\ Ended(outcome).pc = "idle" /\ Ended(outcome).outcome = outcome
           /\ ~Ended(outcome).verified
<1>1. 0 \in 0..MaxRuns /\ 0 \in 0..MaxTurns /\ 0 \in 0..MaxToolCalls /\ 0 \in Nat
  BY AgentAssumption
<1>2. <<>> \in Seq(Message) /\ <<>> \in Seq(Actions) /\ {} \in SUBSET Actions
  OBVIOUS
<1>3. Ended(outcome) \in RunRows
  BY <1>1, <1>2, Zenon DEF Ended, RunRows
<1> QED BY <1>3 DEF Ended

\* What does not depend on how a call ended.
Steady(r, s) ==
    /\ r.pc = s.pc /\ r.outcome = s.outcome /\ r.goal = s.goal /\ r.approval = s.approval
    /\ r.attached = s.attached /\ r.base = s.base /\ r.messages = s.messages
    /\ r.turn = s.turn /\ r.calls = s.calls /\ r.batch = s.batch

LEMMA GuardedFacts ==
    ASSUME NEW r \in RunRows, NEW result, Head(r.batch) \in Actions
    PROVE  /\ Guarded(r, result) \in RunRows /\ Steady(Guarded(r, result), r)
           /\ Guarded(r, result).verified = r.verified
<1> DEFINE a == Head(r.batch)
           failed == IF result \in {"failed", "refused"} THEN r.failed \cup {a} ELSE r.failed \ {a}
           duplicates == IF result \in {"ran", "red"} THEN 0 ELSE r.duplicates
           more == r.duplicates + 1
<1>1. failed \in SUBSET Actions /\ duplicates \in Nat /\ more \in Nat
  BY RunFields
<1>2. Guarded(r, result) = IF result = "guarded" THEN [r EXCEPT !.duplicates = more]
                           ELSE [r EXCEPT !.failed = failed, !.duplicates = duplicates]
  BY DEF Guarded, Tracked, RunRows
<1> HIDE DEF failed, duplicates, more
<1>3. /\ [r EXCEPT !.duplicates = more] \in RunRows
      /\ [r EXCEPT !.failed = failed, !.duplicates = duplicates] \in RunRows
  BY <1>1, Zenon DEF RunRows
<1>4. /\ Steady([r EXCEPT !.duplicates = more], r)
      /\ Steady([r EXCEPT !.failed = failed, !.duplicates = duplicates], r)
      /\ [r EXCEPT !.duplicates = more].verified = r.verified
      /\ [r EXCEPT !.failed = failed, !.duplicates = duplicates].verified = r.verified
  BY Zenon DEF Steady, RunRows
<1> QED BY <1>2, <1>3, <1>4

LEMMA NotedFacts ==
    ASSUME NEW r \in RunRows, NEW a, NEW result
    PROVE  /\ Noted(r, a, result) \in RunRows /\ Steady(Noted(r, a, result), r)
           /\ Noted(r, a, result).verified =>
                \/ a \in Checks /\ result \in {"ran", "red", "guarded"}
                \/ r.verified /\ ~(a \in Edits /\ result # "failed")
<1>1. /\ [r EXCEPT !.modified = TRUE, !.verified = FALSE] \in RunRows
      /\ [r EXCEPT !.verified = TRUE] \in RunRows
  BY Zenon DEF RunRows
<1>2. /\ Steady([r EXCEPT !.modified = TRUE, !.verified = FALSE], r)
      /\ Steady([r EXCEPT !.verified = TRUE], r) /\ Steady(r, r)
      /\ ~[r EXCEPT !.modified = TRUE, !.verified = FALSE].verified
  BY Zenon DEF Steady, RunRows
<1> QED BY <1>1, <1>2 DEF Noted

-----------------------------------------------------------------------------
(* The ends of a run.                                                        *)

\* The transcript a run stores: paired as far as it was.
LEMMA SaveFacts ==
    ASSUME TypeOK, StoredInv, NEW r \in RunRows, NEW outcome \in Ends, r.base <= Len(r.messages),
           ~interrupted => Paired(Transcript(r)), Save(r, outcome)
    PROVE  /\ stored' \in Seq(Message) /\ (~interrupted => Paired(stored'))
           /\ run' \in RunRows /\ run'.pc = "idle" /\ run'.outcome \in {outcome, "error"}
           /\ run'.outcome # "error" => stored' = Transcript(r)
<1>1. Transcript(r) \in Seq(Message)
  <2>1. r.messages \in Seq(Message) /\ r.base \in 0..Len(r.messages) /\ r.attached \in BOOLEAN
    BY RunFields
  <2> QED BY <2>1, TranscriptForm, JoinedFacts
<1>2. stored \in Seq(Message) /\ (~interrupted => Paired(stored))
  BY DEF TypeOK, StoredInv
<1>3. "error" \in Ends
  BY DEF Ends
<1>4. CASE run' = Ended("error") /\ UNCHANGED stored
  BY <1>2, <1>3, <1>4, EndedFacts
<1>5. CASE run' = Ended(outcome) /\ stored' = Transcript(r)
  BY <1>1, <1>5, EndedFacts
<1> QED BY <1>4, <1>5 DEF Save

\* A run that ends, without a pause.
LEMMA EndKeeps ==
    ASSUME LoopInv, run' \in RunRows, run'.pc = "idle", run'.outcome # "paused",
           stored' \in Seq(Message), ~interrupted => Paired(stored'),
           approvals' \in [1..MaxRuns -> ApprovalRows], check' \in {"none", "passed", "red", "guarded"},
           UNCHANGED <<runs, interrupted>>
    PROVE  LoopInv'
<1>1. TypeOK'
  BY DEF LoopInv, TypeOK
<1>2. StoredInv'
  BY DEF StoredInv
<1>3. TranscriptInv' /\ RunInv'
  BY DEF TranscriptInv, RunInv
<1> QED BY <1>1, <1>2, <1>3 DEF LoopInv

LEMMA AbandonKeeps ==
    ASSUME LoopInv, Abandon, approvals' \in [1..MaxRuns -> ApprovalRows],
           check' \in {"none", "passed", "red", "guarded"}, UNCHANGED <<runs, interrupted>>
    PROVE  LoopInv'
<1>1. run' = Ended("error") /\ stored' = stored /\ "error" \in Ends
  BY DEF Abandon, Ends
<1>2. run' \in RunRows /\ run'.pc = "idle" /\ run'.outcome = "error"
  BY <1>1, EndedFacts
<1>3. stored \in Seq(Message) /\ (~interrupted => Paired(stored))
  BY DEF LoopInv, TypeOK, StoredInv
<1> QED BY <1>1, <1>2, <1>3, EndKeeps

\* A run that goes on, over the same stored transcript.
LEMMA GoOnKeeps ==
    ASSUME LoopInv, run' \in RunRows, run'.pc # "idle", run'.outcome = "none",
           approvals' \in [1..MaxRuns -> ApprovalRows], check' \in {"none", "passed", "red", "guarded"},
           UNCHANGED <<stored, runs, interrupted>>, TranscriptInv', RunInv'
    PROVE  LoopInv'
<1>1. TypeOK'
  BY DEF LoopInv, TypeOK
<1>2. StoredInv'
  BY DEF LoopInv, StoredInv
<1> QED BY <1>1, <1>2 DEF LoopInv

\* What a step of a run may build on.
LEMMA Underway ==
    ASSUME LoopInv, run.pc # "idle"
    PROVE  /\ TypeOK /\ StoredInv /\ run \in RunRows /\ run.outcome = "none" /\ runs \in 1..MaxRuns
           /\ run.messages \in Seq(Message) /\ Len(run.messages) \in Nat /\ Len(run.messages) > 0
           /\ run.base \in 0..Len(run.messages) /\ (run.attached => run.base < Len(run.messages))
           /\ run.attached \in BOOLEAN /\ run.batch \in Seq(Actions) /\ run.turn \in 0..MaxTurns
           /\ run.calls \in 0..MaxToolCalls
           /\ ~interrupted => Paired(Transcript(run))
           /\ Transcript(run) \in Seq(Message) /\ Len(Transcript(run)) > 0
           /\ Transcript(run)[Len(Transcript(run))] = run.messages[Len(run.messages)]
           /\ approvals \in [1..MaxRuns -> ApprovalRows] /\ check \in {"none", "passed", "red", "guarded"}
<1>1. TypeOK /\ StoredInv /\ TranscriptInv /\ RunInv
  BY DEF LoopInv
<1>2. run \in RunRows /\ approvals \in [1..MaxRuns -> ApprovalRows] /\ runs \in 0..MaxRuns
      /\ check \in {"none", "passed", "red", "guarded"}
  BY <1>1 DEF TypeOK
<1>3. /\ run.messages \in Seq(Message) /\ run.base \in Nat /\ run.attached \in BOOLEAN
      /\ run.batch \in Seq(Actions) /\ run.turn \in 0..MaxTurns /\ run.calls \in 0..MaxToolCalls
  BY <1>2, RunFields
<1>4. Len(run.messages) \in Nat
  BY <1>3
<1>5. /\ run.base <= Len(run.messages) /\ Len(run.messages) > 0
      /\ run.attached => run.base < Len(run.messages)
      /\ ~interrupted => Paired(Transcript(run))
  BY <1>1 DEF TranscriptInv
<1>6. runs > 0 /\ run.outcome = "none"
  BY <1>1 DEF RunInv
<1>7. MaxRuns \in Nat
  BY AgentAssumption
<1>8. runs \in 1..MaxRuns /\ run.base \in 0..Len(run.messages)
  BY <1>2, <1>3, <1>4, <1>5, <1>6, <1>7
<1>9. /\ Transcript(run) \in Seq(Message) /\ Len(Transcript(run)) >= Len(run.messages)
      /\ Transcript(run)[Len(Transcript(run))] = run.messages[Len(run.messages)]
  BY <1>3, <1>5, <1>8, TranscriptForm, JoinedFacts
<1>10. Len(Transcript(run)) > 0
  BY <1>4, <1>5, <1>9
<1> QED BY <1>1, <1>2, <1>3, <1>4, <1>5, <1>6, <1>8, <1>9, <1>10

\* One more message, where the transcript may take it.
LEMMA MessageKeeps ==
    ASSUME LoopInv, run.pc # "idle", NEW x \in Message, NEW r \in RunRows,
           r.messages = Append(run.messages, x), r.base = run.base, r.attached = run.attached,
           \/ x.role # "tool" /\ Answered(run.messages)
           \/ run.messages[Len(run.messages)] = Call(x.about) /\ x = Result(x.about) /\ x.about \in Actions
    PROVE  /\ r.base <= Len(r.messages) /\ Len(r.messages) > 0
           /\ r.attached => r.base < Len(r.messages)
           /\ ~interrupted => Paired(Transcript(r))
           /\ r.messages[Len(r.messages)] = x
           /\ r.messages \in Seq(Message)
           /\ Transcript(r) = Append(Transcript(run), x)
<1> DEFINE s == run.messages
           t == Transcript(run)
<1>1. /\ s \in Seq(Message) /\ Len(s) \in Nat /\ Len(s) > 0 /\ run.base \in 0..Len(s)
      /\ run.attached \in BOOLEAN /\ (~interrupted => Paired(t))
      /\ t \in Seq(Message) /\ Len(t) > 0 /\ t[Len(t)] = s[Len(s)]
  BY Underway
<1>2. Append(s, x) \in Seq(Message) /\ Len(Append(s, x)) = Len(s) + 1 /\ Append(s, x)[Len(s) + 1] = x
  BY <1>1, Appended
<1>3. Transcript(r) = Append(t, x)
  BY <1>1, TranscriptForm, JoinedAppend
<1> HIDE DEF s, t
<1>4. \/ x.role # "tool" /\ Answered(t)
      \/ t[Len(t)] = Call(x.about) /\ x = Result(x.about) /\ x.about \in Actions
  BY <1>1 DEF Answered, s
<1>5. ~interrupted => Paired(Transcript(r))
  BY <1>1, <1>3, <1>4, AppendPaired
<1>6. r.messages = Append(s, x)
  BY DEF s
<1> QED BY <1>1, <1>2, <1>3, <1>5, <1>6 DEF t

-----------------------------------------------------------------------------
(* The steps.                                                                *)

LEMMA StartRunKeeps ==
    ASSUME LoopInv, NEW goal \in BOOLEAN, NEW attached \in BOOLEAN, NEW approval \in 0..MaxRuns,
           StartRun(goal, attached, approval)
    PROVE  LoopInv'
<1> DEFINE h == Compacted(stored)
           place == IF approval = 0 THEN "turn" ELSE "execute"
           messages == IF approval = 0 THEN h \o Superseded(h) \o <<User("task")>> ELSE h
           batch == IF approval = 0 THEN <<>> ELSE Pending(h)
           calls == IF approval = 0 THEN 0 ELSE 1
           opened == [Ended("none") EXCEPT
                        !.pc = place, !.goal = goal, !.approval = approval, !.attached = attached,
                        !.base = Len(h), !.messages = messages, !.batch = batch, !.calls = calls]
<1>1. TypeOK /\ StoredInv
  BY DEF LoopInv
<1>2. /\ stored \in Seq(Message) /\ (~interrupted => Paired(stored)) /\ runs \in 0..MaxRuns
      /\ MaxRuns \in Nat /\ MaxToolCalls \in Nat \ {0} /\ interrupted \in BOOLEAN
      /\ approvals \in [1..MaxRuns -> ApprovalRows]
  BY <1>1, AgentAssumption DEF TypeOK, StoredInv
<1>3. /\ runs < MaxRuns /\ runs' = runs + 1 /\ check' = "none" /\ UNCHANGED <<stored, approvals>>
      /\ interrupted' = (interrupted \/ (attached /\ Pending(h) # <<>>))
      /\ approval # 0 => ~attached
      /\ \/ run' = Ended("error")
         \/ run' = opened /\ (approval = 0 \/ Pending(h) # <<>>)
  BY DEF StartRun
<1>4. h \in Seq(Message) /\ (~interrupted => Paired(h))
  BY <1>2, CompactedFacts
<1>5. runs' \in 1..MaxRuns
  BY <1>2, <1>3
<1>6. ~interrupted' => ~interrupted /\ (attached => Pending(h) = <<>>)
  BY <1>2, <1>3
<1> HIDE DEF h
<1>7. CASE run' = Ended("error")
  <2>1. run' \in RunRows /\ run'.pc = "idle" /\ run'.outcome = "error"
    BY <1>7, EndedFacts DEF Ends
  <2>2. TypeOK'
    BY <1>2, <1>3, <1>5, <2>1 DEF TypeOK
  <2>3. StoredInv' /\ TranscriptInv' /\ RunInv'
    BY <1>2, <1>3, <1>6, <2>1 DEF StoredInv, TranscriptInv, RunInv
  <2> QED BY <2>2, <2>3 DEF LoopInv
<1>8. CASE run' = opened /\ (approval = 0 \/ Pending(h) # <<>>)
  <2> DEFINE n == Len(h)
             answered == h \o Superseded(h)
  <2>1. n \in Nat
    BY <1>4
  <2>2. Pending(h) \in Seq(Actions) /\ Len(Pending(h)) <= 1
    <3>1. Pending(h) = <<>> \/ \E a \in Actions : Pending(h) = <<a>>
      BY <1>4, PendingFacts
    <3>2. <<>> \in Seq(Actions) /\ Len(<<>>) <= 1
      OBVIOUS
    <3>3. \A a \in Actions : <<a>> \in Seq(Actions) /\ Len(<<a>>) <= 1
      OBVIOUS
    <3> QED BY <3>1, <3>2, <3>3
  \* The history with the superseded call answered.
  <2>3. /\ answered \in Seq(Message) /\ (Len(answered) = 0 \/ Answered(answered))
        /\ Len(answered) >= n
        /\ Pending(h) = <<>> => answered = h
        /\ ~interrupted => Paired(answered)
    <3>1. CASE Pending(h) = <<>> /\ (Len(h) = 0 \/ Answered(h))
      <4>1. Superseded(h) = <<>>
        BY <3>1 DEF Superseded
      <4>2. answered = h
        BY <1>4, <4>1
      <4> QED BY <1>4, <2>1, <3>1, <4>2
    <3>2. CASE /\ Len(h) > 0 /\ h[Len(h)].about \in Actions
               /\ h[Len(h)] = Call(h[Len(h)].about)
               /\ Pending(h) = <<h[Len(h)].about>> /\ Pending(h) # <<>>
      <4> DEFINE a == h[Len(h)].about
      <4>1. a \in Actions /\ h[n] = Call(a) /\ Pending(h) = <<a>>
        BY <3>2
      <4> HIDE DEF a
      <4>2. Superseded(h) = <<Result(a)>>
        BY <4>1 DEF Superseded
      <4>3. answered = Append(h, Result(a))
        BY <1>4, <4>2
      <4>4. /\ Result(a) \in Message /\ Result(a).role = "tool" /\ Result(a).about = a
            /\ ~IsCall(Result(a))
        BY <4>1, MessageFacts
      <4>5. answered \in Seq(Message) /\ Len(answered) = n + 1 /\ Answered(answered)
        BY <1>4, <4>3, <4>4, Appended, AppendAnswers
      <4>6. Paired(h) => Paired(answered)
        BY <1>4, <3>2, <4>1, <4>3, <4>4, AppendPaired
      <4> HIDE DEF answered
      <4> QED BY <1>4, <2>1, <3>2, <4>5, <4>6
    <3> QED BY <1>4, <3>1, <3>2, PendingFacts
  <2> HIDE DEF answered
  <2>4. /\ User("task") \in Message /\ User("task").role # "tool" /\ ~IsCall(User("task"))
        /\ User("context") \in Message /\ User("context").role # "tool"
        /\ ~IsCall(User("context"))
    BY MessageFacts
  <2> DEFINE asked == Append(answered, User("task"))
  <2>5. /\ asked \in Seq(Message) /\ Len(asked) = Len(answered) + 1 /\ Answered(asked)
        /\ Len(asked) > n
        /\ ~interrupted => Paired(asked)
    <3>1. asked \in Seq(Message) /\ Len(asked) = Len(answered) + 1 /\ Answered(asked)
      BY <2>3, <2>4, Appended, AppendAnswers
    <3>2. ~interrupted => Paired(asked)
      BY <2>3, <2>4, AppendPaired
    <3>3. Len(answered) \in Nat
      BY <2>3
    <3> HIDE DEF asked
    <3> QED BY <2>1, <2>3, <3>1, <3>2, <3>3
  <2>6. messages = IF approval = 0 THEN asked ELSE h
    <3>1. messages = IF approval = 0 THEN answered \o <<User("task")>> ELSE h
      BY DEF answered
    <3>2. answered \o <<User("task")>> = asked
      BY <2>3, <2>4
    <3> QED BY <3>1, <3>2
  <2> HIDE DEF asked, messages
  <2>7. messages \in Seq(Message) /\ Len(messages) \in Nat /\ n <= Len(messages)
    BY <1>4, <2>1, <2>5, <2>6
  <2>8. place \in {"turn", "execute"} /\ batch \in Seq(Actions) /\ calls \in 0..MaxToolCalls
        /\ "none" \in Ends /\ n \in Nat
    BY <1>2, <2>1, <2>2 DEF Ends
  <2>9. Ended("none") \in RunRows
    BY <2>8, EndedFacts
  <2> HIDE DEF place, batch, calls
  <2>10. opened \in RunRows
    BY <2>7, <2>8, <2>9, Zenon DEF RunRows
  <2>11. /\ opened.pc = place /\ opened.attached = attached /\ opened.base = n
         /\ opened.messages = messages /\ opened.batch = batch /\ opened.calls = calls
         /\ opened.outcome = "none" /\ opened.verified = FALSE
    BY Zenon DEF Ended
  <2>12. Transcript(opened) = Joined(attached, n, messages)
    BY <2>11, TranscriptForm
  <2> HIDE DEF opened
  <2>13. run' = opened /\ run'.pc # "idle"
    BY <1>8, <2>8, <2>11
  <2>14. TypeOK'
    BY <1>2, <1>3, <1>5, <2>10, <2>13 DEF TypeOK
  <2>15. StoredInv'
    BY <1>2, <1>3, <1>6, <2>11, <2>13 DEF StoredInv
  <2>16. RunInv'
    <3>1. place = "execute" => approval # 0 /\ batch = Pending(h) /\ calls = 1 /\ batch # <<>>
      BY <1>8 DEF place, batch, calls
    <3>2. calls + Len(Pending(h)) <= MaxToolCalls + 1 \/ calls # 1
      BY <1>2, <2>2
    <3>3. place # "call"
      BY <2>8
    <3> QED BY <1>5, <2>11, <2>13, <3>1, <3>2, <3>3 DEF RunInv
  <2>17. TranscriptInv'
    <3>1. CASE approval = 0
      <4>1. messages = asked /\ place = "turn"
        BY <2>6, <3>1 DEF place
      <4>2. ASSUME ~interrupted' PROVE Paired(Joined(attached, n, asked))
        <5>1. CASE ~attached
          BY <1>6, <2>5, <4>2, <5>1 DEF Joined
        <5>2. CASE attached
          <6>1. answered = h /\ ~interrupted /\ Paired(h) /\ (Len(h) = 0 \/ Answered(h))
            BY <1>4, <1>6, <2>3, <4>2, <5>2
          <6>2. Joined(attached, n, asked) = Append(Joined(attached, n, h), User("task"))
            <7>1. n \in 0..Len(h)
              BY <2>1
            <7> QED BY <1>4, <2>4, <6>1, <7>1, JoinedAppend DEF asked
          <6>3. Joined(attached, n, h) = Append(h, User("context"))
            <7>1. Joined(attached, n, h) = Spliced(h, n)
              BY <5>2 DEF Joined
            <7>2. /\ Spliced(h, n) \in Seq(Message) /\ Len(Spliced(h, n)) = n + 1
                  /\ \A i \in 1..(n + 1) :
                       Spliced(h, n)[i] = IF i <= n THEN h[i]
                                          ELSE IF i = n + 1 THEN User("context") ELSE h[i - 1]
              <8>1. n \in 0..Len(h)
                BY <2>1
              <8> QED BY <1>4, <8>1, SplicedFacts
            <7>3. /\ Append(h, User("context")) \in Seq(Message)
                  /\ Len(Append(h, User("context"))) = n + 1
                  /\ \A i \in 1..n : Append(h, User("context"))[i] = h[i]
                  /\ Append(h, User("context"))[n + 1] = User("context")
              BY <1>4, <2>4, Appended
            <7> DEFINE u == Spliced(h, n)
                       v == Append(h, User("context"))
            <7>4. u \in Seq(Message) /\ Len(u) = n + 1 /\ v \in Seq(Message) /\ Len(v) = n + 1
                  /\ \A i \in 1..(n + 1) : u[i] = v[i]
              BY <2>1, <7>2, <7>3
            <7> HIDE DEF u, v, n
            <7>5. u = [i \in 1..(n + 1) |-> u[i]] /\ v = [i \in 1..(n + 1) |-> v[i]]
              BY <7>4
            <7>6. u = v
              BY <7>4, <7>5
            <7> QED BY <7>1, <7>6 DEF u, v
          <6>4. /\ Append(h, User("context")) \in Seq(Message)
                /\ Paired(Append(h, User("context"))) /\ Answered(Append(h, User("context")))
            BY <1>4, <2>4, <6>1, Appended, AppendPaired, AppendAnswers
          <6> QED BY <2>4, <6>2, <6>3, <6>4, AppendPaired
        <5> QED BY <5>1, <5>2
      <4>3. Len(messages) > 0 /\ n <= Len(messages) /\ n < Len(messages)
        BY <2>1, <2>5, <2>7, <4>1
      <4> QED BY <2>5, <2>11, <2>12, <2>13, <4>1, <4>2, <4>3 DEF TranscriptInv
    <3>2. CASE approval # 0
      <4>1. messages = h /\ place = "execute" /\ batch = Pending(h) /\ ~attached /\ Pending(h) # <<>>
        BY <1>3, <1>8, <2>6, <3>2 DEF place, batch
      <4>2. Len(h) > 0 /\ h[Len(h)] = Call(h[Len(h)].about) /\ Pending(h) = <<h[Len(h)].about>>
        BY <1>4, <4>1, PendingFacts
      <4>3. Head(batch) = h[Len(h)].about
        BY <4>1, <4>2
      <4>4. Joined(attached, n, messages) = h
        BY <4>1 DEF Joined
      <4> QED BY <1>4, <1>6, <2>1, <2>11, <2>12, <2>13, <4>1, <4>2, <4>3, <4>4 DEF TranscriptInv
    <3> QED BY <3>1, <3>2
  <2> QED BY <2>14, <2>15, <2>16, <2>17 DEF LoopInv
<1> QED BY <1>3, <1>7, <1>8

LEMMA ReplyKeeps ==
    ASSUME LoopInv, NEW text \in BOOLEAN, NEW batch \in Seq(Actions), text \/ batch # <<>>,
           Reply(text, batch)
    PROVE  LoopInv'
<1>1. run.pc = "turn" /\ UNCHANGED <<runs, approvals, check, interrupted>>
  BY DEF Reply
<1>2. /\ TypeOK /\ run \in RunRows /\ run.outcome = "none" /\ runs \in 1..MaxRuns
      /\ run.turn \in 0..MaxTurns /\ run.calls \in 0..MaxToolCalls
      /\ approvals \in [1..MaxRuns -> ApprovalRows] /\ check \in {"none", "passed", "red", "guarded"}
  BY <1>1, Underway
<1>3. CASE Abandon
  BY <1>1, <1>2, <1>3, AbandonKeeps
<1>4. CASE /\ run.turn < MaxTurns /\ run.calls + Len(batch) <= MaxToolCalls
           /\ run' = [run EXCEPT !.pc = IF text THEN "conclude" ELSE "call",
                                 !.turn = @ + 1, !.batch = batch]
           /\ UNCHANGED stored
  <2> DEFINE place == IF text THEN "conclude" ELSE "call"
             turn == run.turn + 1
             next == [run EXCEPT !.pc = place, !.turn = turn, !.batch = batch]
  <2>1. place \in {"conclude", "call"} /\ turn \in 0..MaxTurns /\ (place = "call" => batch # <<>>)
    BY <1>2, <1>4, AgentAssumption
  <2>2. run' = next
    BY <1>2, <1>4 DEF RunRows
  <2> HIDE DEF place, turn
  <2>3. next \in RunRows
    BY <1>2, <2>1, Zenon DEF RunRows
  <2>4. /\ next.pc = place /\ next.batch = batch /\ next.calls = run.calls
        /\ next.outcome = run.outcome /\ next.verified = run.verified /\ next.base = run.base
        /\ next.attached = run.attached /\ next.messages = run.messages
    BY <1>2, Zenon DEF RunRows
  <2>5. Transcript(next) = Transcript(run)
    BY <2>4, TranscriptForm
  <2> HIDE DEF next
  <2>6. TranscriptInv'
    BY <1>1, <2>1, <2>2, <2>4, <2>5 DEF LoopInv, TranscriptInv
  <2>7. RunInv'
    BY <1>1, <1>2, <1>4, <2>1, <2>2, <2>4 DEF LoopInv, RunInv
  <2> QED BY <1>1, <1>2, <1>4, <2>1, <2>2, <2>3, <2>4, <2>6, <2>7, GoOnKeeps
<1> QED BY <1>3, <1>4 DEF Reply

LEMMA PushCallKeeps ==
    ASSUME LoopInv, PushCall
    PROVE  LoopInv'
<1>1. run.pc = "call" /\ UNCHANGED <<stored, runs, approvals, check, interrupted>>
  BY DEF PushCall
<1>2. /\ TypeOK /\ run \in RunRows /\ run.outcome = "none" /\ runs \in 1..MaxRuns
      /\ run.calls \in 0..MaxToolCalls /\ run.batch \in Seq(Actions)
      /\ run.messages \in Seq(Message)
      /\ approvals \in [1..MaxRuns -> ApprovalRows] /\ check \in {"none", "passed", "red", "guarded"}
  BY <1>1, Underway
<1>3. run.batch # <<>> /\ run.calls + Len(run.batch) <= MaxToolCalls /\ Answered(run.messages)
  BY <1>1 DEF LoopInv, RunInv, TranscriptInv
<1> DEFINE a == Head(run.batch)
           calls == run.calls + 1
           messages == Append(run.messages, Call(a))
           next == [run EXCEPT !.pc = "execute", !.calls = calls, !.messages = messages]
<1>4. a \in Actions /\ Len(run.batch) \in Nat \ {0}
  BY <1>2, <1>3
<1>5. calls \in 0..MaxToolCalls /\ calls + Len(run.batch) <= MaxToolCalls + 1
  <2>1. MaxToolCalls \in Nat
    BY AgentAssumption
  <2> QED BY <1>2, <1>3, <1>4, <2>1
<1>6. Call(a) \in Message /\ Call(a).role # "tool"
  BY <1>4, MessageFacts
<1>7. messages \in Seq(Message)
  BY <1>2, <1>6
<1>8. run' = next
  BY <1>2 DEF PushCall, RunRows
<1> HIDE DEF a, calls, messages
<1>9. next \in RunRows
  BY <1>2, <1>5, <1>7, Zenon DEF RunRows
<1>10. /\ next.pc = "execute" /\ next.batch = run.batch /\ next.calls = calls
       /\ next.outcome = run.outcome /\ next.verified = run.verified /\ next.base = run.base
       /\ next.attached = run.attached /\ next.messages = messages
  BY <1>2, Zenon DEF RunRows
<1> HIDE DEF next
<1>11. next.messages = Append(run.messages, Call(a))
  BY <1>10 DEF messages
<1>12. /\ next.base <= Len(next.messages) /\ Len(next.messages) > 0
       /\ next.attached => next.base < Len(next.messages)
       /\ ~interrupted => Paired(Transcript(next))
       /\ next.messages[Len(next.messages)] = Call(a)
  BY <1>1, <1>3, <1>6, <1>9, <1>10, <1>11, MessageKeeps
<1>13. TranscriptInv'
  BY <1>1, <1>8, <1>10, <1>12 DEF TranscriptInv, a
<1>14. RunInv'
  BY <1>1, <1>2, <1>3, <1>5, <1>8, <1>10 DEF LoopInv, RunInv
<1> QED BY <1>1, <1>2, <1>8, <1>9, <1>10, <1>13, <1>14, GoOnKeeps

LEMMA StopKeeps ==
    ASSUME LoopInv, Stop \/ Fault
    PROVE  LoopInv'
<1>1. run.pc # "idle" /\ UNCHANGED <<runs, approvals, check, interrupted>>
  BY DEF Stop, Fault
<1>2. /\ TypeOK /\ StoredInv /\ run \in RunRows /\ run.base <= Len(run.messages)
      /\ (~interrupted => Paired(Transcript(run)))
      /\ approvals \in [1..MaxRuns -> ApprovalRows] /\ check \in {"none", "passed", "red", "guarded"}
  BY <1>1, Underway
<1>3. CASE Fault
  BY <1>1, <1>2, <1>3, AbandonKeeps DEF Fault
<1>4. CASE Stop
  <2>1. Save(run, "stopped") /\ "stopped" \in Ends
    BY <1>4 DEF Stop, Ends
  <2>2. /\ stored' \in Seq(Message) /\ (~interrupted => Paired(stored'))
        /\ run' \in RunRows /\ run'.pc = "idle" /\ run'.outcome \in {"stopped", "error"}
    BY <1>2, <2>1, SaveFacts
  <2> QED BY <1>1, <1>2, <2>2, EndKeeps
<1> QED BY <1>3, <1>4

LEMMA ResolveKeeps ==
    ASSUME LoopInv, NEW i \in 1..MaxRuns, Resolve(i)
    PROVE  LoopInv'
<1>1. approvals' = [approvals EXCEPT ![i].state = "approved"]
      /\ UNCHANGED <<stored, run, runs, check, interrupted>>
  BY DEF Resolve
<1>2. TypeOK /\ approvals \in [1..MaxRuns -> ApprovalRows]
  BY DEF LoopInv, TypeOK
<1>3. /\ approvals' \in [1..MaxRuns -> ApprovalRows]
      /\ \A j \in 1..MaxRuns : approvals'[j].action = approvals[j].action
  <2>1. approvals' = [approvals EXCEPT ![i] = [approvals[i] EXCEPT !.state = "approved"]]
    BY <1>1, <1>2
  <2>2. [approvals[i] EXCEPT !.state = "approved"] \in ApprovalRows
        /\ [approvals[i] EXCEPT !.state = "approved"].action = approvals[i].action
    BY <1>2 DEF ApprovalRows
  <2> QED BY <1>2, <2>1, <2>2
<1>4. TypeOK'
  BY <1>1, <1>2, <1>3 DEF TypeOK
<1>5. StoredInv'
  BY <1>1, <1>3 DEF LoopInv, StoredInv
<1>6. TranscriptInv' /\ RunInv'
  BY <1>1 DEF LoopInv, TranscriptInv, RunInv, Transcript
<1> QED BY <1>4, <1>5, <1>6 DEF LoopInv

\* A pause: the stored transcript ends with the call the approval is for, or the
\* run did not pause.
LEMMA PauseFacts ==
    ASSUME LoopInv, run.pc # "idle", NEW r \in RunRows, r.base <= Len(r.messages),
           ~interrupted => Paired(Transcript(r)), NEW outcome \in {"paused", "gate_paused"},
           NEW a \in Actions, Pause(r, outcome, a)
    PROVE  /\ stored' \in Seq(Message) /\ (~interrupted => Paired(stored'))
           /\ run' \in RunRows /\ run'.pc = "idle" /\ run'.outcome \in {outcome, "error"}
           /\ approvals' \in [1..MaxRuns -> ApprovalRows]
           /\ run'.outcome = outcome => stored' = Transcript(r) /\ approvals'[runs].action = a
<1>1. TypeOK /\ StoredInv /\ runs \in 1..MaxRuns /\ approvals \in [1..MaxRuns -> ApprovalRows]
  BY Underway
<1>2. outcome \in Ends /\ "error" \in Ends /\ outcome # "error"
  BY DEF Ends
<1> DEFINE row == [state |-> "pending", action |-> a]
<1>3. row \in ApprovalRows /\ row.action = a
  BY DEF ApprovalRows
<1>4. CASE /\ Save(r, outcome)
           /\ approvals' = IF run'.outcome = outcome THEN [approvals EXCEPT ![runs] = row] ELSE approvals
  <2> HIDE DEF row
  <2>1. /\ stored' \in Seq(Message) /\ (~interrupted => Paired(stored'))
        /\ run' \in RunRows /\ run'.pc = "idle" /\ run'.outcome \in {outcome, "error"}
        /\ run'.outcome # "error" => stored' = Transcript(r)
    BY <1>1, <1>2, <1>4, SaveFacts
  <2>2. approvals' \in [1..MaxRuns -> ApprovalRows]
        /\ (run'.outcome = outcome => approvals'[runs].action = a)
    BY <1>1, <1>3, <1>4
  <2> QED BY <1>2, <2>1, <2>2
<1>5. CASE Save(r, "error") /\ UNCHANGED approvals
  <2>1. /\ stored' \in Seq(Message) /\ (~interrupted => Paired(stored'))
        /\ run' \in RunRows /\ run'.pc = "idle" /\ run'.outcome \in {"error", "error"}
    BY <1>1, <1>2, <1>5, SaveFacts
  <2> QED BY <1>1, <1>2, <1>5, <2>1
<1> QED BY <1>4, <1>5 DEF Pause

LEMMA CheckFacts ==
    ASSUME NEW a \in Actions, NEW result, check \in {"none", "passed", "red", "guarded"}
    PROVE  /\ CheckAfter(a, result) \in {"none", "passed", "red", "guarded"}
           /\ a \in Checks /\ result \in {"ran", "red", "guarded"} =>
                CheckAfter(a, result) \in {"passed", "red", "guarded"}
           /\ check \in {"passed", "red", "guarded"} /\ ~(a \in Edits /\ result # "failed") =>
                CheckAfter(a, result) \in {"passed", "red", "guarded"}
<1>1. a \in Checks => a \notin Edits
  BY AgentAssumption
<1> QED BY <1>1 DEF CheckAfter

LEMMA ExecuteKeeps ==
    ASSUME LoopInv, NEW result, Execute(result)
    PROVE  LoopInv'
<1> DEFINE a == Head(run.batch)
           rest == Tail(run.batch)
           answered == Noted(Guarded(run, result), a, result)
           place == IF rest = <<>> THEN "turn" ELSE "call"
<1>1. run.pc = "execute" /\ UNCHANGED <<runs, interrupted>>
  BY DEF Execute
<1>2. /\ TypeOK /\ run \in RunRows /\ run.outcome = "none" /\ runs \in 1..MaxRuns
      /\ run.calls \in 0..MaxToolCalls /\ run.batch \in Seq(Actions)
      /\ run.messages \in Seq(Message) /\ run.base <= Len(run.messages)
      /\ (~interrupted => Paired(Transcript(run)))
      /\ Transcript(run) \in Seq(Message) /\ Len(Transcript(run)) > 0
      /\ Transcript(run)[Len(Transcript(run))] = run.messages[Len(run.messages)]
      /\ approvals \in [1..MaxRuns -> ApprovalRows] /\ check \in {"none", "passed", "red", "guarded"}
  BY <1>1, Underway
<1>3. /\ run.batch # <<>> /\ run.calls + Len(run.batch) <= MaxToolCalls + 1
      /\ run.messages[Len(run.messages)] = Call(a)
      /\ run.verified => check \in {"passed", "red", "guarded"}
  BY <1>1 DEF LoopInv, RunInv, TranscriptInv
<1>4. a \in Actions /\ rest \in Seq(Actions) /\ Len(rest) = Len(run.batch) - 1
      /\ Len(run.batch) \in Nat
  BY <1>2, <1>3
<1>5. CASE Thrashes(result) /\ Abandon /\ UNCHANGED <<approvals, check>>
  BY <1>1, <1>2, <1>5, AbandonKeeps
<1>6. CASE Pause(run, "paused", a) /\ UNCHANGED check
  <2>1. /\ stored' \in Seq(Message) /\ (~interrupted => Paired(stored'))
        /\ run' \in RunRows /\ run'.pc = "idle" /\ run'.outcome \in {"paused", "error"}
        /\ approvals' \in [1..MaxRuns -> ApprovalRows]
        /\ run'.outcome = "paused" => stored' = Transcript(run) /\ approvals'[runs].action = a
    BY <1>1, <1>2, <1>4, <1>6, PauseFacts
  <2>2. TypeOK'
    BY <1>1, <1>2, <1>6, <2>1 DEF TypeOK
  <2>3. Pending(Transcript(run)) = <<a>>
    <3>1. Transcript(run)[Len(Transcript(run))] = Call(a) /\ IsCall(Call(a)) /\ Call(a).about = a
      BY <1>2, <1>3, <1>4, MessageFacts
    <3> QED BY <1>2, <3>1, PendingFacts DEF Answered
  <2>4. StoredInv'
    BY <1>1, <1>2, <2>1, <2>3 DEF StoredInv
  <2>5. TranscriptInv' /\ RunInv'
    BY <2>1 DEF TranscriptInv, RunInv
  <2> QED BY <2>2, <2>4, <2>5 DEF LoopInv
<1>7. CASE /\ run' = [answered EXCEPT !.messages = Append(@, Result(a)), !.batch = rest,
                                      !.approval = 0, !.pc = place]
           /\ \/ UNCHANGED approvals
              \/ Granted(a) /\ approvals' = [approvals EXCEPT ![run.approval].state = "consumed"]
           /\ check' = CheckAfter(a, result)
           /\ UNCHANGED stored
  <2> DEFINE messages == Append(run.messages, Result(a))
             next == [answered EXCEPT !.messages = messages, !.batch = rest,
                                      !.approval = 0, !.pc = place]
  <2>1. /\ answered \in RunRows /\ Steady(answered, run)
        /\ answered.verified => \/ a \in Checks /\ result \in {"ran", "red", "guarded"}
                                \/ run.verified /\ ~(a \in Edits /\ result # "failed")
    <3>1. /\ Guarded(run, result) \in RunRows /\ Steady(Guarded(run, result), run)
          /\ Guarded(run, result).verified = run.verified
      BY <1>2, <1>4, GuardedFacts
    <3> DEFINE g == Guarded(run, result)
    <3> HIDE DEF g, a
    <3>2. /\ Noted(g, a, result) \in RunRows /\ Steady(Noted(g, a, result), g)
          /\ Noted(g, a, result).verified =>
               \/ a \in Checks /\ result \in {"ran", "red", "guarded"}
               \/ g.verified /\ ~(a \in Edits /\ result # "failed")
      BY <3>1, NotedFacts DEF g
    <3>3. Steady(Noted(g, a, result), run) /\ g.verified = run.verified
      BY <3>1, <3>2 DEF Steady, g
    <3> QED BY <3>2, <3>3 DEF g
  <2> HIDE DEF answered
  <2>2. /\ Result(a) \in Message /\ Result(a).about = a /\ ~IsCall(Result(a))
    BY <1>4, MessageFacts
  <2>3. messages \in Seq(Message) /\ place \in {"turn", "call"} /\ (place = "call" => rest # <<>>)
        /\ 0 \in 0..MaxRuns
    BY <1>2, <2>2, AgentAssumption
  <2>4. run' = next
    BY <1>7, <2>1 DEF RunRows, Steady
  <2> HIDE DEF a, rest, place, messages
  <2>5. next \in RunRows
    BY <1>4, <2>1, <2>3, Zenon DEF RunRows
  <2>6. /\ next.pc = place /\ next.batch = rest /\ next.calls = run.calls
        /\ next.outcome = run.outcome /\ next.verified = answered.verified
        /\ next.base = run.base /\ next.attached = run.attached /\ next.messages = messages
    <3>1. /\ next.pc = place /\ next.batch = rest /\ next.calls = answered.calls
          /\ next.outcome = answered.outcome /\ next.verified = answered.verified
          /\ next.base = answered.base /\ next.attached = answered.attached
          /\ next.messages = messages
      BY <2>1, Zenon DEF RunRows
    <3> QED BY <2>1, <3>1 DEF Steady
  <2> HIDE DEF next
  <2>7. next.messages = Append(run.messages, Result(a))
    BY <2>6 DEF messages
  <2>8. /\ next.base <= Len(next.messages) /\ Len(next.messages) > 0
        /\ next.attached => next.base < Len(next.messages)
        /\ ~interrupted => Paired(Transcript(next))
    BY <1>1, <1>3, <1>4, <2>2, <2>5, <2>6, <2>7, MessageKeeps
  <2>9. Answered(next.messages)
    BY <1>2, <2>2, <2>7, AppendAnswers
  <2>10. TranscriptInv'
    BY <1>1, <2>3, <2>4, <2>6, <2>8, <2>9 DEF TranscriptInv
  <2>11. approvals' \in [1..MaxRuns -> ApprovalRows]
    <3>1. CASE UNCHANGED approvals
      BY <1>2, <3>1
    <3>2. CASE Granted(a) /\ approvals' = [approvals EXCEPT ![run.approval].state = "consumed"]
      <4>1. run.approval \in 0..MaxRuns /\ run.approval # 0
        BY <1>2, <3>2, RunFields DEF Granted
      <4>2. run.approval \in 1..MaxRuns
        BY <4>1, AgentAssumption
      <4>3. approvals' = [approvals EXCEPT
                            ![run.approval] = [approvals[run.approval] EXCEPT !.state = "consumed"]]
        BY <1>2, <3>2, <4>2
      <4>4. [approvals[run.approval] EXCEPT !.state = "consumed"] \in ApprovalRows
        BY <1>2, <4>2 DEF ApprovalRows
      <4> QED BY <1>2, <4>2, <4>3, <4>4
    <3> QED BY <1>7, <3>1, <3>2
  <2>12. check' \in {"none", "passed", "red", "guarded"}
         /\ (next.verified => check' \in {"passed", "red", "guarded"})
    BY <1>2, <1>3, <1>4, <1>7, <2>1, <2>6, CheckFacts
  <2>13. run.calls + Len(rest) <= MaxToolCalls
    <3>1. MaxToolCalls \in Nat
      BY AgentAssumption
    <3> QED BY <1>2, <1>3, <1>4, <3>1
  <2>14. RunInv'
    BY <1>1, <1>2, <2>3, <2>4, <2>6, <2>12, <2>13 DEF RunInv
  <2> QED BY <1>1, <1>2, <1>7, <2>3, <2>4, <2>5, <2>6, <2>10, <2>11, <2>12, <2>14, GoOnKeeps
<1> QED BY <1>5, <1>6, <1>7 DEF Execute

\* A run that ends with the model's text.
LEMMA TextKeeps ==
    ASSUME LoopInv, run.pc = "conclude", NEW r \in RunRows, r.base = run.base,
           r.attached = run.attached, r.messages = run.messages,
           Save([r EXCEPT !.messages = Append(@, Text)], "completed"),
           approvals' \in [1..MaxRuns -> ApprovalRows], check' \in {"none", "passed", "red", "guarded"},
           UNCHANGED <<runs, interrupted>>
    PROVE  LoopInv'
<1> DEFINE messages == Append(run.messages, Text)
           last == [r EXCEPT !.messages = messages]
<1>1. TypeOK /\ StoredInv /\ run.messages \in Seq(Message)
  BY Underway
<1>2. Answered(run.messages)
  BY DEF LoopInv, TranscriptInv
<1>3. Text \in Message /\ Text.role # "tool"
  BY MessageFacts
<1>4. messages \in Seq(Message)
  BY <1>1, <1>3
<1>5. [r EXCEPT !.messages = Append(@, Text)] = last
  BY DEF RunRows
<1> HIDE DEF messages
<1>6. last \in RunRows
  BY <1>4, Zenon DEF RunRows
<1>7. last.base = run.base /\ last.attached = run.attached /\ last.messages = messages
  BY Zenon DEF RunRows
<1>8. last.messages = Append(run.messages, Text)
  BY <1>7 DEF messages
<1>9. Save(last, "completed")
  BY <1>5
<1> HIDE DEF last
<1>10. last.base <= Len(last.messages) /\ (~interrupted => Paired(Transcript(last)))
  BY <1>2, <1>3, <1>6, <1>7, <1>8, MessageKeeps
<1>11. "completed" \in Ends
  BY DEF Ends
<1>12. /\ stored' \in Seq(Message) /\ (~interrupted => Paired(stored'))
       /\ run' \in RunRows /\ run'.pc = "idle" /\ run'.outcome \in {"completed", "error"}
  BY <1>1, <1>6, <1>9, <1>10, <1>11, SaveFacts
<1> QED BY <1>12, EndKeeps

LEMMA ConcludeKeeps ==
    ASSUME LoopInv, Conclude
    PROVE  LoopInv'
<1>1. /\ run.pc = "conclude" /\ UNCHANGED <<runs, approvals, check, interrupted>>
      /\ Save([run EXCEPT !.messages = Append(@, Text)], "completed")
  BY DEF Conclude
<1>2. /\ run \in RunRows /\ approvals \in [1..MaxRuns -> ApprovalRows]
      /\ check \in {"none", "passed", "red", "guarded"}
  BY <1>1, Underway
<1> QED BY <1>1, <1>2, TextKeeps

\* The rows the verification gate makes: its call, and what the guard notes.
LEMMA GateRows ==
    ASSUME NEW result, run \in RunRows, run.calls < MaxToolCalls
    PROVE  LET called == [run EXCEPT !.calls = @ + 1, !.batch = <<AutoVerify>>]
               answered == [Guarded(called, result) EXCEPT !.batch = <<>>]
           IN  /\ called \in RunRows /\ called.base = run.base /\ called.attached = run.attached
               /\ called.messages = run.messages
               /\ answered \in RunRows /\ answered.base = run.base
               /\ answered.attached = run.attached /\ answered.messages = run.messages
               /\ answered.outcome = run.outcome /\ answered.verified = run.verified
<1> DEFINE calls == run.calls + 1
           called == [run EXCEPT !.calls = @ + 1, !.batch = <<AutoVerify>>]
           guarded == Guarded(called, result)
           answered == [guarded EXCEPT !.batch = <<>>]
<1>1. AutoVerify \in Actions
  BY AgentAssumption DEF Actions
<1>2. calls \in 0..MaxToolCalls /\ <<AutoVerify>> \in Seq(Actions) /\ <<>> \in Seq(Actions)
  <2>1. MaxToolCalls \in Nat /\ run.calls \in 0..MaxToolCalls
    BY AgentAssumption, RunFields
  <2>2. <<>> \in Seq(Actions)
    OBVIOUS
  <2> QED BY <1>1, <2>1, <2>2
<1>3. called = [run EXCEPT !.calls = calls, !.batch = <<AutoVerify>>]
  BY DEF RunRows
<1>4. /\ called \in RunRows /\ called.base = run.base /\ called.attached = run.attached
      /\ called.messages = run.messages /\ called.outcome = run.outcome
      /\ called.verified = run.verified /\ called.batch = <<AutoVerify>>
  <2> HIDE DEF calls, called
  <2>1. [run EXCEPT !.calls = calls, !.batch = <<AutoVerify>>] \in RunRows
    BY <1>2, Zenon DEF RunRows
  <2> QED BY <1>3, <2>1, Zenon DEF RunRows
<1> HIDE DEF called
<1>5. Head(called.batch) \in Actions
  BY <1>1, <1>4
<1>6. guarded \in RunRows /\ Steady(guarded, called) /\ guarded.verified = called.verified
  BY <1>4, <1>5, GuardedFacts
<1> HIDE DEF guarded
<1>7. answered \in RunRows
  BY <1>2, <1>6, Zenon DEF RunRows
<1>8. /\ answered.base = guarded.base /\ answered.attached = guarded.attached
      /\ answered.messages = guarded.messages /\ answered.outcome = guarded.outcome
      /\ answered.verified = guarded.verified
  BY <1>6, Zenon DEF RunRows
<1>9. /\ answered.base = run.base /\ answered.attached = run.attached
      /\ answered.messages = run.messages /\ answered.outcome = run.outcome
      /\ answered.verified = run.verified
  BY <1>4, <1>6, <1>8 DEF Steady
<1> HIDE DEF answered
<1>10. /\ called \in RunRows /\ called.base = run.base /\ called.attached = run.attached
       /\ called.messages = run.messages
       /\ answered \in RunRows /\ answered.base = run.base
       /\ answered.attached = run.attached /\ answered.messages = run.messages
       /\ answered.outcome = run.outcome /\ answered.verified = run.verified
  BY <1>4, <1>7, <1>9
<1> QED BY <1>10, Zenon DEF answered, guarded, called

LEMMA GateKeeps ==
    ASSUME LoopInv, NEW result, Gate(result)
    PROVE  LoopInv'
<1> DEFINE called == [run EXCEPT !.calls = @ + 1, !.batch = <<AutoVerify>>]
           answered == [Guarded(called, result) EXCEPT !.batch = <<>>]
<1>1. run.pc = "conclude" /\ GateCloses /\ UNCHANGED <<runs, interrupted>>
  BY DEF Gate
<1>2. /\ TypeOK /\ run \in RunRows /\ run.outcome = "none" /\ runs \in 1..MaxRuns
      /\ run.calls \in 0..MaxToolCalls /\ run.messages \in Seq(Message)
      /\ run.base \in 0..Len(run.messages) /\ run.attached \in BOOLEAN
      /\ (~interrupted => Paired(Transcript(run))) /\ Transcript(run) \in Seq(Message)
      /\ approvals \in [1..MaxRuns -> ApprovalRows] /\ check \in {"none", "passed", "red", "guarded"}
  BY <1>1, Underway
<1>3. Answered(run.messages) /\ ~run.verified /\ run.calls < MaxToolCalls
  BY <1>1 DEF LoopInv, TranscriptInv, GateCloses
<1>4. AutoVerify \in Actions
  BY AgentAssumption DEF Actions
<1>5. /\ called \in RunRows /\ called.base = run.base /\ called.attached = run.attached
      /\ called.messages = run.messages
      /\ answered \in RunRows /\ answered.base = run.base
      /\ answered.attached = run.attached /\ answered.messages = run.messages
      /\ answered.outcome = run.outcome /\ answered.verified = run.verified
  BY <1>2, <1>3, GateRows
<1> HIDE DEF called, answered
<1>6. CheckAfter(AutoVerify, result) \in {"none", "passed", "red", "guarded"}
  BY <1>2, <1>4, CheckFacts
<1>7. CASE Thrashes(result) /\ Abandon /\ UNCHANGED <<approvals, check>>
  BY <1>1, <1>2, <1>7, AbandonKeeps
<1>8. CASE Pause(called, "gate_paused", AutoVerify) /\ UNCHANGED check
  <2>1. Transcript(called) = Transcript(run) /\ called.base <= Len(called.messages)
    BY <1>2, <1>5, TranscriptForm
  <2>2. /\ stored' \in Seq(Message) /\ (~interrupted => Paired(stored'))
        /\ run' \in RunRows /\ run'.pc = "idle" /\ run'.outcome \in {"gate_paused", "error"}
        /\ approvals' \in [1..MaxRuns -> ApprovalRows]
    BY <1>1, <1>2, <1>4, <1>5, <1>8, <2>1, PauseFacts
  <2> QED BY <1>1, <1>2, <1>8, <2>2, EndKeeps
<1>9. CASE /\ Save([answered EXCEPT !.messages = Append(@, Text)], "completed")
           /\ UNCHANGED approvals /\ check' = CheckAfter(AutoVerify, result)
  BY <1>1, <1>2, <1>5, <1>6, <1>9, TextKeeps
<1>10. CASE /\ run' = Diagnosed(answered) /\ check' = CheckAfter(AutoVerify, result)
            /\ UNCHANGED <<stored, approvals>>
  <2> DEFINE gate == User("gate")
             said == Append(run.messages, Text)
             messages == Append(said, gate)
             mid == [answered EXCEPT !.messages = said]
             next == [answered EXCEPT !.pc = "turn", !.messages = messages]
  <2>1. /\ Text \in Message /\ Text.role # "tool" /\ ~IsCall(Text)
        /\ gate \in Message /\ gate.role # "tool" /\ ~IsCall(gate)
    BY MessageFacts
  <2> HIDE DEF gate
  <2>2. said \in Seq(Message) /\ messages \in Seq(Message)
    BY <1>2, <2>1
  <2>3. run.messages \o <<Text, gate>> = messages
    BY <1>2, <2>1
  <2>4. run' = next
    BY <1>5, <1>10, <2>3 DEF Diagnosed, RunRows, gate
  <2> HIDE DEF said, messages
  <2>5. mid \in RunRows /\ next \in RunRows
    BY <1>5, <2>2, Zenon DEF RunRows
  <2>6. mid.base = answered.base /\ mid.attached = answered.attached /\ mid.messages = said
    BY <1>5, Zenon DEF RunRows
  <2>7. /\ next.base = answered.base /\ next.attached = answered.attached
        /\ next.messages = messages /\ next.pc = "turn" /\ next.outcome = answered.outcome
        /\ next.verified = answered.verified
    BY <1>5, Zenon DEF RunRows
  <2> HIDE DEF mid, next
  <2>8. mid.messages = Append(run.messages, Text)
    BY <2>6 DEF said
  <2>9. /\ mid.base <= Len(mid.messages) /\ Len(mid.messages) > 0
        /\ mid.attached => mid.base < Len(mid.messages)
        /\ ~interrupted => Paired(Transcript(mid))
        /\ Transcript(mid) = Append(Transcript(run), Text)
    BY <1>1, <1>3, <1>5, <2>1, <2>5, <2>6, <2>8, MessageKeeps
  <2>10. Answered(Transcript(mid)) /\ Transcript(mid) \in Seq(Message)
    BY <1>2, <2>1, <2>9, AppendAnswers
  <2>11. mid.base \in 0..Len(said) /\ mid.attached \in BOOLEAN
    BY <2>5, <2>6, <2>9, RunFields
  <2>12. Transcript(next) = Append(Transcript(mid), gate)
    <3> DEFINE attached == mid.attached
               base == mid.base
    <3>1. Joined(attached, base, messages) = Append(Joined(attached, base, said), gate)
      <4> HIDE DEF attached, base
      <4> QED BY <2>1, <2>2, <2>11, JoinedAppend DEF messages, attached, base
    <3>2. Transcript(mid) = Joined(attached, base, said)
      BY <2>6, TranscriptForm
    <3>3. Transcript(next) = Joined(attached, base, messages)
      BY <2>6, <2>7, TranscriptForm
    <3> QED BY <3>1, <3>2, <3>3
  <2>13. ~interrupted => Paired(Transcript(next))
    BY <2>1, <2>9, <2>10, <2>12, AppendPaired
  <2>14. Len(messages) = Len(said) + 1 /\ Len(said) \in Nat /\ Answered(messages)
    BY <2>1, <2>2, Appended, AppendAnswers DEF messages
  <2>15. next.base <= Len(messages) /\ Len(messages) > 0 /\ next.base < Len(messages)
    BY <2>6, <2>7, <2>11, <2>14
  <2>16. TranscriptInv'
    BY <1>1, <2>4, <2>7, <2>13, <2>14, <2>15 DEF TranscriptInv
  <2>17. RunInv'
    BY <1>1, <1>2, <1>3, <1>5, <2>4, <2>7 DEF RunInv
  <2> QED BY <1>1, <1>2, <1>5, <1>6, <1>10, <2>4, <2>5, <2>7, <2>16, <2>17, GoOnKeeps
<1> QED BY <1>7, <1>8, <1>9, <1>10 DEF Gate, answered, called

-----------------------------------------------------------------------------
(* The invariant holds.                                                      *)

LEMMA BatchFacts ==
    ASSUME NEW batch \in Batches
    PROVE  batch \in Seq(Actions) /\ batch # <<>>
<1>1. PICK m \in 0..MaxBatch : batch \in [1..m -> Actions]
  BY DEF Batches, BoundedSeq, SeqOf
<1>2. m \in Nat
  BY AgentAssumption
<1> QED BY <1>1, <1>2 DEF Batches

LEMMA LoopInvInit == Init => LoopInv
<1> SUFFICES ASSUME Init PROVE LoopInv
  OBVIOUS
<1>1. /\ stored = <<>> /\ run = Ended("none") /\ runs = 0 /\ check = "none" /\ interrupted = FALSE
      /\ approvals = [i \in 1..MaxRuns |-> [state |-> "none", action |-> NoAction]]
  BY DEF Init
<1>2. run \in RunRows /\ run.pc = "idle" /\ run.outcome = "none"
  BY <1>1, EndedFacts DEF Ends
<1>3. runs \in 0..MaxRuns /\ stored \in Seq(Message) /\ Len(stored) = 0
  BY <1>1, AgentAssumption
<1>4. approvals \in [1..MaxRuns -> ApprovalRows]
  BY <1>1 DEF ApprovalRows
<1>5. TypeOK
  BY <1>1, <1>2, <1>3, <1>4 DEF TypeOK
<1>6. StoredInv /\ TranscriptInv /\ RunInv
  BY <1>2, <1>3 DEF StoredInv, TranscriptInv, RunInv, Paired
<1> QED BY <1>5, <1>6 DEF LoopInv

LEMMA LoopInvStep == LoopInv /\ [Next]_vars => LoopInv'
<1> SUFFICES ASSUME LoopInv, [Next]_vars PROVE LoopInv'
  OBVIOUS
<1>1. CASE \E goal, attached \in BOOLEAN, approval \in 0..MaxRuns : StartRun(goal, attached, approval)
  BY <1>1, StartRunKeeps
<1>2. CASE Reply(TRUE, <<>>)
  <2>1. <<>> \in Seq(Actions) /\ TRUE \in BOOLEAN
    OBVIOUS
  <2> QED BY <1>2, <2>1, ReplyKeeps
<1>3. CASE \E batch \in Batches : Reply(FALSE, batch)
  <2>1. PICK batch \in Batches : Reply(FALSE, batch)
    BY <1>3
  <2>2. batch \in Seq(Actions) /\ batch # <<>> /\ FALSE \in BOOLEAN
    BY BatchFacts
  <2> QED BY <2>1, <2>2, ReplyKeeps
<1>4. CASE PushCall
  BY <1>4, PushCallKeeps
<1>5. CASE \E result \in {"ran", "red", "failed", "refused", "guarded", "approval"} :
             Execute(result) \/ Gate(result)
  BY <1>5, ExecuteKeeps, GateKeeps
<1>6. CASE Conclude
  BY <1>6, ConcludeKeeps
<1>7. CASE Stop \/ Fault
  BY <1>7, StopKeeps
<1>8. CASE \E i \in 1..MaxRuns : Resolve(i)
  BY <1>8, ResolveKeeps
<1>9. CASE UNCHANGED vars
  BY <1>9 DEF vars, LoopInv, TypeOK, StoredInv, TranscriptInv, RunInv, Transcript
<1> QED BY <1>1, <1>2, <1>3, <1>4, <1>5, <1>6, <1>7, <1>8, <1>9 DEF Next, RunStep

\* What every state of the loop satisfies: the transcript stored and the one of
\* the run under way pair their calls, and a run keeps to its budgets.
THEOREM LoopInvariant == Spec => []LoopInv
BY LoopInvInit, LoopInvStep, PTL DEF Spec

-----------------------------------------------------------------------------
(* What the loop promises.                                                   *)

\* Across pauses, stops, superseded calls, compaction and resumed runs, every call
\* of a request is answered by the message after it and nothing else is a result,
\* unless an attachment came between a call and its result (run_with_context,
\* compact_session_history, persisted_messages).
THEOREM RequestsArePaired == Spec => []RequestsPairCalls
<1>1. LoopInv => RequestsPairCalls
  <2> SUFFICES ASSUME LoopInv PROVE RequestsPairCalls
    OBVIOUS
  <2> DEFINE m == Transcript(run)
  <2>1. TypeOK
    BY DEF LoopInv
  <2>2. ASSUME run.pc = "turn", ~interrupted, NEW i \in DOMAIN m
        PROVE  /\ m[i].about \in Actions /\ m[i].role = "assistant" =>
                    i < Len(m) /\ m[i + 1] = Result(m[i].about)
               /\ m[i].role = "tool" => i > 1 /\ m[i - 1] = Call(m[i].about)
    <3>1. /\ m \in Seq(Message) /\ Paired(m) /\ Len(m) > 0
          /\ m[Len(m)] = run.messages[Len(run.messages)]
      BY <2>2, Underway
    <3>2. ~IsCall(m[Len(m)])
      BY <2>2, <3>1 DEF LoopInv, TranscriptInv, Answered
    <3> HIDE DEF m
    <3>3. i \in 1..Len(m) /\ Len(m) \in Nat
      BY <2>2, <3>1
    <3>4. IsCall(m[i]) => i < Len(m)
      BY <3>2, <3>3
    <3> QED BY <3>1, <3>3, <3>4 DEF Paired, IsCall
  <2> QED BY <2>1, <2>2 DEF RequestsPairCalls
<1> QED BY <1>1, LoopInvariant, PTL

\* The stored transcript a pause leaves ends with the call its approval is for,
\* also after a later run has compacted it (compact_session_history).
THEOREM PausedCallsKept == Spec => []PausesKeepTheirCall
<1>1. LoopInv => PausesKeepTheirCall
  BY CompactedFacts DEF LoopInv, TypeOK, StoredInv, PausesKeepTheirCall
<1> QED BY <1>1, LoopInvariant, PTL

\* Save keeps the outcome it is given, or reports an error.
LEMMA SaveOutcome ==
    ASSUME NEW r, NEW outcome \in Ends, Save(r, outcome)
    PROVE  run'.outcome \in {outcome, "error"}
<1>1. "error" \in Ends
  BY DEF Ends
<1> QED BY <1>1, EndedFacts DEF Save

\* A goal that completes with edits, a turn and a call left has seen a check of
\* its last edit: one ran, whatever it found, or the guard answered one that had
\* failed to run (the verification gate).
THEOREM GoalsAreChecked == Spec => GoalsConcludeChecked
<1>1. LoopInv /\ [Next]_vars => [GoalConcludes => check' # "none"]_vars
  <2> SUFFICES ASSUME LoopInv, Next, GoalConcludes PROVE check' # "none"
    OBVIOUS
  <2> USE DEF GoalConcludes
  <2>1. /\ run.outcome = "none" /\ run.turn \in 0..MaxTurns /\ run.calls \in 0..MaxToolCalls
        /\ check \in {"none", "passed", "red", "guarded"}
        /\ run.verified => check \in {"passed", "red", "guarded"}
    BY Underway DEF LoopInv, RunInv
  <2>2. \A o \in Ends : Ended(o).outcome = o
    BY EndedFacts
  <2>3. {"none", "completed", "paused", "gate_paused", "stopped", "error"} \subseteq Ends
    BY DEF Ends
  <2>4. ~Abandon
    BY <2>2, <2>3 DEF Abandon
  <2>5. CASE Conclude
    <3>1. ~GateCloses /\ UNCHANGED check
      BY <2>5 DEF Conclude
    <3> QED BY <2>1, <3>1 DEF GateCloses
  <2>6. ASSUME NEW result, Gate(result)
        PROVE  check' # "none"
    <3> DEFINE called == [run EXCEPT !.calls = @ + 1, !.batch = <<AutoVerify>>]
               answered == [Guarded(called, result) EXCEPT !.batch = <<>>]
    <3>1. AutoVerify \in Checks /\ AutoVerify \in Actions
      BY AgentAssumption DEF Actions
    <3>2. ~Pause(called, "gate_paused", AutoVerify)
      <4> HIDE DEF called
      <4> QED BY <2>3, SaveOutcome DEF Pause
    <3>3. run' # Diagnosed(answered)
      <4>1. answered \in RunRows /\ answered.outcome = "none"
        <5>1. run \in RunRows /\ run.calls < MaxToolCalls
          BY <2>6, Underway DEF Gate, GateCloses
        <5> HIDE DEF called
        <5> QED BY <2>1, <5>1, GateRows DEF called
      <4> HIDE DEF answered
      <4>2. Diagnosed(answered).outcome = answered.outcome
        BY <4>1, Zenon DEF Diagnosed, RunRows
      <4> QED BY <4>1, <4>2
    <3>4. result \in {"ran", "red", "guarded"} /\ check' = CheckAfter(AutoVerify, result)
      BY <2>4, <2>6, <3>2, <3>3 DEF Gate
    <3> QED BY <2>1, <3>1, <3>4, CheckFacts
  <2>7. CASE Stop
    BY <2>3, <2>7, SaveOutcome DEF Stop
  <2>8. ~Fault
    BY <2>4 DEF Fault
  <2>9. ~(\E i \in 1..MaxRuns : Resolve(i))
    BY <2>1 DEF Resolve
  <2> QED BY <2>5, <2>6, <2>7, <2>8, <2>9
        DEF Next, RunStep, StartRun, Reply, PushCall, Execute
<1> QED BY <1>1, LoopInvariant, PTL DEF GoalsConcludeChecked, Spec
================================================================================
