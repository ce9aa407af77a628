---------------------------- MODULE PoliciesProofs ----------------------------
(***************************************************************************)
(* The judge policy, for any number of blocks and whatever its judges say    *)
(* and in whatever order: what the builder holds is what was heard, so       *)
(* nothing is lost and the tool calls leave as ToolGate promises. Then the   *)
(* administrator's preview, the request as a chain of policies records it,   *)
(* what leaves that chain, and that it keeps the protocol of a stream.       *)
(***************************************************************************)
EXTENDS Policies, FiniteSetTheorems, NaturalsInduction, WellFoundedInduction, SequenceTheorems, TLAPS

-----------------------------------------------------------------------------
(* Sequences by their members and by the order these stand in.              *)

Members(s) == {s[i] : i \in DOMAIN s}
Ordered(s, R) == \A i, j \in DOMAIN s : i < j => <<s[i], s[j]>> \in R

-----------------------------------------------------------------------------
(* SimpleLLMPolicy.                                                         *)

FromUpstream(x) == x.kind \in Judge!Kinds
IsToolUse(x)    == x.kind \in {"tool", "new_tool"}

(* What may stand before what on the wire.                                  *)
Rule ==
  {p \in Judge!Wire \X Judge!Wire :
     /\ IsToolUse(p[1]) => IsToolUse(p[2])
     /\ FromUpstream(p[1]) /\ FromUpstream(p[2]) /\ (p[1].kind = "tool" <=> p[2].kind = "tool")
          => p[1].from < p[2].from}

Put(kind, n) == [kind |-> kind, from |-> n]

(* The orchestrator of one response: results are what tasks returned, and    *)
(* collect returns when it has them all.                                    *)
TasksInv ==
  /\ \A i \in Judge!Block : i > count => task[i] = "none" /\ result[i] = "missing"
  /\ \A i \in 1..count :
       /\ task[i] \notin {"none", "raised"}
       /\ result[i] # "missing" =>
            /\ task[i] \in Judge!Actions \cup {"cancelled"}
            /\ result[i] = IF task[i] = "cancelled" THEN "bailed" ELSE task[i]
       /\ mode = "returned" => result[i] # "missing"
       /\ task[i] = "failed_pass" => onError = "pass"
       /\ task[i] = "failed_block" => onError = "block"

(* Tools are tagged in upstream's order, all of them when streaming.        *)
TagsInv ==
  /\ \A i \in 1..count : tags[i] \in DOMAIN upstream /\ upstream[tags[i]] = "tool"
  /\ \A i, j \in 1..count : i < j => tags[i] < tags[j]
  /\ streaming => \A n \in DOMAIN upstream : upstream[n] = "tool" => n \in Members(tags)
  /\ ~streaming => count = 0
  /\ phase \in {"reading", "judging"} => mode = "open"
  /\ phase = "collecting" => streaming /\ mode = "waiting"
  /\ phase = "done" => mode = "returned" \/ ~streaming

(* The block that a judge was asked about has no answer yet.                *)
Awaited(n) == phase = "judging" /\ n = Len(upstream)

SaidInv ==
  /\ \A n \in Judge!Block :
       /\ n \notin DOMAIN upstream \/ Awaited(n) => said[n] = "none"
       /\ said[n] = "failed_pass" => onError = "pass"
       /\ said[n] = "failed_block" => onError = "block"
       /\ said[n] \in Judge!Failed => judgeError
       /\ said[n] # "none" /\ upstream[n] = "tool" => ~streaming
       /\ said[n] # "none" => upstream[n] # "other"
  /\ phase = "judging" =>
       /\ upstream # <<>>
       /\ upstream[Len(upstream)] \in IF streaming THEN {"text"} ELSE {"text", "empty", "tool"}
  /\ phase # "gone" => \A n \in DOMAIN upstream :
       ~Awaited(n) /\ upstream[n] \in (IF streaming THEN {"text"} ELSE {"text", "tool"}) => said[n] # "none"

(* The builder before the end: what was passed is out or buffered, and what  *)
(* was blocked is recorded.                                                 *)
BuilderInv ==
  phase # "done" =>
    /\ \A x \in Members(out) : x.kind \in {"text", "other", "new_text"}
    /\ \A x \in Members(out) : x.from \in DOMAIN upstream /\ ~Awaited(x.from)
    /\ \A x \in Members(tools) : IsToolUse(x) /\ x.from \in DOMAIN upstream /\ ~Awaited(x.from)
    /\ Ordered(out, Rule) /\ Ordered(tools, Rule)
    /\ \A n \in DOMAIN upstream :
         /\ upstream[n] = "other" => Put("other", n) \in Members(out)
         /\ upstream[n] = "text" /\ Judge!Passed(said[n]) => Put("text", n) \in Members(out)
    /\ \A n \in Judge!Block :
         /\ Put("tool", n) \in Members(tools) <=>
              n \in DOMAIN upstream /\ upstream[n] = "tool" /\ Judge!Passed(said[n])
         /\ n \in Members(blocked) <=>
              n \in DOMAIN upstream /\ upstream[n] = "tool" /\ said[n] = "failed_block"

(* The response when it is done.                                            *)
DoneInv ==
  phase = "done" =>
    /\ Judge!NothingVanishes /\ Judge!FailureShows /\ Judge!StopReasonTrue
    /\ Ordered(out, Rule)
    /\ \A n \in Judge!Block :
         Put("tool", n) \in Members(out) <=>
           n \in DOMAIN upstream /\ upstream[n] = "tool" /\ Judge!Passed(Judge!Heard(n))

JudgeInv == Judge!TypeOK /\ TasksInv /\ TagsInv /\ SaidInv /\ BuilderInv /\ DoneInv

(* What finalize is given: of every block, what its judge let through.      *)
Ready(c, t, b, failed) ==
  /\ c \in Seq(Judge!Wire) /\ t \in Seq(Judge!Wire) /\ b \in Seq(Judge!Block) /\ failed \in BOOLEAN
  /\ Ordered(c, Rule) /\ Ordered(t, Rule)
  /\ \A x \in Members(c) : x.kind \in {"text", "other", "new_text"}
  /\ \A x \in Members(t) : IsToolUse(x)
  /\ \A n \in DOMAIN upstream :
       /\ upstream[n] = "other" => Put("other", n) \in Members(c)
       /\ upstream[n] = "text" =>
            /\ Judge!Heard(n) \in Judge!Actions
            /\ Judge!Passed(Judge!Heard(n)) => Put("text", n) \in Members(c)
       /\ upstream[n] = "tool" => Judge!Heard(n) \in Judge!Actions \cup {"cancelled"}
       /\ Judge!Heard(n) \in Judge!Failed => failed
       /\ Judge!Heard(n) = "failed_pass" => onError = "pass"
  /\ \A n \in Judge!Block :
       /\ Put("tool", n) \in Members(t) <=>
            n \in DOMAIN upstream /\ upstream[n] = "tool" /\ Judge!Passed(Judge!Heard(n))
       /\ n \in Members(b) <=>
            /\ n \in DOMAIN upstream /\ upstream[n] = "tool"
            /\ Judge!Heard(n) \in {"failed_block", "cancelled"}

(* A set of natural numbers that is not empty has a least one.              *)
LEMMA LeastElement ==
  ASSUME NEW S \in SUBSET Nat, S # {} PROVE \E e \in S : \A d \in S : e <= d
<1>1. PICK e \in S : \A d \in S : ~(<<d, e>> \in OpToRel(<, Nat))
  BY WFMin, NatLessThanWellFounded
<1>2. \A d \in S : ~(d < e)
  BY <1>1 DEF OpToRel
<1>3. QED
  BY <1>2

(* A sequence joined of two has the members of both, and stands in an order  *)
(* that both keep and that puts the one before the other.                   *)
LEMMA Joined ==
  ASSUME NEW S, NEW u \in Seq(S), NEW v \in Seq(S)
  PROVE  /\ u \o v \in Seq(S)
         /\ Members(u \o v) = Members(u) \cup Members(v)
         /\ \A R : Ordered(u, R) /\ Ordered(v, R) /\ Members(u) \X Members(v) \subseteq R
                     => Ordered(u \o v, R)
<1> DEFINE w == u \o v
<1>1. w \in Seq(S) /\ Len(w) = Len(u) + Len(v) /\ Len(u) \in Nat /\ Len(v) \in Nat
  OBVIOUS
<1>2. \A i \in 1..Len(w) : w[i] = IF i <= Len(u) THEN u[i] ELSE v[i - Len(u)]
  OBVIOUS
<1>3. DOMAIN w = 1..Len(w) /\ DOMAIN u = 1..Len(u) /\ DOMAIN v = 1..Len(v)
  BY <1>1
<1> HIDE DEF w
<1>4. \A i \in DOMAIN w : w[i] \in Members(u) \/ w[i] \in Members(v)
  <2> TAKE i \in DOMAIN w
  <2>1. CASE i <= Len(u)
    BY <2>1, <1>1, <1>2, <1>3 DEF Members
  <2>2. CASE ~(i <= Len(u))
    <3>1. i - Len(u) \in DOMAIN v
      BY <2>2, <1>1, <1>3
    <3>2. QED
      BY <2>2, <3>1, <1>2, <1>3 DEF Members
  <2>3. QED
    BY <2>1, <2>2
<1>5. \A i \in DOMAIN u : i \in DOMAIN w /\ w[i] = u[i]
  BY <1>1, <1>2, <1>3
<1>6. \A i \in DOMAIN v : i + Len(u) \in DOMAIN w /\ w[i + Len(u)] = v[i]
  <2> TAKE i \in DOMAIN v
  <2>1. i + Len(u) \in 1..Len(w) /\ ~(i + Len(u) <= Len(u)) /\ (i + Len(u)) - Len(u) = i
    BY <1>1, <1>3
  <2>2. QED
    BY <2>1, <1>2, <1>3
<1>7. Members(w) = Members(u) \cup Members(v)
  BY <1>4, <1>5, <1>6 DEF Members
<1>8. ASSUME NEW R, Ordered(u, R), Ordered(v, R), Members(u) \X Members(v) \subseteq R
      PROVE  Ordered(w, R)
  <2> SUFFICES ASSUME NEW i \in DOMAIN w, NEW j \in DOMAIN w, i < j PROVE <<w[i], w[j]>> \in R
    BY DEF Ordered
  <2>1. CASE j <= Len(u)
    <3>1. i \in DOMAIN u /\ j \in DOMAIN u
      BY <2>1, <1>1, <1>3
    <3>2. QED
      BY <3>1, <1>5, <1>8 DEF Ordered
  <2>2. CASE ~(i <= Len(u))
    <3>1. i - Len(u) \in DOMAIN v /\ j - Len(u) \in DOMAIN v /\ i - Len(u) < j - Len(u)
      BY <2>2, <1>1, <1>3
    <3>2. w[i] = v[i - Len(u)] /\ w[j] = v[j - Len(u)]
      BY <2>2, <1>1, <1>2, <1>3
    <3>3. QED
      BY <3>1, <3>2, <1>8 DEF Ordered
  <2>3. CASE i <= Len(u) /\ ~(j <= Len(u))
    <3>1. i \in DOMAIN u /\ j - Len(u) \in DOMAIN v
      BY <2>3, <1>1, <1>3
    <3>2. w[i] = u[i] /\ w[j] = v[j - Len(u)]
      BY <2>3, <1>1, <1>2, <1>3
    <3>3. w[i] \in Members(u) /\ w[j] \in Members(v)
      BY <3>1, <3>2 DEF Members
    <3>4. QED
      BY <3>3, <1>8
  <2>4. QED
    BY <2>1, <2>2, <2>3, <1>1, <1>3
<1>9. QED
  BY <1>1, <1>7, <1>8 DEF w

(* What the recursive function in FlattenSeq says exists, for any number of  *)
(* sequences.                                                               *)
LEMMA FlatteningExists ==
  ASSUME NEW S, NEW f \in Seq(Seq(S)), NEW n \in 0..Len(f)
  PROVE  \E g : g = [i \in 1..n |-> IF i = 1 THEN f[i] ELSE g[i - 1] \o f[i]]
<1> DEFINE Says(k, g) == g = [i \in 1..k |-> IF i = 1 THEN f[i] ELSE g[i - 1] \o f[i]]
           without == {k \in 0..Len(f) : ~ \E g : Says(k, g)}
<1>1. Says(0, <<>>)
  OBVIOUS
<1>2. ASSUME NEW k \in 0..Len(f), k < Len(f), NEW g, Says(k, g) PROVE \E h : Says(k + 1, h)
  <2> DEFINE h == [i \in 1..(k + 1) |-> IF i <= k THEN g[i] ELSE IF i = 1 THEN f[i] ELSE g[i - 1] \o f[i]]
  <2>1. Len(f) \in Nat
    OBVIOUS
  <2>2. \A i \in 1..k : g[i] = IF i = 1 THEN f[i] ELSE g[i - 1] \o f[i]
    BY <1>2
  <2>3. \A i \in 1..(k + 1) : h[i] = IF i = 1 THEN f[i] ELSE h[i - 1] \o f[i]
    <3> TAKE i \in 1..(k + 1)
    <3>1. i # 1 => i - 1 \in 1..k /\ h[i - 1] = g[i - 1]
      BY <2>1
    <3>2. QED
      BY <3>1, <2>1, <2>2
  <2>4. Says(k + 1, h)
    BY <2>3
  <2>5. QED
    BY <2>4
<1> HIDE DEF Says
<1>3. SUFFICES ASSUME without # {} PROVE FALSE
  BY DEF Says
<1>4. Len(f) \in Nat /\ without \in SUBSET Nat
  OBVIOUS
<1>5. PICK k \in without : \A d \in without : k <= d
  BY <1>3, <1>4, LeastElement
<1>6. k # 0
  BY <1>1, <1>5
<1>7. k - 1 \in 0..Len(f) /\ k - 1 < Len(f) /\ ~(k <= k - 1)
  BY <1>4, <1>5, <1>6
<1>8. k - 1 \notin without
  BY <1>5, <1>7
<1>9. PICK g : Says(k - 1, g)
  BY <1>7, <1>8
<1>10. \E h : Says((k - 1) + 1, h)
  BY <1>2, <1>7, <1>9
<1>11. QED
  BY <1>4, <1>5, <1>10

(* FlattenSeq: the members of all its sequences, and in an order that each   *)
(* of these keeps and that puts the earlier before the later.               *)
LEMMA Flattened ==
  ASSUME NEW S, NEW f \in Seq(Seq(S))
  PROVE  LET w == Judge!FlattenSeq(f) IN
         /\ w \in Seq(S)
         /\ Members(w) = UNION {Members(f[i]) : i \in DOMAIN f}
         /\ \A R : (/\ \A i \in DOMAIN f : Ordered(f[i], R)
                    /\ \A i, j \in DOMAIN f : i < j => Members(f[i]) \X Members(f[j]) \subseteq R)
                   => Ordered(w, R)
<1> DEFINE n == Len(f)
           g == CHOOSE g : g = [i \in 1..n |-> IF i = 1 THEN f[i] ELSE g[i - 1] \o f[i]]
           Upto(k) == UNION {Members(f[i]) : i \in 1..k}
           Keeps(R) == /\ \A i \in DOMAIN f : Ordered(f[i], R)
                       /\ \A i, j \in DOMAIN f : i < j => Members(f[i]) \X Members(f[j]) \subseteq R
           Good(k) == /\ g[k] \in Seq(S) /\ Members(g[k]) = Upto(k)
                      /\ \A R : Keeps(R) => Ordered(g[k], R)
           bad == {k \in 1..n : ~Good(k)}
<1>1. n \in Nat /\ DOMAIN f = 1..n
  OBVIOUS
<1>2. CASE n = 0
  <2>1. f = <<>>
    BY <1>1, <1>2
  <2>2. Judge!FlattenSeq(f) = <<>>
    BY <2>1 DEF Judge!FlattenSeq
  <2>3. Members(<<>>) = {} /\ DOMAIN f = {} /\ \A R : Ordered(<<>>, R)
    BY <2>1 DEF Members, Ordered
  <2>4. UNION {Members(f[i]) : i \in DOMAIN f} = {}
    BY <2>3
  <2>5. QED
    BY <2>2, <2>3, <2>4
<1>3. CASE n # 0
  <2>1. g = [i \in 1..n |-> IF i = 1 THEN f[i] ELSE g[i - 1] \o f[i]]
    <3>1. n \in 0..Len(f)
      BY <1>1
    <3>2. \E h : h = [i \in 1..n |-> IF i = 1 THEN f[i] ELSE h[i - 1] \o f[i]]
      BY <3>1, FlatteningExists
    <3>3. QED
      BY <3>2
  <2>2. Judge!FlattenSeq(f) = g[n]
    BY <1>3 DEF Judge!FlattenSeq
  <2> HIDE DEF g
  <2>3. g[1] = f[1] /\ \A k \in 2..n : g[k] = g[k - 1] \o f[k]
    <3>1. 1 \in 1..n /\ \A k \in 2..n : k \in 1..n /\ k # 1
      BY <1>1, <1>3
    <3>2. QED
      BY <2>1, <3>1
  <2>4. Good(1)
    <3>1. Upto(1) = Members(f[1])
      OBVIOUS
    <3>2. QED
      BY <2>3, <3>1, <1>1, <1>3
  <2>5. ASSUME NEW k \in 2..n, Good(k - 1) PROVE Good(k)
    <3>1. g[k - 1] \in Seq(S) /\ f[k] \in Seq(S) /\ g[k] = g[k - 1] \o f[k]
      <4>1. k \in DOMAIN f
        BY <1>1
      <4>2. f[k] \in Seq(S)
        BY <4>1
      <4>3. g[k - 1] \in Seq(S)
        BY <2>5
      <4>4. QED
        BY <2>3, <4>2, <4>3
    <3>2. Upto(k) = Upto(k - 1) \cup Members(f[k])
      <4>1. 1..k = 1..(k - 1) \cup {k}
        BY <1>1
      <4>2. QED
        BY <4>1
    <3>3. g[k] \in Seq(S) /\ Members(g[k]) = Upto(k)
      <4>1. Members(g[k - 1]) = Upto(k - 1)
        BY <2>5
      <4> DEFINE u == g[k - 1]
                 v == f[k]
      <4> HIDE DEF u, v
      <4>2. u \in Seq(S) /\ v \in Seq(S) => u \o v \in Seq(S) /\ Members(u \o v) = Members(u) \cup Members(v)
        BY Joined
      <4>3. QED
        BY <3>1, <3>2, <4>1, <4>2 DEF u, v
    <3>4. ASSUME NEW R, Keeps(R) PROVE Ordered(g[k], R)
      <4>1. Ordered(g[k - 1], R) /\ Ordered(f[k], R)
        BY <2>5, <3>4, <1>1
      <4>2. \A i \in 1..(k - 1) : Members(f[i]) \X Members(f[k]) \subseteq R
        <5>1. \A i \in 1..(k - 1) : i \in DOMAIN f /\ k \in DOMAIN f /\ i < k
          BY <1>1
        <5>2. QED
          BY <3>4, <5>1
      <4>3. Upto(k - 1) \X Members(f[k]) \subseteq R
        BY <4>2
      <4>4. Members(g[k - 1]) \X Members(f[k]) \subseteq R
        BY <4>3, <2>5
      <4>5. QED
        BY <3>1, <4>1, <4>4, Joined
    <3>5. QED
      BY <3>3, <3>4
  <2> HIDE DEF Good
  <2>6. bad = {}
    <3> SUFFICES ASSUME bad # {} PROVE FALSE
      OBVIOUS
    <3>0. bad \in SUBSET Nat
      BY <1>1
    <3>1. PICK k \in bad : \A d \in bad : k <= d
      BY LeastElement, <3>0
    <3>2. k # 1 /\ k \in 2..n /\ k - 1 \in 1..n /\ k - 1 \notin bad
      BY <3>1, <2>4, <1>1
    <3>3. QED
      BY <3>1, <3>2, <2>5
  <2>7. Good(n)
    BY <2>6, <1>1, <1>3
  <2>8. QED
    BY <2>2, <2>7, <1>1 DEF Good
<1>4. QED
  BY <1>2, <1>3

-----------------------------------------------------------------------------
(* What a decision adds to the response.                                    *)

(* A sequence over members that may all follow each other.                  *)
LEMMA AnyOrder ==
  ASSUME NEW S, NEW R, S \X S \subseteq R, NEW s \in Seq(S)
  PROVE  Ordered(s, R) /\ Members(s) \subseteq S
BY DEF Ordered, Members

(* One piece.                                                               *)
LEMMA OnePiece ==
  ASSUME NEW kind, NEW n
  PROVE  /\ Members(Judge!Piece(kind, n)) = {Put(kind, n)}
         /\ \A R : Ordered(Judge!Piece(kind, n), R)
         /\ \A S : Put(kind, n) \in S => Judge!Piece(kind, n) \in Seq(S)
         /\ Members(<<>>) = {} /\ \A R : Ordered(<<>>, R)
BY DEF Judge!Piece, Put, Members, Ordered

(* What the blocks of a replacement come to, of one kind.                   *)
LEMMA OfReplacement ==
  ASSUME NEW kind \in {"new_text", "new_tool"}, NEW n \in Judge!Block, NEW rep \in Judge!Replacements
  PROVE  LET c == Judge!FlattenSeq([i \in DOMAIN rep |-> IF rep[i] = kind THEN Judge!Piece(kind, n) ELSE <<>>])
         IN  c \in Seq(Judge!Wire) /\ Ordered(c, Rule) /\ Members(c) \subseteq {Put(kind, n)}
<1> DEFINE S == {Put(kind, n)}
           f == [i \in DOMAIN rep |-> IF rep[i] = kind THEN Judge!Piece(kind, n) ELSE <<>>]
           c == Judge!FlattenSeq(f)
<1>1. Put(kind, n) \in Judge!Wire /\ <<Put(kind, n), Put(kind, n)>> \in Rule
  BY DEF Put, Judge!Wire, Rule, FromUpstream, IsToolUse, Judge!Kinds
<1>2. Len(rep) \in Nat /\ DOMAIN rep = 1..Len(rep)
  <2>1. rep = <<>> \/ rep = <<"new_text">> \/ rep = <<"new_tool">> \/ rep = <<"new_tool", "new_text">>
    BY DEF Judge!Replacements
  <2>2. QED
    BY <2>1
<1>3. f \in Seq(Seq(S))
  <2>1. \A i \in DOMAIN rep : f[i] \in Seq(S)
    BY OnePiece
  <2>2. f \in [1..Len(rep) -> Seq(S)]
    BY <1>2, <2>1
  <2>3. QED
    BY <1>2, <2>2
<1>4. c \in Seq(S)
  BY <1>3, Flattened
<1> HIDE DEF c
<1>5. Ordered(c, Rule) /\ Members(c) \subseteq S
  <2>1. S \X S \subseteq Rule
    BY <1>1
  <2>2. QED
    BY <2>1, <1>4, AnyOrder
<1>6. c \in Seq(Judge!Wire)
  BY <1>1, <1>4
<1>7. QED
  BY <1>5, <1>6 DEF c

(* commit_text and the text blocks of a replacement: one text at most.      *)
LEMMA CommittedIs ==
  ASSUME NEW n \in Judge!Block, NEW v, NEW rep \in Judge!Replacements
  PROVE  LET c == Judge!Committed(n, v, rep) IN
         /\ c \in Seq(Judge!Wire) /\ Ordered(c, Rule)
         /\ Members(c) \subseteq {Put("text", n), Put("new_text", n)}
         /\ Put("text", n) \in Members(c) <=> Judge!Passed(v) /\ upstream[n] = "text"
<1> Put("text", n) \in Judge!Wire /\ Put("text", n) # Put("new_text", n)
  BY DEF Put, Judge!Wire, Judge!Kinds
<1>1. CASE v = "replace"
  <2>1. ~Judge!Passed(v)
    BY <1>1 DEF Judge!Passed
  <2>2. QED
    BY <1>1, <2>1, OfReplacement DEF Judge!Committed
<1>2. CASE v # "replace" /\ Judge!Passed(v) /\ upstream[n] = "text"
  BY <1>2, OnePiece DEF Judge!Committed
<1>3. CASE v # "replace" /\ ~(Judge!Passed(v) /\ upstream[n] = "text")
  BY <1>3, OnePiece DEF Judge!Committed
<1>4. QED
  BY <1>1, <1>2, <1>3

(* The tool calls that wait for the end: the one judged, or the ones of a    *)
(* replacement.                                                             *)
LEMMA BufferedIs ==
  ASSUME NEW n \in Judge!Block, NEW v, NEW rep \in Judge!Replacements
  PROVE  LET c == Judge!Buffered(n, v, rep) IN
         /\ c \in Seq(Judge!Wire) /\ Ordered(c, Rule)
         /\ Members(c) \subseteq {Put("tool", n), Put("new_tool", n)}
         /\ Put("tool", n) \in Members(c) <=> Judge!Passed(v) /\ upstream[n] = "tool"
<1> Put("tool", n) \in Judge!Wire /\ Put("tool", n) # Put("new_tool", n)
  BY DEF Put, Judge!Wire, Judge!Kinds
<1>1. CASE v = "replace"
  <2>1. ~Judge!Passed(v)
    BY <1>1 DEF Judge!Passed
  <2>2. QED
    BY <1>1, <2>1, OfReplacement DEF Judge!Buffered
<1>2. CASE v # "replace" /\ Judge!Passed(v) /\ upstream[n] = "tool"
  BY <1>2, OnePiece DEF Judge!Buffered
<1>3. CASE v # "replace" /\ ~(Judge!Passed(v) /\ upstream[n] = "tool")
  BY <1>3, OnePiece DEF Judge!Buffered
<1>4. QED
  BY <1>1, <1>2, <1>3

(* A tool call that is not let through is recorded, and nothing else.       *)
LEMMA BlockedIs ==
  ASSUME NEW n \in Judge!Block, NEW v
  PROVE  LET b == Judge!Blocked(n, v) IN
         /\ b \in Seq(Judge!Block)
         /\ Members(b) = IF v \in {"failed_block", "bailed"} /\ upstream[n] = "tool" THEN {n} ELSE {}
<1>1. Members(<<n>>) = {n} /\ Members(<<>>) = {}
  BY DEF Members
<1>2. <<n>> \in Seq(Judge!Block) /\ <<>> \in Seq(Judge!Block)
  OBVIOUS
<1>3. CASE v \in {"failed_block", "bailed"} /\ upstream[n] = "tool"
  BY <1>1, <1>2, <1>3 DEF Judge!Blocked
<1>4. CASE ~(v \in {"failed_block", "bailed"} /\ upstream[n] = "tool")
  BY <1>1, <1>2, <1>4 DEF Judge!Blocked
<1>5. QED
  BY <1>3, <1>4

(* What may stand before what.                                              *)
LEMMA RuleIs ==
  ASSUME NEW x \in Judge!Wire, NEW y \in Judge!Wire
  PROVE  <<x, y>> \in Rule <=>
           /\ IsToolUse(x) => IsToolUse(y)
           /\ FromUpstream(x) /\ FromUpstream(y) /\ (x.kind = "tool" <=> y.kind = "tool")
                => x.from < y.from
BY DEF Rule

(* A piece is of a block, or one of the three the builder writes itself.    *)
LEMMA WireIs ==
  ASSUME NEW x \in Judge!Wire
  PROVE  /\ x = Put(x.kind, x.from)
         /\ x.from \in Nat /\ (x.kind \notin {"warning", "marker", "fallback"} => x.from \in Judge!Block)
         /\ x.kind \in Judge!Kinds \cup {"new_text", "new_tool", "warning", "marker", "fallback"}
BY PoliciesAssumption DEF Judge!Wire, Put, Judge!Block, Judge!Kinds

-----------------------------------------------------------------------------
(* The judges of a response.                                                *)

(* What a judge may say.                                                    *)
LEMMA VerdictIs ==
  ASSUME NEW v \in Judge!Verdicts
  PROVE  /\ v \in Judge!Actions
         /\ v = "failed_pass" => onError = "pass"
         /\ v = "failed_block" => onError # "pass"
BY DEF Judge!Verdicts, Judge!Actions

(* Collect has seen every judge when it returns.                            *)
LEMMA Wakes ==
  ASSUME Judge!Judges!TypeOK, TasksInv, Judge!Judges!Wake
  PROVE  /\ Judge!Judges!TypeOK'
         /\ onError' = onError => TasksInv'
         /\ mode' = "returned" => task' = task
<1> DEFINE done == {i \in Judge!Judges!Pending : Judge!Judges!Finished(i)}
           left == Judge!Judges!Pending \ done
           triggered == ~bailed /\ \E i \in done : task[i] \in {"failed_block"}
<1>1. /\ mode = "waiting" /\ count' = count
      /\ result' = Judge!Judges!Record(done)
      /\ bailed' = (bailed \/ triggered)
      /\ task' = IF triggered THEN Judge!Judges!Cancel(left) ELSE task
      /\ mode' = IF left = {} THEN "returned" ELSE "waiting"
  BY DEF Judge!Judges!Wake
<1>2. /\ Judge!Judges!Pending = {i \in 1..count : result[i] = "missing"}
      /\ 1..count \subseteq Judge!Block /\ count \in Nat
  BY PoliciesAssumption DEF Judge!Judges!Pending, Judge!Judges!Submitted, Judge!Judges!TypeOK, Judge!Block
<1>3. /\ result \in [Judge!Block -> Judge!Actions \cup {"missing", "bailed"}]
      /\ task \in [Judge!Block -> Judge!Actions \cup {"none", "running", "cancelling", "cancelled", "raised"}]
  BY DEF Judge!Judges!TypeOK, Judge!Judges!Item, Judge!Block, Judge!Judges!Unfinished, Judge!Judges!NoResult
<1>4. \A i \in done : i \in 1..count /\ result[i] = "missing" /\ task[i] \in Judge!Actions \cup {"cancelled"}
  BY <1>2, <1>3 DEF Judge!Judges!Finished, Judge!Judges!Unfinished, TasksInv
<1>5. \A i \in Judge!Block :
        result'[i] = IF i \notin done THEN result[i] ELSE IF task[i] = "cancelled" THEN "bailed" ELSE task[i]
  <2>1. \A i \in Judge!Block : i \in done => (task[i] \in Judge!Judges!NoResult <=> task[i] = "cancelled")
    BY <1>4 DEF Judge!Judges!NoResult, Judge!Actions
  <2>2. QED
    BY <1>1, <2>1 DEF Judge!Judges!Record, Judge!Judges!Item, Judge!Block
<1>6. \A i \in Judge!Block :
        task'[i] = IF triggered /\ i \in left /\ task[i] = "running" THEN "cancelling" ELSE task[i]
  BY <1>1 DEF Judge!Judges!Cancel, Judge!Judges!Item, Judge!Block
<1>7. result' \in [Judge!Block -> Judge!Actions \cup {"missing", "bailed"}]
  <2>1. DOMAIN result' = Judge!Block /\ result' = [i \in Judge!Block |-> result'[i]]
    BY <1>1 DEF Judge!Judges!Record, Judge!Judges!Item, Judge!Block
  <2>2. \A i \in Judge!Block : result'[i] \in Judge!Actions \cup {"missing", "bailed"}
    BY <1>3, <1>4, <1>5
  <2>3. QED
    BY <2>1, <2>2
<1>8. task' \in [Judge!Block -> Judge!Actions \cup {"none", "running", "cancelling", "cancelled", "raised"}]
  <2>1. task' = [i \in Judge!Block |-> task'[i]]
    BY <1>1, <1>3 DEF Judge!Judges!Cancel, Judge!Judges!Item, Judge!Block
  <2>2. \A i \in Judge!Block :
          task'[i] \in Judge!Actions \cup {"none", "running", "cancelling", "cancelled", "raised"}
    BY <1>3, <1>6
  <2>3. QED
    BY <2>1, <2>2
<1>9. Judge!Judges!TypeOK'
  BY <1>1, <1>7, <1>8 DEF Judge!Judges!TypeOK, Judge!Judges!Item, Judge!Block, Judge!Judges!Unfinished,
    Judge!Judges!NoResult, Judge!Judges!Modes
<1>10. ASSUME onError' = onError PROVE TasksInv'
  <2>1. ASSUME NEW i \in Judge!Block, i > count' PROVE task'[i] = "none" /\ result'[i] = "missing"
    <3>1. i \notin done /\ i \notin left
      BY <2>1, <1>1, <1>2
    <3>2. QED
      BY <2>1, <3>1, <1>1, <1>5, <1>6 DEF TasksInv
  <2>2. ASSUME NEW i \in 1..count'
        PROVE  /\ task'[i] \notin {"none", "raised"}
               /\ result'[i] # "missing" =>
                    /\ task'[i] \in Judge!Actions \cup {"cancelled"}
                    /\ result'[i] = IF task'[i] = "cancelled" THEN "bailed" ELSE task'[i]
               /\ mode' = "returned" => result'[i] # "missing"
               /\ task'[i] = "failed_pass" => onError' = "pass"
               /\ task'[i] = "failed_block" => onError' = "block"
    <3>1. i \in Judge!Block /\ i \in 1..count
      BY <1>1, <1>2
    <3>2. CASE i \in done
      <4>1. task'[i] = task[i] /\ task[i] \in Judge!Actions \cup {"cancelled"}
        BY <3>1, <3>2, <1>4, <1>6
      <4>2. result'[i] = IF task[i] = "cancelled" THEN "bailed" ELSE task[i]
        BY <3>1, <3>2, <1>5
      <4>3. "missing" \notin Judge!Actions /\ "none" \notin Judge!Actions /\ "raised" \notin Judge!Actions
        BY DEF Judge!Actions
      <4>4. (task[i] = "failed_pass" => onError = "pass") /\ (task[i] = "failed_block" => onError = "block")
        BY <3>1 DEF TasksInv
      <4>5. QED
        BY <4>1, <4>2, <4>3, <4>4, <1>10
    <3>3. CASE i \in left
      <4>1. result'[i] = "missing" /\ mode' # "returned"
        BY <3>1, <3>3, <1>1, <1>2, <1>5
      <4>2. task'[i] = task[i] \/ task'[i] = "cancelling"
        BY <3>1, <1>6
      <4>3. QED
        BY <3>1, <4>1, <4>2, <1>10 DEF TasksInv
    <3>4. CASE i \notin done /\ i \notin left
      <4>1. result'[i] = result[i] /\ task'[i] = task[i]
        BY <3>1, <3>4, <1>5, <1>6
      <4>2. result[i] # "missing"
        BY <3>1, <3>4, <1>2
      <4>3. QED
        BY <3>1, <4>1, <4>2, <1>10 DEF TasksInv
    <3>5. QED
      BY <3>2, <3>3, <3>4
  <2>3. QED
    BY <2>1, <2>2 DEF TasksInv
<1>11. ASSUME mode' = "returned" PROVE task' = task
  <2>1. left = {}
    BY <1>1, <1>11
  <2>2. \A i \in Judge!Block : task'[i] = task[i]
    BY <1>6, <2>1
  <2>3. QED
    BY <1>3, <1>8, <2>2
<1>12. QED
  BY <1>9, <1>10, <1>11

(* A step of the orchestrator keeps what is known of its tasks.             *)
LEMMA TasksMove ==
  ASSUME Judge!Judges!TypeOK, TasksInv, onError' = onError, onError \in {"pass", "block"},
         \/ Judge!Judges!Submit \/ Judge!Judges!Collect \/ Judge!Judges!Wake \/ Judge!Judges!Abandon
         \/ \E i \in Judge!Block :
              (\E v \in Judge!Verdicts : Judge!Judges!Return(i, v)) \/ Judge!Judges!EndCancelled(i)
         \/ UNCHANGED <<count, task, result, bailed, mode>>
  PROVE  Judge!Judges!TypeOK' /\ TasksInv'
<1> USE DEF Judge!Judges!TypeOK, Judge!Judges!Item, Judge!Block, Judge!Judges!Unfinished,
      Judge!Judges!NoResult, Judge!Judges!Modes, TasksInv
<1>1. CASE Judge!Judges!Submit
  BY <1>1, PoliciesAssumption DEF Judge!Judges!Submit, Judge!Actions
<1>2. CASE Judge!Judges!Collect
  BY <1>2 DEF Judge!Judges!Collect
<1>3. CASE Judge!Judges!Wake
  BY <1>3, Wakes
<1>4. CASE Judge!Judges!Abandon
  BY <1>4 DEF Judge!Judges!Abandon
<1>5. ASSUME NEW i \in Judge!Block, NEW v \in Judge!Verdicts, Judge!Judges!Return(i, v)
      PROVE  Judge!Judges!TypeOK' /\ TasksInv'
  <2>1. v \in Judge!Actions /\ (v = "failed_pass" => onError = "pass") /\ (v = "failed_block" => onError = "block")
    BY VerdictIs
  <2>2. i \in 1..count /\ result[i] = "missing"
    BY <1>5, PoliciesAssumption DEF Judge!Judges!Return, Judge!Actions
  <2>3. QED
    BY <1>5, <2>1, <2>2 DEF Judge!Judges!Return, Judge!Actions
<1>6. ASSUME NEW i \in Judge!Block, Judge!Judges!EndCancelled(i)
      PROVE  Judge!Judges!TypeOK' /\ TasksInv'
  <2>1. i \in 1..count /\ result[i] = "missing"
    BY <1>6, PoliciesAssumption DEF Judge!Judges!EndCancelled, Judge!Actions
  <2>2. QED
    BY <1>6, <2>1 DEF Judge!Judges!EndCancelled
<1>7. CASE UNCHANGED <<count, task, result, bailed, mode>>
  BY <1>7
<1>8. QED
  BY <1>1, <1>2, <1>3, <1>4, <1>5, <1>6, <1>7

-----------------------------------------------------------------------------
(* The blocks of a response arrive.                                         *)

(* A block that arrives is the next one.                                    *)
LEMMA Receives ==
  ASSUME Judge!TypeOK, NEW kind, Judge!Receive(kind)
  PROVE  LET n == Len(upstream) + 1 IN
         /\ n \in Judge!Block /\ Len(upstream') = n /\ DOMAIN upstream' = DOMAIN upstream \cup {n}
         /\ n \notin DOMAIN upstream /\ \A m \in DOMAIN upstream : m < n /\ m \in Judge!Block
         /\ \A m \in DOMAIN upstream : upstream'[m] = upstream[m]
         /\ upstream'[n] = kind /\ phase = "reading" /\ upstream' # <<>>
         /\ kind \in Judge!Kinds => upstream' \in Seq(Judge!Kinds) /\ Len(upstream') <= JudgedBlocks
<1> DEFINE n == Len(upstream) + 1
<1>1. /\ upstream \in Seq(Judge!Kinds) /\ Len(upstream) < JudgedBlocks /\ phase = "reading"
      /\ upstream' = Append(upstream, kind)
  BY DEF Judge!TypeOK, Judge!Receive
<1>2. Len(upstream) \in Nat /\ DOMAIN upstream = 1..Len(upstream)
  BY <1>1
<1>3. n \in Judge!Block /\ n \notin DOMAIN upstream /\ \A m \in DOMAIN upstream : m < n /\ m \in Judge!Block
  BY <1>1, <1>2, PoliciesAssumption DEF Judge!Block
<1>4. Len(upstream') = n /\ DOMAIN upstream' = 1..n
  BY <1>1, <1>2
<1>5. 1..n = DOMAIN upstream \cup {n}
  BY <1>2
<1>6. upstream'[n] = kind /\ \A m \in DOMAIN upstream : upstream'[m] = upstream[m]
  BY <1>1, <1>2
<1>7. upstream' # <<>> /\ Len(upstream') <= JudgedBlocks
  BY <1>1, <1>2, <1>4, PoliciesAssumption
<1>8. kind \in Judge!Kinds => upstream' \in Seq(Judge!Kinds)
  BY <1>1
<1>9. QED
  BY <1>1, <1>3, <1>4, <1>5, <1>6, <1>7, <1>8

(* What is added is of a later block, and no text comes after a tool call.  *)
LEMMA AddsInOrder ==
  ASSUME NEW u \in Seq(Judge!Wire), NEW v \in Seq(Judge!Wire), NEW n,
         Ordered(u, Rule), Ordered(v, Rule),
         \A x \in Members(u), y \in Members(v) :
           /\ IsToolUse(x) => IsToolUse(y)
           /\ x.from < n /\ y.from = n
  PROVE  /\ u \o v \in Seq(Judge!Wire) /\ Ordered(u \o v, Rule)
         /\ Members(u \o v) = Members(u) \cup Members(v)
<1>1. Members(u) \X Members(v) \subseteq Rule
  <2> SUFFICES ASSUME NEW x \in Members(u), NEW y \in Members(v) PROVE <<x, y>> \in Rule
    OBVIOUS
  <2>1. x \in Judge!Wire /\ y \in Judge!Wire
    BY DEF Members
  <2>2. QED
    BY <2>1, RuleIs
<1>2. QED
  BY <1>1, Joined

(* The initial state of a response.                                         *)
LEMMA JudgeStarts ==
  ASSUME Judge!Init
  PROVE  JudgeInv
<1>1. Judge!TypeOK
  <2>1. Judge!Judges!TypeOK
    <3>1. /\ count = 0 /\ task = [i \in Judge!Judges!Item |-> "none"]
          /\ result = [i \in Judge!Judges!Item |-> "missing"]
          /\ bailed \in BOOLEAN /\ mode = "open"
      BY DEF Judge!Init, Judge!Judges!Init
    <3>2. count \in 0..JudgedBlocks
      BY <3>1, PoliciesAssumption
    <3>3. QED
      BY <3>1, <3>2 DEF Judge!Judges!TypeOK, Judge!Judges!Unfinished, Judge!Judges!Modes
  <2>2. /\ said = [m \in Judge!Block |-> "none"] /\ count = 0 /\ upstream = <<>> /\ tags = <<>>
        /\ out = <<>> /\ tools = <<>> /\ blocked = <<>> /\ phase = "reading" /\ stop = "none"
        /\ judgeError = FALSE /\ onError \in {"pass", "block"} /\ streaming \in BOOLEAN
    BY DEF Judge!Init, Judge!Judges!Init
  <2>3. /\ upstream \in Seq(Judge!Kinds) /\ tags \in Seq(Judge!Block) /\ Len(tags) = 0
        /\ out \in Seq(Judge!Wire) /\ tools \in Seq(Judge!Wire) /\ blocked \in Seq(Judge!Block)
        /\ Len(upstream) <= JudgedBlocks
    BY <2>2, PoliciesAssumption
  <2>4. said \in [Judge!Block -> Judge!Actions \cup {"none"}]
    BY <2>2
  <2>5. judgeError \in BOOLEAN /\ onError \in {"pass", "block"} /\ streaming \in BOOLEAN
    BY DEF Judge!Init
  <2>6. QED
    BY <2>1, <2>2, <2>3, <2>4, <2>5 DEF Judge!TypeOK
<1>2. TasksInv /\ TagsInv /\ SaidInv
  BY PoliciesAssumption DEF Judge!Init, Judge!Judges!Init, TasksInv, TagsInv, SaidInv, Awaited,
    Judge!Judges!Item, Judge!Block, Judge!Failed
<1>3. BuilderInv /\ DoneInv
  <2>1. /\ out = <<>> /\ tools = <<>> /\ blocked = <<>> /\ upstream = <<>> /\ phase = "reading"
        /\ DOMAIN upstream = {}
    BY DEF Judge!Init
  <2>2. Members(<<>>) = {} /\ Ordered(<<>>, Rule)
    BY DEF Members, Ordered
  <2>3. QED
    BY <2>1, <2>2 DEF BuilderInv, DoneInv
<1>4. QED
  BY <1>1, <1>2, <1>3 DEF JudgeInv

(* Thinking and the like go out as they come.                               *)
LEMMA PassesThrough ==
  ASSUME JudgeInv, Judge!PassThrough
  PROVE  JudgeInv'
<1> DEFINE n == Len(upstream) + 1
<1>1. /\ Judge!Receive("other") /\ out' = out \o Judge!Piece("other", Len(upstream'))
      /\ UNCHANGED <<onError, streaming, said, tags, tools, blocked, judgeError, stop, phase>>
      /\ UNCHANGED <<count, task, result, bailed, mode>>
  BY DEF Judge!PassThrough, Judge!judgeVars
<1>2. Judge!TypeOK /\ TasksInv /\ TagsInv /\ SaidInv /\ BuilderInv
  BY DEF JudgeInv
<1>3. /\ n \in Judge!Block /\ Len(upstream') = n /\ DOMAIN upstream' = DOMAIN upstream \cup {n}
      /\ n \notin DOMAIN upstream /\ \A m \in DOMAIN upstream : m < n /\ m \in Judge!Block
      /\ \A m \in DOMAIN upstream : upstream'[m] = upstream[m]
      /\ upstream'[n] = "other" /\ phase = "reading" /\ upstream' # <<>>
      /\ upstream' \in Seq(Judge!Kinds) /\ Len(upstream') <= JudgedBlocks
  BY <1>1, <1>2, Receives DEF Judge!Kinds
<1> HIDE DEF n
<1>4. Judge!Judges!TypeOK' /\ TasksInv'
  BY <1>1, <1>2, TasksMove DEF Judge!TypeOK
<1>5. /\ out' \in Seq(Judge!Wire) /\ Ordered(out', Rule)
      /\ Members(out') = Members(out) \cup {Put("other", n)}
  <2> DEFINE c == Judge!Piece("other", n)
  <2>1. Put("other", n) \in Judge!Wire /\ Put("other", n).kind = "other" /\ Put("other", n).from = n
    BY <1>3 DEF Put, Judge!Wire, Judge!Kinds
  <2>2. c \in Seq(Judge!Wire) /\ Ordered(c, Rule) /\ Members(c) = {Put("other", n)}
    BY <2>1, OnePiece
  <2> HIDE DEF c
  <2>3. \A x \in Members(out) : ~IsToolUse(x) /\ x.from < n
    BY <1>2, <1>3 DEF BuilderInv, IsToolUse
  <2>4. out \in Seq(Judge!Wire) /\ Ordered(out, Rule)
    BY <1>2, <1>3 DEF Judge!TypeOK, BuilderInv
  <2>5. out' = out \o c
    BY <1>1, <1>3 DEF c
  <2>6. \A x \in Members(out), y \in Members(c) :
          /\ IsToolUse(x) => IsToolUse(y)
          /\ x.from < n /\ y.from = n
    BY <2>1, <2>2, <2>3
  <2>7. /\ out \o c \in Seq(Judge!Wire) /\ Ordered(out \o c, Rule)
        /\ Members(out \o c) = Members(out) \cup Members(c)
    BY <2>2, <2>4, <2>6, AddsInOrder
  <2>8. QED
    BY <2>2, <2>5, <2>7
<1>6. Judge!TypeOK'
  BY <1>1, <1>2, <1>3, <1>4, <1>5 DEF Judge!TypeOK
<1>7. TagsInv' /\ SaidInv'
  BY <1>1, <1>2, <1>3 DEF TagsInv, SaidInv, Awaited
<1>8. BuilderInv' /\ DoneInv'
  <2>1. Put("other", n).kind = "other" /\ Put("other", n).from = n
    BY DEF Put
  <2>2. \A m : Put("text", m) # Put("other", n)
    BY DEF Put
  <2>3. phase' = "reading"
    BY <1>1, <1>3
  <2>4. BuilderInv'
    BY <1>1, <1>2, <1>3, <1>5, <2>1, <2>2 DEF BuilderInv, Awaited
  <2>5. QED
    BY <2>3, <2>4 DEF DoneInv
<1>9. QED
  BY <1>4, <1>6, <1>7, <1>8 DEF JudgeInv

(* An empty text is dropped.                                                *)
LEMMA Suppresses ==
  ASSUME JudgeInv, Judge!SuppressEmpty
  PROVE  JudgeInv'
<1> DEFINE n == Len(upstream) + 1
<1>1. /\ Judge!Receive("empty") /\ streaming
      /\ UNCHANGED <<onError, streaming, said, tags, out, tools, blocked, judgeError, stop, phase>>
      /\ UNCHANGED <<count, task, result, bailed, mode>>
  BY DEF Judge!SuppressEmpty, Judge!judgeVars, Judge!builder
<1>2. Judge!TypeOK /\ TasksInv /\ TagsInv /\ SaidInv /\ BuilderInv
  BY DEF JudgeInv
<1>3. /\ n \in Judge!Block /\ Len(upstream') = n /\ DOMAIN upstream' = DOMAIN upstream \cup {n}
      /\ n \notin DOMAIN upstream /\ \A m \in DOMAIN upstream : m < n /\ m \in Judge!Block
      /\ \A m \in DOMAIN upstream : upstream'[m] = upstream[m]
      /\ upstream'[n] = "empty" /\ phase = "reading" /\ upstream' # <<>>
      /\ upstream' \in Seq(Judge!Kinds) /\ Len(upstream') <= JudgedBlocks
  BY <1>1, <1>2, Receives DEF Judge!Kinds
<1> HIDE DEF n
<1>4. Judge!Judges!TypeOK' /\ TasksInv'
  BY <1>1, <1>2, TasksMove DEF Judge!TypeOK
<1>5. Judge!TypeOK'
  BY <1>1, <1>2, <1>3, <1>4 DEF Judge!TypeOK
<1>6. TagsInv' /\ SaidInv'
  BY <1>1, <1>2, <1>3 DEF TagsInv, SaidInv, Awaited
<1>7. BuilderInv' /\ DoneInv'
  BY <1>1, <1>2, <1>3 DEF BuilderInv, Awaited, DoneInv
<1>8. QED
  BY <1>4, <1>5, <1>6, <1>7 DEF JudgeInv

(* A judge is asked, and awaited.                                           *)
LEMMA Asks ==
  ASSUME JudgeInv, Judge!AskJudge
  PROVE  JudgeInv'
<1> DEFINE n == Len(upstream) + 1
<1>1. PICK kind \in IF streaming THEN {"text"} ELSE {"text", "empty", "tool"} : Judge!Receive(kind)
  BY DEF Judge!AskJudge
<1>11. /\ phase' = "judging"
       /\ UNCHANGED <<onError, streaming, said, tags, out, tools, blocked, judgeError, stop>>
       /\ UNCHANGED <<count, task, result, bailed, mode>>
  BY DEF Judge!AskJudge, Judge!judgeVars, Judge!builder
<1>2. Judge!TypeOK /\ TasksInv /\ TagsInv /\ SaidInv /\ BuilderInv
  BY DEF JudgeInv
<1>3. /\ n \in Judge!Block /\ Len(upstream') = n /\ DOMAIN upstream' = DOMAIN upstream \cup {n}
      /\ n \notin DOMAIN upstream /\ \A m \in DOMAIN upstream : m < n /\ m \in Judge!Block
      /\ \A m \in DOMAIN upstream : upstream'[m] = upstream[m]
      /\ upstream'[n] = kind /\ phase = "reading" /\ upstream' # <<>>
      /\ upstream' \in Seq(Judge!Kinds) /\ Len(upstream') <= JudgedBlocks
  BY <1>1, <1>2, Receives DEF Judge!Kinds
<1> HIDE DEF n
<1>4. Judge!Judges!TypeOK' /\ TasksInv'
  BY <1>11, <1>2, TasksMove DEF Judge!TypeOK
<1>5. Judge!TypeOK'
  BY <1>11, <1>2, <1>3, <1>4 DEF Judge!TypeOK
<1>6. TagsInv'
  BY <1>1, <1>11, <1>2, <1>3 DEF TagsInv
<1>7. said'[n] = "none" /\ \A m : Awaited(m)' <=> m = n
  BY <1>11, <1>2, <1>3 DEF SaidInv, Awaited
<1>8. SaidInv'
  BY <1>11, <1>2, <1>3, <1>7 DEF SaidInv, Awaited
<1>9. BuilderInv' /\ DoneInv'
  <2>1. ~Judge!Passed("none")
    BY DEF Judge!Passed
  <2>2. \A m : ~Awaited(m)
    BY <1>3 DEF Awaited
  <2>3. said[n] = "none"
    BY <1>7, <1>11
  <2>4. \A m : Put("tool", m).from = m
    BY DEF Put
  <2>5. /\ \A x \in Members(out') : x.from \in DOMAIN upstream' /\ ~Awaited(x.from)'
        /\ \A x \in Members(tools') : IsToolUse(x) /\ x.from \in DOMAIN upstream' /\ ~Awaited(x.from)'
    BY <1>11, <1>2, <1>3, <1>7 DEF BuilderInv, Members
  <2>6. \A m \in DOMAIN upstream' :
         /\ upstream'[m] = "other" => Put("other", m) \in Members(out')
         /\ upstream'[m] = "text" /\ Judge!Passed(said'[m]) => Put("text", m) \in Members(out')
    BY <1>1, <1>11, <1>2, <1>3, <1>7, <2>1 DEF BuilderInv, Members
  <2>7. \A m \in Judge!Block :
         /\ Put("tool", m) \in Members(tools') <=>
              m \in DOMAIN upstream' /\ upstream'[m] = "tool" /\ Judge!Passed(said'[m])
         /\ m \in Members(blocked') <=>
              m \in DOMAIN upstream' /\ upstream'[m] = "tool" /\ said'[m] = "failed_block"
    BY <1>11, <1>2, <1>3, <1>7, <2>1, <2>4 DEF BuilderInv, Members
  <2>8. QED
    BY <1>11, <1>2, <1>3, <2>5, <2>6, <2>7 DEF BuilderInv, DoneInv, Members, Ordered
<1>10. QED
  BY <1>4, <1>5, <1>6, <1>8, <1>9 DEF JudgeInv

(* The answer of an awaited judge is applied to its block.                  *)
LEMMA Applies ==
  ASSUME JudgeInv, Judge!ApplyAnswer
  PROVE  JudgeInv'
<1> DEFINE n == Len(upstream)
<1>1. PICK v \in Judge!Verdicts, rep \in Judge!Replacements :
        /\ said' = [said EXCEPT ![n] = v]
        /\ out' = out \o Judge!Committed(n, v, rep)
        /\ tools' = tools \o Judge!Buffered(n, v, rep)
        /\ blocked' = blocked \o Judge!Blocked(n, v)
        /\ judgeError' = (judgeError \/ v \in Judge!Failed)
  BY DEF Judge!ApplyAnswer
<1>2. /\ phase = "judging" /\ phase' = "reading"
      /\ UNCHANGED <<onError, streaming, upstream, tags, stop>>
      /\ UNCHANGED <<count, task, result, bailed, mode>>
  BY DEF Judge!ApplyAnswer, Judge!judgeVars
<1>3. Judge!TypeOK /\ TasksInv /\ TagsInv /\ SaidInv /\ BuilderInv
  BY DEF JudgeInv
<1>4. /\ n \in DOMAIN upstream /\ n \in Judge!Block /\ said[n] = "none"
      /\ \A m \in DOMAIN upstream : m \in Judge!Block /\ (m # n => m < n)
      /\ \A m : Awaited(m) <=> m = n
  <2>1. upstream \in Seq(Judge!Kinds) /\ upstream # <<>> /\ Len(upstream) <= JudgedBlocks
    BY <1>2, <1>3 DEF Judge!TypeOK, SaidInv
  <2>2. n \in DOMAIN upstream /\ n \in Judge!Block /\ \A m \in DOMAIN upstream : m \in Judge!Block /\ (m # n => m < n)
    BY <2>1, PoliciesAssumption DEF Judge!Block
  <2>3. \A m : Awaited(m) <=> m = n
    BY <1>2 DEF Awaited
  <2>4. QED
    BY <1>3, <2>2, <2>3 DEF SaidInv
<1> HIDE DEF n
<1>5. v \in Judge!Actions /\ (v = "failed_pass" => onError = "pass") /\ (v = "failed_block" => onError = "block")
  BY <1>3, VerdictIs DEF Judge!TypeOK
<1>6. said' \in [Judge!Block -> Judge!Actions \cup {"none"}] /\ said'[n] = v
      /\ \A m \in Judge!Block : m # n => said'[m] = said[m]
  BY <1>1, <1>3, <1>4, <1>5 DEF Judge!TypeOK
<1> DEFINE c == Judge!Committed(n, v, rep)
           t == Judge!Buffered(n, v, rep)
           b == Judge!Blocked(n, v)
<1>7. /\ c \in Seq(Judge!Wire) /\ Ordered(c, Rule)
      /\ Members(c) \subseteq {Put("text", n), Put("new_text", n)}
      /\ Put("text", n) \in Members(c) <=> Judge!Passed(v) /\ upstream[n] = "text"
  BY <1>4, CommittedIs
<1>8. /\ t \in Seq(Judge!Wire) /\ Ordered(t, Rule)
      /\ Members(t) \subseteq {Put("tool", n), Put("new_tool", n)}
      /\ Put("tool", n) \in Members(t) <=> Judge!Passed(v) /\ upstream[n] = "tool"
  BY <1>4, BufferedIs
<1>9. /\ b \in Seq(Judge!Block)
      /\ Members(b) = IF v \in {"failed_block", "bailed"} /\ upstream[n] = "tool" THEN {n} ELSE {}
  BY <1>4, BlockedIs
<1>10. out' = out \o c /\ tools' = tools \o t /\ blocked' = blocked \o b
  BY <1>1
<1> HIDE DEF c, t, b
<1> \A kind, m : Put(kind, m).kind = kind /\ Put(kind, m).from = m
  BY DEF Put
<1>11. /\ out' \in Seq(Judge!Wire) /\ Ordered(out', Rule) /\ Members(out') = Members(out) \cup Members(c)
  <2>1. \A x \in Members(out), y \in Members(c) :
          /\ IsToolUse(x) => IsToolUse(y)
          /\ x.from < n /\ y.from = n
    BY <1>2, <1>3, <1>4, <1>7 DEF BuilderInv, IsToolUse
  <2>2. out \in Seq(Judge!Wire) /\ Ordered(out, Rule)
    BY <1>2, <1>3 DEF Judge!TypeOK, BuilderInv
  <2>3. /\ out \o c \in Seq(Judge!Wire) /\ Ordered(out \o c, Rule)
        /\ Members(out \o c) = Members(out) \cup Members(c)
    BY <1>7, <2>1, <2>2, AddsInOrder
  <2>4. QED
    BY <1>10, <2>3
<1>12. /\ tools' \in Seq(Judge!Wire) /\ Ordered(tools', Rule) /\ Members(tools') = Members(tools) \cup Members(t)
  <2>1. \A x \in Members(tools), y \in Members(t) :
          /\ IsToolUse(x) => IsToolUse(y)
          /\ x.from < n /\ y.from = n
    BY <1>2, <1>3, <1>4, <1>8 DEF BuilderInv, IsToolUse
  <2>2. tools \in Seq(Judge!Wire) /\ Ordered(tools, Rule)
    BY <1>2, <1>3 DEF Judge!TypeOK, BuilderInv
  <2>3. /\ tools \o t \in Seq(Judge!Wire) /\ Ordered(tools \o t, Rule)
        /\ Members(tools \o t) = Members(tools) \cup Members(t)
    BY <1>8, <2>1, <2>2, AddsInOrder
  <2>4. QED
    BY <1>10, <2>3
<1>13. blocked' \in Seq(Judge!Block) /\ Members(blocked') = Members(blocked) \cup Members(b)
  <2>1. blocked \in Seq(Judge!Block)
    BY <1>3 DEF Judge!TypeOK
  <2>2. QED
    BY <2>1, <1>9, <1>10, Joined
<1>14. Judge!Judges!TypeOK' /\ TasksInv'
  BY <1>2, <1>3, TasksMove DEF Judge!TypeOK
<1>15. Judge!TypeOK'
  <2>1. judgeError' \in BOOLEAN
    BY <1>1
  <2>2. QED
    BY <1>2, <1>3, <1>6, <1>11, <1>12, <1>13, <1>14, <2>1 DEF Judge!TypeOK
<1>16. TagsInv'
  BY <1>2, <1>3 DEF TagsInv
<1>17. SaidInv'
  <2>1. \A m : ~Awaited(m)'
    BY <1>2 DEF Awaited
  <2>2. upstream[n] # "other" /\ (upstream[n] = "tool" => ~streaming)
    BY <1>2, <1>3 DEF SaidInv, n
  <2>3. ASSUME NEW m \in Judge!Block
        PROVE  /\ m \notin DOMAIN upstream => said'[m] = "none"
               /\ said'[m] = "failed_pass" => onError = "pass"
               /\ said'[m] = "failed_block" => onError = "block"
               /\ said'[m] \in Judge!Failed => judgeError'
               /\ said'[m] # "none" /\ upstream[m] = "tool" => ~streaming
               /\ said'[m] # "none" => upstream[m] # "other"
    <3>1. CASE m = n
      BY <3>1, <1>1, <1>4, <1>5, <1>6, <2>2
    <3>2. CASE m # n
      BY <3>2, <1>1, <1>3, <1>6 DEF SaidInv
    <3>3. QED
      BY <3>1, <3>2
  <2>4. \A m \in DOMAIN upstream :
          upstream[m] \in (IF streaming THEN {"text"} ELSE {"text", "tool"}) => said'[m] # "none"
    <3>1. v # "none"
      BY <1>5 DEF Judge!Actions
    <3>2. QED
      BY <3>1, <1>2, <1>3, <1>4, <1>6 DEF SaidInv
  <2>5. QED
    BY <1>2, <2>1, <2>3, <2>4 DEF SaidInv
<1>18. BuilderInv' /\ DoneInv'
  <2>1. "failed_block" # "bailed" /\ v # "bailed" /\ v # "none"
    BY <1>5 DEF Judge!Actions
  <2>2. \A m : ~Awaited(m)'
    BY <1>2 DEF Awaited
  <2>3. \A x \in Members(out') : x.kind \in {"text", "other", "new_text"} /\ x.from \in DOMAIN upstream
    BY <1>2, <1>3, <1>4, <1>7, <1>11 DEF BuilderInv
  <2>4. \A x \in Members(tools') : IsToolUse(x) /\ x.from \in DOMAIN upstream
    BY <1>2, <1>3, <1>4, <1>8, <1>12 DEF BuilderInv, IsToolUse
  <2>5. \A m \in DOMAIN upstream :
         /\ upstream[m] = "other" => Put("other", m) \in Members(out')
         /\ upstream[m] = "text" /\ Judge!Passed(said'[m]) => Put("text", m) \in Members(out')
    BY <1>2, <1>3, <1>4, <1>6, <1>7, <1>11 DEF BuilderInv
  <2>6. \A m \in Judge!Block :
          Put("tool", m) \in Members(tools') <=>
             m \in DOMAIN upstream /\ upstream[m] = "tool" /\ Judge!Passed(said'[m])
    <3> TAKE m \in Judge!Block
    <3>1. CASE m = n
      <4>1. Put("tool", n) \notin Members(tools)
        BY <1>2, <1>3, <1>4 DEF BuilderInv
      <4>2. QED
        BY <3>1, <4>1, <1>4, <1>6, <1>8, <1>12
    <3>2. CASE m # n
      <4>1. Put("tool", m) \notin Members(t)
        BY <3>2, <1>8
      <4>2. QED
        BY <3>2, <4>1, <1>2, <1>3, <1>6, <1>12 DEF BuilderInv
    <3>3. QED
      BY <3>1, <3>2
  <2>7. \A m \in Judge!Block :
          m \in Members(blocked') <=>
            m \in DOMAIN upstream /\ upstream[m] = "tool" /\ said'[m] = "failed_block"
    <3> TAKE m \in Judge!Block
    <3>1. CASE m = n
      <4>1. n \notin Members(blocked)
        BY <1>2, <1>3, <1>4 DEF BuilderInv
      <4>2. QED
        BY <3>1, <4>1, <2>1, <1>4, <1>6, <1>9, <1>13
    <3>2. CASE m # n
      BY <3>2, <1>2, <1>3, <1>6, <1>9, <1>13 DEF BuilderInv
    <3>3. QED
      BY <3>1, <3>2
  <2>8. QED
    BY <1>2, <1>11, <1>12, <2>2, <2>3, <2>4, <2>5, <2>6, <2>7 DEF BuilderInv, DoneInv
<1>19. QED
  BY <1>14, <1>15, <1>16, <1>17, <1>18 DEF JudgeInv

(* A streamed tool call gets a judge.                                       *)
LEMMA Submits ==
  ASSUME JudgeInv, Judge!SubmitTool
  PROVE  JudgeInv'
<1> DEFINE n == Len(upstream) + 1
<1>1. /\ Judge!Receive("tool") /\ Judge!Judges!Submit /\ tags' = Append(tags, Len(upstream')) /\ streaming
      /\ UNCHANGED <<onError, streaming, said, out, tools, blocked, judgeError, stop, phase>>
  BY DEF Judge!SubmitTool, Judge!builder
<1>2. Judge!TypeOK /\ TasksInv /\ TagsInv /\ SaidInv /\ BuilderInv
  BY DEF JudgeInv
<1>3. /\ n \in Judge!Block /\ Len(upstream') = n /\ DOMAIN upstream' = DOMAIN upstream \cup {n}
      /\ n \notin DOMAIN upstream /\ \A m \in DOMAIN upstream : m < n /\ m \in Judge!Block
      /\ \A m \in DOMAIN upstream : upstream'[m] = upstream[m]
      /\ upstream'[n] = "tool" /\ phase = "reading" /\ upstream' # <<>>
      /\ upstream' \in Seq(Judge!Kinds) /\ Len(upstream') <= JudgedBlocks
  BY <1>1, <1>2, Receives DEF Judge!Kinds
<1> HIDE DEF n
<1>4. Judge!Judges!TypeOK' /\ TasksInv'
  BY <1>1, <1>2, TasksMove DEF Judge!TypeOK
<1>5. /\ tags \in Seq(Judge!Block) /\ Len(tags) = count /\ tags' = Append(tags, n)
      /\ count' = count + 1 /\ count \in Nat /\ mode' = mode
  BY <1>1, <1>2, <1>3 DEF Judge!TypeOK, Judge!Judges!Submit, Judge!Judges!TypeOK
<1>6. /\ tags' \in Seq(Judge!Block) /\ Len(tags') = count' /\ tags'[count + 1] = n
      /\ \A i \in 1..count : tags'[i] = tags[i]
      /\ DOMAIN tags = 1..count /\ DOMAIN tags' = 1..(count + 1)
  BY <1>3, <1>5
<1>7. Judge!TypeOK'
  BY <1>1, <1>2, <1>3, <1>4, <1>6 DEF Judge!TypeOK
<1>8. TagsInv'
  <2>1. \A i \in 1..count' : i = count + 1 \/ i \in 1..count
    BY <1>5
  <2>2. \A i \in 1..count' : tags'[i] \in DOMAIN upstream' /\ upstream'[tags'[i]] = "tool"
    BY <2>1, <1>2, <1>3, <1>6 DEF TagsInv
  <2>3. ASSUME NEW i \in 1..count', NEW j \in 1..count', i < j PROVE tags'[i] < tags'[j]
    <3>1. i \in 1..count
      BY <2>3, <1>5
    <3>2. CASE j = count + 1
      BY <3>1, <3>2, <1>2, <1>3, <1>6 DEF TagsInv
    <3>3. CASE j \in 1..count
      BY <3>1, <3>3, <2>3, <1>2, <1>6 DEF TagsInv
    <3>4. QED
      BY <3>2, <3>3, <2>1
  <2>4. \A m \in DOMAIN upstream' : upstream'[m] = "tool" => m \in Members(tags')
    <3>1. Members(tags) \subseteq Members(tags') /\ n \in Members(tags')
      BY <1>5, <1>6 DEF Members
    <3>2. QED
      BY <3>1, <1>1, <1>2, <1>3 DEF TagsInv
  <2>5. QED
    BY <2>2, <2>3, <2>4, <1>1, <1>2, <1>3, <1>5 DEF TagsInv, Members
<1>9. SaidInv'
  BY <1>1, <1>2, <1>3 DEF SaidInv, Awaited
<1>10. said'[n] = "none" /\ ~Judge!Passed("none")
  BY <1>1, <1>2, <1>3 DEF SaidInv, Judge!Passed
<1>11. BuilderInv' /\ DoneInv'
  BY <1>1, <1>2, <1>3, <1>10 DEF BuilderInv, Awaited, DoneInv
<1>12. QED
  BY <1>4, <1>7, <1>8, <1>9, <1>11 DEF JudgeInv

(* The response is given up.                                                *)
LEMMA GivesUp ==
  ASSUME JudgeInv, Judge!Abandon
  PROVE  JudgeInv'
<1>1. /\ Judge!Judges!Abandon /\ phase' = "gone" /\ phase # "done"
      /\ UNCHANGED <<onError, streaming, upstream, said, tags, out, tools, blocked, judgeError, stop>>
  BY DEF Judge!Abandon, Judge!builder
<1>2. Judge!TypeOK /\ TasksInv /\ TagsInv /\ SaidInv /\ BuilderInv
  BY DEF JudgeInv
<1>3. Judge!Judges!TypeOK' /\ TasksInv'
  BY <1>1, <1>2, TasksMove DEF Judge!TypeOK
<1>4. count' = count
  BY <1>1 DEF Judge!Judges!Abandon
<1>5. Judge!TypeOK'
  BY <1>1, <1>2, <1>3, <1>4 DEF Judge!TypeOK
<1>6. TagsInv' /\ SaidInv'
  BY <1>1, <1>2, <1>4 DEF TagsInv, SaidInv, Awaited
<1>7. BuilderInv' /\ DoneInv'
  BY <1>1, <1>2 DEF BuilderInv, Awaited, DoneInv
<1>8. QED
  BY <1>3, <1>5, <1>6, <1>7 DEF JudgeInv

(* No judge is at work when the response is done.                           *)
LEMMA AllEnded ==
  ASSUME JudgeInv, phase = "done", NEW i \in Judge!Block
  PROVE  task[i] \notin {"running", "cancelling"}
<1>1. i \in 1..count \/ i > count
  BY DEF JudgeInv, Judge!TypeOK, Judge!Judges!TypeOK, Judge!Block
<1>2. CASE i > count
  BY <1>2 DEF JudgeInv, TasksInv
<1>3. CASE i \in 1..count
  <2>1. mode = "returned"
    BY <1>3 DEF JudgeInv, TagsInv
  <2>2. QED
    BY <2>1, <1>3 DEF JudgeInv, TasksInv, Judge!Actions
<1>4. QED
  BY <1>1, <1>2, <1>3

(* A judge ends, also after its response was given up.                      *)
LEMMA Judges ==
  ASSUME JudgeInv, NEW i \in Judge!Block, Judge!JudgeStep(i)
  PROVE  JudgeInv'
<1>1. /\ (\E v \in Judge!Verdicts : Judge!Judges!Return(i, v)) \/ Judge!Judges!EndCancelled(i)
      /\ UNCHANGED <<onError, streaming, upstream, said, tags, out, tools, blocked, judgeError, stop, phase>>
  BY DEF Judge!JudgeStep, Judge!builder
<1>2. Judge!TypeOK /\ TasksInv /\ TagsInv /\ SaidInv /\ BuilderInv
  BY DEF JudgeInv
<1>3. Judge!Judges!TypeOK' /\ TasksInv'
  BY <1>1, <1>2, TasksMove DEF Judge!TypeOK
<1>4. count' = count /\ mode' = mode /\ task[i] \in {"running", "cancelling"}
  BY <1>1 DEF Judge!Judges!Return, Judge!Judges!EndCancelled
<1>5. Judge!TypeOK'
  BY <1>1, <1>2, <1>3, <1>4 DEF Judge!TypeOK
<1>6. TagsInv' /\ SaidInv'
  BY <1>1, <1>2, <1>4 DEF TagsInv, SaidInv, Awaited
<1>7. phase # "done"
  BY <1>4, AllEnded
<1>8. BuilderInv' /\ DoneInv'
  BY <1>1, <1>2, <1>7 DEF BuilderInv, Awaited, DoneInv
<1>9. QED
  BY <1>3, <1>5, <1>6, <1>8 DEF JudgeInv

-----------------------------------------------------------------------------
(* The response ends.                                                       *)

(* A sequence holds its members.                                            *)
LEMMA Holds ==
  ASSUME NEW S, NEW s \in Seq(S), NEW e
  PROVE  Judge!Contains(s, e) <=> e \in Members(s)
<1>1. DOMAIN s = 1..Len(s)
  OBVIOUS
<1>2. QED
  BY <1>1 DEF Judge!Contains, Members

(* What was said of a block: by its own judge if it was submitted.          *)
LEMMA HeardIs ==
  ASSUME Judge!TypeOK, TagsInv
  PROVE  /\ \A i \in 1..count : Judge!Heard(tags[i]) = task[i] /\ tags[i] \in Members(tags)
         /\ \A n : n \notin Members(tags) => Judge!Heard(n) = said[n]
         /\ \A n \in Members(tags) : \E i \in 1..count : n = tags[i]
<1>1. tags \in Seq(Judge!Block) /\ DOMAIN tags = 1..count /\ Len(tags) = count /\ count \in Nat
  BY DEF Judge!TypeOK, Judge!Judges!TypeOK
<1>2. \A n : Judge!Contains(tags, n) <=> n \in Members(tags)
  BY <1>1, Holds
<1>3. ASSUME NEW i \in 1..count PROVE Judge!Heard(tags[i]) = task[i] /\ tags[i] \in Members(tags)
  <2>1. tags[i] \in Members(tags)
    BY <1>1 DEF Members
  <2>2. \A j \in DOMAIN tags : tags[j] = tags[i] => j = i
    <3> TAKE j \in DOMAIN tags
    <3>1. tags[i] \in Nat /\ tags[j] \in Nat
      BY <1>1, PoliciesAssumption DEF Judge!Block
    <3>2. (i < j => tags[i] < tags[j]) /\ (j < i => tags[j] < tags[i])
      BY <1>1 DEF TagsInv
    <3>3. i \in Nat /\ j \in Nat
      BY <1>1
    <3>4. QED
      BY <3>1, <3>2, <3>3
  <2>3. (CHOOSE j \in DOMAIN tags : tags[j] = tags[i]) = i
    BY <2>2, <1>1
  <2>4. QED
    BY <1>2, <2>1, <2>3 DEF Judge!Heard
<1>4. \A n : n \notin Members(tags) => Judge!Heard(n) = said[n]
  BY <1>2 DEF Judge!Heard
<1>5. QED
  BY <1>1, <1>3, <1>4 DEF Members

(* finalize puts the notes of the builder between the text and the tools.   *)
LEMMA ComposedIs ==
  ASSUME NEW c \in Seq(Judge!Wire), NEW t \in Seq(Judge!Wire), NEW b, NEW failed \in BOOLEAN,
         Ordered(c, Rule), Ordered(t, Rule),
         \A x \in Members(c) : ~IsToolUse(x), \A x \in Members(t) : IsToolUse(x)
  PROVE  LET w    == Judge!Composed(c, t, b, failed)
             warn == failed /\ onError = "pass"
             notes == {Put("fallback", 0), Put("warning", 0), Put("marker", 0)}
         IN  /\ w \in Seq(Judge!Wire) /\ Ordered(w, Rule)
             /\ Members(c) \subseteq Members(w) /\ Members(t) \subseteq Members(w)
             /\ Members(w) \subseteq Members(c) \cup Members(t) \cup notes
             /\ warn => Put("warning", 0) \in Members(w)
             /\ b # <<>> => Put("marker", 0) \in Members(w)
             /\ failed /\ c = <<>> /\ t = <<>> /\ b = <<>> => Members(w) # {}
<1> DEFINE warn    == failed /\ onError = "pass"
           nothing == c = <<>> /\ t = <<>> /\ b = <<>> /\ ~warn
           notes   == {Put("fallback", 0), Put("warning", 0), Put("marker", 0)}
           f == Judge!When(nothing /\ failed, "fallback")
           g == Judge!When(warn, "warning")
           h == Judge!When(b # <<>>, "marker")
<1>1. notes \subseteq Judge!Wire /\ notes \X notes \subseteq Rule
      /\ \A x \in notes : ~IsToolUse(x) /\ ~FromUpstream(x)
  BY DEF Put, Judge!Wire, Rule, FromUpstream, IsToolUse, Judge!Kinds
<1>3. /\ f \in Seq(Judge!Wire) /\ Ordered(f, Rule)
      /\ Members(f) = IF nothing /\ failed THEN {Put("fallback", 0)} ELSE {}
  <2>1. CASE nothing /\ failed
    BY <2>1, <1>1, OnePiece DEF Judge!When
  <2>2. CASE ~(nothing /\ failed)
    <3>1. f = <<>> /\ <<>> \in Seq(Judge!Wire)
      BY <2>2 DEF Judge!When
    <3>2. QED
      BY <2>2, <3>1, OnePiece
  <2>3. QED
    BY <2>1, <2>2
<1>4. /\ g \in Seq(Judge!Wire) /\ Ordered(g, Rule)
      /\ Members(g) = IF warn THEN {Put("warning", 0)} ELSE {}
  <2>1. CASE warn
    BY <2>1, <1>1, OnePiece DEF Judge!When
  <2>2. CASE ~(warn)
    <3>1. g = <<>> /\ <<>> \in Seq(Judge!Wire)
      BY <2>2 DEF Judge!When
    <3>2. QED
      BY <2>2, <3>1, OnePiece
  <2>3. QED
    BY <2>1, <2>2
<1>5. /\ h \in Seq(Judge!Wire) /\ Ordered(h, Rule)
      /\ Members(h) = IF b # <<>> THEN {Put("marker", 0)} ELSE {}
  <2>1. CASE b # <<>>
    BY <2>1, <1>1, OnePiece DEF Judge!When
  <2>2. CASE ~(b # <<>>)
    <3>1. h = <<>> /\ <<>> \in Seq(Judge!Wire)
      BY <2>2 DEF Judge!When
    <3>2. QED
      BY <2>2, <3>1, OnePiece
  <2>3. QED
    BY <2>1, <2>2
<1>6. Judge!Composed(c, t, b, failed) = (((c \o f) \o g) \o h) \o t
  BY DEF Judge!Composed
<1> HIDE DEF f, g, h
<1>7. ASSUME NEW u \in Seq(Judge!Wire), NEW v \in Seq(Judge!Wire), Ordered(u, Rule), Ordered(v, Rule),
             Members(u) \subseteq Members(c) \cup notes, Members(v) \subseteq notes \cup Members(t),
             Members(v) \subseteq notes \/ \A y \in Members(v) : IsToolUse(y)
      PROVE  /\ u \o v \in Seq(Judge!Wire) /\ Ordered(u \o v, Rule)
             /\ Members(u \o v) = Members(u) \cup Members(v)
  <2>1. Members(u) \X Members(v) \subseteq Rule
    <3> SUFFICES ASSUME NEW x \in Members(u), NEW y \in Members(v) PROVE <<x, y>> \in Rule
      OBVIOUS
    <3>1. x \in Judge!Wire /\ y \in Judge!Wire
      BY DEF Members
    <3>2. ~IsToolUse(x)
      BY <1>1, <1>7
    <3>3. CASE ~FromUpstream(x) \/ ~FromUpstream(y)
      BY <3>1, <3>2, <3>3, RuleIs
    <3>4. CASE FromUpstream(x) /\ FromUpstream(y)
      <4>1. x \notin notes /\ y \notin notes
        BY <3>4, <1>1
      <4>2. IsToolUse(y)
        BY <4>1, <1>7
      <4>3. x.kind # "tool" /\ y.kind = "tool"
        BY <3>2, <3>4, <4>2 DEF IsToolUse, FromUpstream, Judge!Kinds
      <4>4. QED
        BY <3>1, <3>2, <4>3, RuleIs
    <3>5. QED
      BY <3>3, <3>4
  <2>2. QED
    BY <1>7, <2>1, Joined
<1> DEFINE p == c \o f
           q == p \o g
           r == q \o h
           w == r \o t
<1>8. Members(f) \subseteq notes /\ Members(g) \subseteq notes /\ Members(h) \subseteq notes
  BY <1>3, <1>4, <1>5
<1>9. p \in Seq(Judge!Wire) /\ Ordered(p, Rule) /\ Members(p) = Members(c) \cup Members(f)
  BY <1>3, <1>7, <1>8
<1> HIDE DEF p
<1>10. q \in Seq(Judge!Wire) /\ Ordered(q, Rule) /\ Members(q) = Members(p) \cup Members(g)
  BY <1>4, <1>7, <1>8, <1>9
<1> HIDE DEF q
<1>11. r \in Seq(Judge!Wire) /\ Ordered(r, Rule) /\ Members(r) = Members(q) \cup Members(h)
  BY <1>5, <1>7, <1>8, <1>9, <1>10
<1> HIDE DEF r
<1>12. w \in Seq(Judge!Wire) /\ Ordered(w, Rule) /\ Members(w) = Members(r) \cup Members(t)
  BY <1>7, <1>8, <1>9, <1>10, <1>11
<1>13. Judge!Composed(c, t, b, failed) = w
  BY <1>6 DEF p, q, r
<1> HIDE DEF w
<1>14. Members(w) = Members(c) \cup Members(f) \cup Members(g) \cup Members(h) \cup Members(t)
  BY <1>9, <1>10, <1>11, <1>12
<1>15. failed /\ c = <<>> /\ t = <<>> /\ b = <<>> => Members(w) # {}
  <2>1. failed /\ c = <<>> /\ t = <<>> /\ b = <<>> => (nothing /\ failed) \/ warn
    OBVIOUS
  <2>2. QED
    BY <2>1, <1>3, <1>4, <1>14
<1>16. QED
  BY <1>3, <1>4, <1>5, <1>8, <1>12, <1>13, <1>14, <1>15

(* A response that finalize was given all it needs for is as promised.      *)
LEMMA Finalizes ==
  ASSUME Judge!TypeOK, NEW c, NEW t, NEW b, NEW failed, NEW why, Ready(c, t, b, failed),
         Judge!Finalize(c, t, b, failed, why),
         UNCHANGED <<onError, upstream, said, tags, task>>
  PROVE  /\ out' \in Seq(Judge!Wire) /\ tools' \in Seq(Judge!Wire) /\ blocked' \in Seq(Judge!Block)
         /\ judgeError' \in BOOLEAN /\ phase' = "done" /\ DoneInv'
<1> DEFINE H(n) == Judge!Heard(n)
<1>1. /\ out' = Judge!Composed(c, t, b, failed) /\ tools' = t /\ blocked' = b /\ judgeError' = failed
      /\ phase' = "done"
  BY DEF Judge!Finalize
<1>2. /\ c \in Seq(Judge!Wire) /\ t \in Seq(Judge!Wire) /\ b \in Seq(Judge!Block) /\ failed \in BOOLEAN
      /\ Ordered(c, Rule) /\ Ordered(t, Rule)
      /\ \A x \in Members(c) : x.kind \in {"text", "other", "new_text"}
      /\ \A x \in Members(t) : IsToolUse(x)
      /\ \A x \in Members(c) : ~IsToolUse(x)
  BY DEF Ready, IsToolUse
<1>3. /\ \A n \in DOMAIN upstream :
           /\ upstream[n] = "other" => Put("other", n) \in Members(c)
           /\ upstream[n] = "text" => H(n) \in Judge!Actions /\ (Judge!Passed(H(n)) => Put("text", n) \in Members(c))
           /\ upstream[n] = "tool" => H(n) \in Judge!Actions \cup {"cancelled"}
           /\ H(n) \in Judge!Failed => failed
           /\ H(n) = "failed_pass" => onError = "pass"
      /\ \A n \in Judge!Block :
           /\ Put("tool", n) \in Members(t) <=>
                n \in DOMAIN upstream /\ upstream[n] = "tool" /\ Judge!Passed(H(n))
           /\ n \in Members(b) <=>
                n \in DOMAIN upstream /\ upstream[n] = "tool" /\ H(n) \in {"failed_block", "cancelled"}
  BY DEF Ready
<1>4. /\ out' \in Seq(Judge!Wire) /\ Ordered(out', Rule)
      /\ Members(c) \subseteq Members(out') /\ Members(t) \subseteq Members(out')
      /\ Members(out') \subseteq Members(c) \cup Members(t)
                           \cup {Put("fallback", 0), Put("warning", 0), Put("marker", 0)}
      /\ failed /\ onError = "pass" => Put("warning", 0) \in Members(out')
      /\ b # <<>> => Put("marker", 0) \in Members(out')
      /\ failed /\ c = <<>> /\ t = <<>> /\ b = <<>> => Members(out') # {}
  BY <1>1, <1>2, ComposedIs
<1>5. \A n : Judge!Heard(n)' = H(n)
  BY DEF Judge!Heard
<1> HIDE DEF H
<1>6. \A kind, n : Judge!OnWire(kind, n)' <=> Put(kind, n) \in Members(out')
  BY <1>4, Holds DEF Judge!OnWire, Put
<1>7. \A n : Judge!Contains(blocked, n)' <=> n \in Members(b)
  BY <1>1, <1>2, Holds
<1>8. \A n \in DOMAIN upstream : n \in Judge!Block
  <2>1. upstream \in Seq(Judge!Kinds) /\ Len(upstream) <= JudgedBlocks
    BY DEF Judge!TypeOK
  <2>2. QED
    BY <2>1, PoliciesAssumption DEF Judge!Block
<1>9. \A n : Put("tool", n) \in Members(out') <=> Put("tool", n) \in Members(t)
  <2>1. \A n : Put("tool", n).kind = "tool" /\ Put("tool", n) \notin {Put("fallback", 0), Put("warning", 0), Put("marker", 0)}
    BY DEF Put
  <2>2. \A n : Put("tool", n) \notin Members(c)
    BY <2>1, <1>2
  <2>3. QED
    BY <2>1, <2>2, <1>4
<1>10. \A n : n \in Members(b) => b # <<>>
  BY DEF Members
<1>11. Judge!NothingVanishes'
  <2>1. ASSUME NEW n \in DOMAIN upstream
        PROVE  /\ upstream[n] = "tool" =>
                    /\ Put("tool", n) \in Members(out') \/ H(n) = "replace" \/ n \in Members(b)
                    /\ n \in Members(b) => Put("tool", n) \notin Members(out') /\ Put("marker", 0) \in Members(out')
               /\ upstream[n] = "text" =>
                    Put("text", n) \in Members(out') \/ H(n) \in {"replace", "failed_block"}
               /\ upstream[n] = "other" => Put("other", n) \in Members(out')
    <3>1. CASE upstream[n] = "tool"
      <4>1. H(n) \in Judge!Actions \cup {"cancelled"}
        BY <3>1, <1>3
      <4>2. Judge!Passed(H(n)) \/ H(n) \in {"replace", "failed_block", "cancelled"}
        BY <4>1 DEF Judge!Passed, Judge!Actions
      <4>3. ~(Judge!Passed(H(n)) /\ H(n) \in {"failed_block", "cancelled"})
        BY DEF Judge!Passed
      <4>4. QED
        BY <3>1, <4>2, <4>3, <1>3, <1>4, <1>8, <1>9, <1>10
    <3>2. CASE upstream[n] = "text"
      <4>1. Judge!Passed(H(n)) \/ H(n) \in {"replace", "failed_block"}
        BY <3>2, <1>3 DEF Judge!Passed, Judge!Actions
      <4>2. QED
        BY <3>2, <4>1, <1>3, <1>4
    <3>3. CASE upstream[n] = "other"
      BY <3>3, <1>3, <1>4
    <3>4. CASE upstream[n] \notin {"tool", "text", "other"}
      BY <3>4
    <3>5. QED
      BY <3>1, <3>2, <3>3, <3>4
  <2>2. QED
    BY <2>1, <1>5, <1>6, <1>7 DEF Judge!NothingVanishes, Judge!Received, Judge!IsTool
<1>12. Judge!FailureShows'
  <2>1. ASSUME NEW n \in DOMAIN upstream, H(n) = "failed_pass"
        PROVE  Put("warning", 0) \in Members(out')
    BY <2>1, <1>3, <1>4 DEF Judge!Failed
  <2>2. ASSUME NEW n \in DOMAIN upstream, H(n) = "failed_block"
        PROVE  out' # <<>> /\ (upstream[n] = "tool" => Put("marker", 0) \in Members(out'))
    <3>1. failed
      BY <2>2, <1>3 DEF Judge!Failed
    <3>2. Members(out') # {}
      <4>1. CASE c = <<>> /\ t = <<>> /\ b = <<>>
        BY <4>1, <3>1, <1>4
      <4>2. CASE b # <<>>
        BY <4>2, <1>4
      <4>3. CASE c # <<>>
        <5>1. c[1] \in Members(c)
          BY <4>3, <1>2 DEF Members
        <5>2. QED
          BY <5>1, <1>4
      <4>4. CASE t # <<>>
        <5>1. t[1] \in Members(t)
          BY <4>4, <1>2 DEF Members
        <5>2. QED
          BY <5>1, <1>4
      <4>5. QED
        BY <4>1, <4>2, <4>3, <4>4
    <3>3. out' # <<>>
      BY <3>2 DEF Members
    <3>4. upstream[n] = "tool" => n \in Members(b)
      BY <2>2, <1>3, <1>8
    <3>5. QED
      BY <3>3, <3>4, <1>4, <1>10
  <2>3. QED
    BY <2>1, <2>2, <1>5, <1>6 DEF Judge!FailureShows, Judge!Received, Judge!IsTool
<1>13. \A n \in Judge!Block :
         Put("tool", n) \in Members(out') <=>
           n \in DOMAIN upstream' /\ upstream'[n] = "tool" /\ Judge!Passed(Judge!Heard(n)')
  BY <1>3, <1>5, <1>9
<1>14. Judge!StopReasonTrue'
  <2>1. stop' = "tool_use" => t # <<>>
    BY DEF Judge!Finalize, Judge!StopReason
  <2>2. t # <<>> => t[1] \in Members(out') /\ IsToolUse(t[1])
    <3>1. t # <<>> => t[1] \in Members(t)
      BY <1>2 DEF Members
    <3>2. QED
      BY <3>1, <1>2, <1>4
  <2>3. (\E x \in Members(out') : IsToolUse(x)) => \E i \in DOMAIN out' : out'[i].kind \in {"tool", "new_tool"}
    BY DEF Members, IsToolUse
  <2>4. QED
    BY <2>1, <2>2, <2>3 DEF Judge!StopReasonTrue
<1>15. QED
  BY <1>1, <1>2, <1>4, <1>11, <1>12, <1>13, <1>14 DEF DoneInv, Members, Ordered, Judge!Passed

(* The collected decisions, with what was judged before, are all finalize   *)
(* needs: what each tool call comes to, in the order the calls came.        *)
LEMMA Decides ==
  ASSUME JudgeInv, streaming, phase \in {"reading", "collecting"},
         NEW results, NEW why, Judge!ApplyDecisions(results, why),
         \A i \in 1..count : /\ task[i] \in Judge!Actions \cup {"cancelled"}
                             /\ results[i] = IF task[i] = "cancelled" THEN "bailed" ELSE task[i]
  PROVE  \E c, t, b, failed : Ready(c, t, b, failed) /\ Judge!Finalize(c, t, b, failed, why)
<1>1. PICK rep \in [{i \in 1..count : results[i] = "replace"} -> Judge!Replacements] :
        LET Blocks(i) == IF results[i] = "replace" THEN rep[i] ELSE <<>> IN
        Judge!Finalize(
          out \o Judge!InOrder([i \in 1..count |-> Judge!Committed(tags[i], results[i], Blocks(i))]),
          tools \o Judge!InOrder([i \in 1..count |-> Judge!Buffered(tags[i], results[i], Blocks(i))]),
          blocked \o Judge!InOrder([i \in 1..count |-> Judge!Blocked(tags[i], results[i])]),
          judgeError \/ \E i \in 1..count : results[i] \in Judge!Failed,
          why)
  BY DEF Judge!ApplyDecisions
<1> DEFINE Blocks(i) == IF results[i] = "replace" THEN rep[i] ELSE <<>>
           fc == [i \in 1..count |-> Judge!Committed(tags[i], results[i], Blocks(i))]
           ft == [i \in 1..count |-> Judge!Buffered(tags[i], results[i], Blocks(i))]
           fb == [i \in 1..count |-> Judge!Blocked(tags[i], results[i])]
           c == out \o Judge!FlattenSeq(fc)
           t == tools \o Judge!FlattenSeq(ft)
           b == blocked \o Judge!FlattenSeq(fb)
           failed == judgeError \/ \E i \in 1..count : results[i] \in Judge!Failed
<1>2. Judge!Finalize(c, t, b, failed, why)
  BY <1>1 DEF Judge!InOrder
<1>3. /\ Judge!TypeOK /\ TasksInv /\ TagsInv /\ SaidInv /\ BuilderInv
      /\ count \in Nat /\ tags \in Seq(Judge!Block) /\ Len(tags) = count /\ DOMAIN tags = 1..count
  BY DEF JudgeInv, Judge!TypeOK, Judge!Judges!TypeOK
<1>4. \A i \in 1..count :
        /\ tags[i] \in Judge!Block /\ Blocks(i) \in Judge!Replacements
        /\ tags[i] \in DOMAIN upstream /\ upstream[tags[i]] = "tool"
        /\ Judge!Heard(tags[i]) = task[i]
        /\ Judge!Passed(results[i]) <=> Judge!Passed(task[i])
        /\ results[i] \in {"failed_block", "bailed"} <=> task[i] \in {"failed_block", "cancelled"}
        /\ results[i] \in Judge!Failed <=> task[i] \in Judge!Failed
  <2> SUFFICES ASSUME NEW i \in 1..count
               PROVE  /\ tags[i] \in Judge!Block /\ Blocks(i) \in Judge!Replacements
                      /\ tags[i] \in DOMAIN upstream /\ upstream[tags[i]] = "tool"
                      /\ Judge!Heard(tags[i]) = task[i]
                      /\ Judge!Passed(results[i]) <=> Judge!Passed(task[i])
                      /\ results[i] \in {"failed_block", "bailed"} <=> task[i] \in {"failed_block", "cancelled"}
                      /\ results[i] \in Judge!Failed <=> task[i] \in Judge!Failed
    OBVIOUS
  <2>1. tags[i] \in Judge!Block
    BY <1>3
  <2>2. Blocks(i) \in Judge!Replacements
    BY DEF Judge!Replacements
  <2>3. tags[i] \in DOMAIN upstream /\ upstream[tags[i]] = "tool"
    BY <1>3 DEF TagsInv
  <2>4. Judge!Heard(tags[i]) = task[i]
    BY <1>3, HeardIs
  <2>5. /\ Judge!Passed(results[i]) <=> Judge!Passed(task[i])
        /\ results[i] \in {"failed_block", "bailed"} <=> task[i] \in {"failed_block", "cancelled"}
        /\ results[i] \in Judge!Failed <=> task[i] \in Judge!Failed
    BY DEF Judge!Passed, Judge!Failed, Judge!Actions
  <2>6. QED
    BY <2>1, <2>2, <2>3, <2>4, <2>5
<1>5. \A n \in DOMAIN upstream : n \in Judge!Block
  <2>1. upstream \in Seq(Judge!Kinds) /\ Len(upstream) <= JudgedBlocks
    BY <1>3 DEF Judge!TypeOK
  <2>2. QED
    BY <2>1, PoliciesAssumption DEF Judge!Block
<1>6. \A n \in DOMAIN upstream : upstream[n] = "tool" => \E i \in 1..count : n = tags[i]
  BY <1>3, HeardIs DEF TagsInv
<1>7. \A n \in DOMAIN upstream : upstream[n] # "tool" => Judge!Heard(n) = said[n]
  <2>1. \A n \in Members(tags) : upstream[n] = "tool"
    BY <1>3 DEF TagsInv, Members
  <2>2. QED
    BY <2>1, <1>3, HeardIs
<1>8. \A i, j \in 1..count : tags[i] = tags[j] => i = j
  <2> TAKE i, j \in 1..count
  <2>1. tags[i] \in Nat /\ tags[j] \in Nat /\ i \in Nat /\ j \in Nat
    BY <1>3, PoliciesAssumption DEF Judge!Block
  <2>2. (i < j => tags[i] < tags[j]) /\ (j < i => tags[j] < tags[i])
    BY <1>3 DEF TagsInv
  <2>3. QED
    BY <2>1, <2>2
<1> \A kind, n : Put(kind, n).kind = kind /\ Put(kind, n).from = n
  BY DEF Put
<1>9. /\ c \in Seq(Judge!Wire) /\ Ordered(c, Rule) /\ Members(out) \subseteq Members(c)
      /\ \A x \in Members(c) : x.kind \in {"text", "other", "new_text"}
  <2> DEFINE w == Judge!FlattenSeq(fc)
             News == {x \in Judge!Wire : x.kind = "new_text"}
  <2>1. \A i \in 1..count : Judge!Committed(tags[i], results[i], Blocks(i)) \in Seq(News)
    <3> TAKE i \in 1..count
    <3> DEFINE p == Judge!Committed(tags[i], results[i], Blocks(i))
    <3>1. p \in Seq(Judge!Wire) /\ Members(p) \subseteq {Put("text", tags[i]), Put("new_text", tags[i])}
          /\ Put("text", tags[i]) \notin Members(p)
      BY <1>4, CommittedIs
    <3> HIDE DEF p
    <3>2. \A k \in DOMAIN p : p[k] \in News
      BY <3>1 DEF Members
    <3>3. QED
      BY <3>1, <3>2 DEF p
  <2>2. fc \in Seq(Seq(News))
    <3>1. fc \in [1..count -> Seq(News)]
      BY <2>1
    <3>2. QED
      BY <3>1, <1>3
  <2>3. w \in Seq(News)
    BY <2>2, Flattened
  <2> HIDE DEF w
  <2>4. w \in Seq(Judge!Wire) /\ \A x \in Members(w) : x \in News
    BY <2>3 DEF Members
  <2>5. \A x \in News : ~IsToolUse(x) /\ ~FromUpstream(x)
    BY DEF IsToolUse, FromUpstream, Judge!Kinds
  <2>6. Ordered(w, Rule)
    <3>1. News \X News \subseteq Rule
      BY <2>5, RuleIs
    <3>2. QED
      BY <3>1, <2>3, AnyOrder
  <2>7. Members(out) \X Members(w) \subseteq Rule
    <3> SUFFICES ASSUME NEW x \in Members(out), NEW y \in Members(w) PROVE <<x, y>> \in Rule
      OBVIOUS
    <3>1. x \in Judge!Wire /\ ~IsToolUse(x)
      <4>1. out \in Seq(Judge!Wire) /\ x.kind \in {"text", "other", "new_text"}
        BY <1>3 DEF Judge!TypeOK, BuilderInv
      <4>2. QED
        BY <4>1 DEF Members, IsToolUse
    <3>2. y \in Judge!Wire /\ ~FromUpstream(y)
      BY <2>4, <2>5
    <3>3. QED
      BY <3>1, <3>2, RuleIs
  <2>8. out \in Seq(Judge!Wire) /\ Ordered(out, Rule)
        /\ \A x \in Members(out) : x.kind \in {"text", "other", "new_text"}
    BY <1>3 DEF Judge!TypeOK, BuilderInv
  <2>9. /\ out \o w \in Seq(Judge!Wire) /\ Ordered(out \o w, Rule)
        /\ Members(out \o w) = Members(out) \cup Members(w)
    BY <2>4, <2>6, <2>7, <2>8, Joined
  <2>10. c = out \o w
    BY DEF w
  <2>11. QED
    BY <2>4, <2>8, <2>9, <2>10
<1>10. /\ t \in Seq(Judge!Wire) /\ Ordered(t, Rule)
       /\ \A x \in Members(t) : IsToolUse(x)
       /\ \A n : Put("tool", n) \in Members(t) <=> \E i \in 1..count : n = tags[i] /\ Judge!Passed(task[i])
  <2> DEFINE w == Judge!FlattenSeq(ft)
             P(i) == Judge!Buffered(tags[i], results[i], Blocks(i))
             Calls == {x \in Judge!Wire : IsToolUse(x)}
  <2>1. \A i \in 1..count :
          /\ P(i) \in Seq(Judge!Wire) /\ Ordered(P(i), Rule)
          /\ Members(P(i)) \subseteq {Put("tool", tags[i]), Put("new_tool", tags[i])}
          /\ Put("tool", tags[i]) \in Members(P(i)) <=> Judge!Passed(task[i])
    BY <1>4, BufferedIs
  <2>2. ft = [i \in 1..count |-> P(i)] /\ \A i \in 1..count : ft[i] = P(i)
    OBVIOUS
  <2> HIDE DEF P
  <2>3. ft \in Seq(Seq(Judge!Wire))
    <3>1. ft \in [1..count -> Seq(Judge!Wire)]
      BY <2>1, <2>2
    <3>2. QED
      BY <3>1, <1>3
  <2>4. DOMAIN ft = 1..count
    BY <2>2
  <2> HIDE DEF ft
  <2>5. /\ w \in Seq(Judge!Wire) /\ Members(w) = UNION {Members(ft[i]) : i \in DOMAIN ft}
        /\ \A R : (/\ \A i \in DOMAIN ft : Ordered(ft[i], R)
                   /\ \A i, j \in DOMAIN ft : i < j => Members(ft[i]) \X Members(ft[j]) \subseteq R)
                  => Ordered(w, R)
    BY <2>3, Flattened
  <2> HIDE DEF w
  <2>6. \A i \in 1..count : \A x \in Members(ft[i]) :
          x \in Judge!Wire /\ IsToolUse(x) /\ x.from = tags[i]
    <3> TAKE i \in 1..count
    <3> TAKE x \in Members(ft[i])
    <3>1. ft[i] \in Seq(Judge!Wire) /\ x \in {Put("tool", tags[i]), Put("new_tool", tags[i])}
      BY <2>1, <2>2
    <3>2. x \in Judge!Wire
      BY <3>1 DEF Members
    <3>3. QED
      BY <3>1, <3>2 DEF IsToolUse
  <2>7. \A i, j \in DOMAIN ft : i < j => Members(ft[i]) \X Members(ft[j]) \subseteq Rule
    <3> SUFFICES ASSUME NEW i \in 1..count, NEW j \in 1..count, i < j,
                        NEW x \in Members(ft[i]), NEW y \in Members(ft[j])
                 PROVE  <<x, y>> \in Rule
      BY <2>4
    <3>1. tags[i] < tags[j]
      BY <1>3 DEF TagsInv
    <3>2. QED
      BY <3>1, <2>6, RuleIs
  <2>8. Ordered(w, Rule)
    BY <2>1, <2>2, <2>4, <2>5, <2>7
  <2>9. \A x \in Members(w) : IsToolUse(x)
    BY <2>4, <2>5, <2>6
  <2>10. \A n : Put("tool", n) \in Members(w) <=> \E i \in 1..count : n = tags[i] /\ Judge!Passed(task[i])
    <3> TAKE n
    <3>1. Put("tool", n) \in Members(w) <=> \E i \in 1..count : Put("tool", n) \in Members(ft[i])
      BY <2>4, <2>5
    <3>2. \A i \in 1..count : Put("tool", n) \in Members(ft[i]) => n = tags[i]
      BY <2>6
    <3>3. \A i \in 1..count : n = tags[i] => (Put("tool", n) \in Members(ft[i]) <=> Judge!Passed(task[i]))
      BY <2>1, <2>2
    <3>4. QED
      BY <3>1, <3>2, <3>3
  <2>11. /\ tools \in Seq(Judge!Wire) /\ Ordered(tools, Rule) /\ \A x \in Members(tools) : IsToolUse(x)
         /\ \A x \in Members(tools) : x.kind # "tool"
    <3>1. tools \in Seq(Judge!Wire) /\ Ordered(tools, Rule) /\ \A x \in Members(tools) : IsToolUse(x)
      BY <1>3 DEF Judge!TypeOK, BuilderInv
    <3>2. \A n \in Judge!Block : Put("tool", n) \notin Members(tools)
      <4> TAKE n \in Judge!Block
      <4>1. Put("tool", n) \in Members(tools) =>
              n \in DOMAIN upstream /\ upstream[n] = "tool" /\ Judge!Passed(said[n])
        BY <1>3 DEF BuilderInv
      <4>2. upstream[n] = "tool" /\ said[n] # "none" => ~streaming
        BY <1>3 DEF SaidInv
      <4>3. QED
        BY <4>1, <4>2 DEF Judge!Passed
    <3>3. ASSUME NEW x \in Members(tools), x.kind = "tool" PROVE FALSE
      <4>1. x \in Judge!Wire
        BY <3>1 DEF Members
      <4>2. x = Put("tool", x.from) /\ x.from \in Judge!Block
        BY <4>1, <3>3, WireIs
      <4>3. QED
        BY <4>2, <3>2, <3>3
    <3>4. QED
      BY <3>1, <3>3
  <2>12. Members(tools) \X Members(w) \subseteq Rule
    <3> SUFFICES ASSUME NEW x \in Members(tools), NEW y \in Members(w) PROVE <<x, y>> \in Rule
      OBVIOUS
    <3>1. x \in Judge!Wire /\ IsToolUse(x) /\ ~FromUpstream(x)
      BY <2>11 DEF Members, IsToolUse, FromUpstream, Judge!Kinds
    <3>2. y \in Judge!Wire /\ IsToolUse(y)
      BY <2>5, <2>9 DEF Members
    <3>3. QED
      BY <3>1, <3>2, RuleIs
  <2>13. /\ tools \o w \in Seq(Judge!Wire) /\ Ordered(tools \o w, Rule)
         /\ Members(tools \o w) = Members(tools) \cup Members(w)
    BY <2>5, <2>8, <2>11, <2>12, Joined
  <2>14. t = tools \o w
    BY DEF w
  <2>15. QED
    BY <2>9, <2>10, <2>11, <2>13, <2>14
<1>11. /\ b \in Seq(Judge!Block)
       /\ \A n : n \in Members(b) <=>
            \E i \in 1..count : n = tags[i] /\ task[i] \in {"failed_block", "cancelled"}
  <2> DEFINE w == Judge!FlattenSeq(fb)
  <2>1. \A i \in 1..count :
          /\ fb[i] \in Seq(Judge!Block)
          /\ Members(fb[i]) = IF task[i] \in {"failed_block", "cancelled"} THEN {tags[i]} ELSE {}
    <3> TAKE i \in 1..count
    <3>1. fb[i] = Judge!Blocked(tags[i], results[i])
      OBVIOUS
    <3> HIDE DEF fb
    <3>2. tags[i] \in Judge!Block /\ upstream[tags[i]] = "tool"
      BY <1>4
    <3>3. results[i] \in {"failed_block", "bailed"} <=> task[i] \in {"failed_block", "cancelled"}
      BY <1>4
    <3>4. /\ Judge!Blocked(tags[i], results[i]) \in Seq(Judge!Block)
          /\ Members(Judge!Blocked(tags[i], results[i])) =
               IF results[i] \in {"failed_block", "bailed"} /\ upstream[tags[i]] = "tool" THEN {tags[i]} ELSE {}
      BY <3>2, BlockedIs
    <3>5. QED
      BY <3>1, <3>2, <3>3, <3>4
  <2>2. fb \in Seq(Seq(Judge!Block)) /\ DOMAIN fb = 1..count
    <3>1. fb \in [1..count -> Seq(Judge!Block)]
      BY <2>1
    <3>2. QED
      BY <3>1, <1>3
  <2> HIDE DEF fb
  <2>3. w \in Seq(Judge!Block) /\ Members(w) = UNION {Members(fb[i]) : i \in DOMAIN fb}
    BY <2>2, Flattened
  <2> HIDE DEF w
  <2>4. blocked \in Seq(Judge!Block) /\ Members(blocked) = {}
    <3>1. blocked \in Seq(Judge!Block)
      BY <1>3 DEF Judge!TypeOK
    <3>2. \A n \in Judge!Block : n \notin Members(blocked)
      BY <1>3 DEF BuilderInv, SaidInv
    <3>3. QED
      BY <3>1, <3>2 DEF Members
  <2>5. blocked \o w \in Seq(Judge!Block) /\ Members(blocked \o w) = Members(blocked) \cup Members(w)
    BY <2>3, <2>4, Joined
  <2>6. b = blocked \o w
    BY DEF w
  <2>7. \A n : n \in Members(w) <=>
          \E i \in 1..count : n = tags[i] /\ task[i] \in {"failed_block", "cancelled"}
    <3>1. \A i \in 1..count : \A n :
            n \in Members(fb[i]) <=> n = tags[i] /\ task[i] \in {"failed_block", "cancelled"}
      <4> TAKE i \in 1..count
      <4>1. CASE task[i] \in {"failed_block", "cancelled"}
        <5>1. Members(fb[i]) = {tags[i]}
          BY <4>1, <2>1
        <5>2. QED
          BY <4>1, <5>1
      <4>2. CASE task[i] \notin {"failed_block", "cancelled"}
        <5>1. Members(fb[i]) = {}
          BY <4>2, <2>1
        <5>2. QED
          BY <4>2, <5>1
      <4>3. QED
        BY <4>1, <4>2
    <3>2. \A n : n \in Members(w) <=> \E i \in 1..count : n \in Members(fb[i])
      BY <2>2, <2>3
    <3>3. QED
      BY <3>1, <3>2
  <2> HIDE DEF b
  <2>8. b \in Seq(Judge!Block) /\ Members(b) = Members(w)
    BY <2>4, <2>5, <2>6
  <2>9. QED
    BY <2>7, <2>8
<1>12. failed \in BOOLEAN
  BY <1>3 DEF Judge!TypeOK
<1>13. \A i \in 1..count : task[i] \in Judge!Failed => failed
  BY <1>4
<1>14. judgeError => failed
  OBVIOUS
<1> HIDE DEF c, t, b, failed, fc, ft, fb, Blocks
<1>15. \A n \in DOMAIN upstream :
         /\ upstream[n] = "other" => Put("other", n) \in Members(c)
         /\ upstream[n] = "text" =>
              /\ Judge!Heard(n) \in Judge!Actions
              /\ Judge!Passed(Judge!Heard(n)) => Put("text", n) \in Members(c)
         /\ upstream[n] = "tool" => Judge!Heard(n) \in Judge!Actions \cup {"cancelled"}
         /\ Judge!Heard(n) \in Judge!Failed => failed
         /\ Judge!Heard(n) = "failed_pass" => onError = "pass"
  <2> TAKE n \in DOMAIN upstream
  <2>1. CASE upstream[n] = "tool"
    <3>1. PICK i \in 1..count : n = tags[i]
      BY <2>1, <1>6
    <3>2. Judge!Heard(n) = task[i] /\ (task[i] = "failed_pass" => onError = "pass")
      BY <3>1, <1>3, <1>4 DEF TasksInv
    <3>3. QED
      BY <2>1, <3>2, <1>13
  <2>2. CASE upstream[n] # "tool"
    <3>1. Judge!Heard(n) = said[n] /\ n \in Judge!Block /\ ~Awaited(n)
      BY <2>2, <1>5, <1>7 DEF Awaited
    <3>2. /\ said[n] \in Judge!Failed => judgeError
          /\ said[n] = "failed_pass" => onError = "pass"
          /\ upstream[n] = "text" => said[n] # "none"
      BY <3>1, <1>3 DEF SaidInv
    <3>3. said[n] \in Judge!Actions \cup {"none"}
      BY <3>1, <1>3 DEF Judge!TypeOK
    <3>4. /\ upstream[n] = "other" => Put("other", n) \in Members(out)
          /\ upstream[n] = "text" /\ Judge!Passed(said[n]) => Put("text", n) \in Members(out)
      BY <1>3 DEF BuilderInv
    <3>5. QED
      BY <2>2, <3>1, <3>2, <3>3, <3>4, <1>9, <1>14
  <2>3. QED
    BY <2>1, <2>2
<1>16. \A n \in Judge!Block :
         /\ Put("tool", n) \in Members(t) <=>
              n \in DOMAIN upstream /\ upstream[n] = "tool" /\ Judge!Passed(Judge!Heard(n))
         /\ n \in Members(b) <=>
              /\ n \in DOMAIN upstream /\ upstream[n] = "tool"
              /\ Judge!Heard(n) \in {"failed_block", "cancelled"}
  BY <1>4, <1>6, <1>10, <1>11
<1>17. Ready(c, t, b, failed)
  BY <1>9, <1>10, <1>11, <1>12, <1>15, <1>16 DEF Ready
<1>18. QED
  BY <1>2, <1>17

(* Without streaming, what was judged block by block is all.                *)
LEMMA ReadsAll ==
  ASSUME JudgeInv, ~streaming, phase = "reading"
  PROVE  Ready(out, tools, blocked, judgeError)
<1>1. Judge!TypeOK /\ TasksInv /\ TagsInv /\ SaidInv /\ BuilderInv
  BY DEF JudgeInv
<1>2. \A n : Judge!Heard(n) = said[n]
  <2>1. tags \in Seq(Judge!Block) /\ Len(tags) = 0
    BY <1>1 DEF Judge!TypeOK, TagsInv
  <2>2. Members(tags) = {}
    BY <2>1 DEF Members
  <2>3. QED
    BY <2>2, <1>1, HeardIs
<1>3. \A n \in DOMAIN upstream : n \in Judge!Block
  <2>1. upstream \in Seq(Judge!Kinds) /\ Len(upstream) <= JudgedBlocks
    BY <1>1 DEF Judge!TypeOK
  <2>2. QED
    BY <2>1, PoliciesAssumption DEF Judge!Block
<1>4. \A n \in Judge!Block : said[n] \in Judge!Actions \cup {"none"} /\ said[n] # "cancelled"
  BY <1>1 DEF Judge!TypeOK, Judge!Actions
<1>5. \A n : ~Awaited(n)
  BY DEF Awaited
<1>6. /\ out \in Seq(Judge!Wire) /\ tools \in Seq(Judge!Wire) /\ blocked \in Seq(Judge!Block)
      /\ judgeError \in BOOLEAN
  BY <1>1 DEF Judge!TypeOK
<1>7. \A n \in DOMAIN upstream :
       /\ upstream[n] = "other" => Put("other", n) \in Members(out)
       /\ upstream[n] = "text" =>
            /\ said[n] \in Judge!Actions
            /\ Judge!Passed(said[n]) => Put("text", n) \in Members(out)
       /\ upstream[n] = "tool" => said[n] \in Judge!Actions \cup {"cancelled"}
       /\ said[n] \in Judge!Failed => judgeError
       /\ said[n] = "failed_pass" => onError = "pass"
  <2> TAKE n \in DOMAIN upstream
  <2>1. /\ upstream[n] \in {"text", "tool"} => said[n] # "none"
        /\ said[n] \in Judge!Failed => judgeError
        /\ said[n] = "failed_pass" => onError = "pass"
    BY <1>1, <1>3, <1>5 DEF SaidInv
  <2>2. /\ upstream[n] = "other" => Put("other", n) \in Members(out)
        /\ upstream[n] = "text" /\ Judge!Passed(said[n]) => Put("text", n) \in Members(out)
    BY <1>1 DEF BuilderInv
  <2>3. said[n] \in Judge!Actions \cup {"none"}
    BY <1>3, <1>4
  <2>4. QED
    BY <2>1, <2>2, <2>3
<1>8. \A n \in Judge!Block :
       /\ Put("tool", n) \in Members(tools) <=>
            n \in DOMAIN upstream /\ upstream[n] = "tool" /\ Judge!Passed(said[n])
       /\ n \in Members(blocked) <=>
            /\ n \in DOMAIN upstream /\ upstream[n] = "tool" /\ said[n] \in {"failed_block", "cancelled"}
  BY <1>1, <1>4 DEF BuilderInv
<1>9. /\ Ordered(out, Rule) /\ Ordered(tools, Rule)
      /\ \A x \in Members(out) : x.kind \in {"text", "other", "new_text"}
      /\ \A x \in Members(tools) : IsToolUse(x)
  BY <1>1 DEF BuilderInv
<1>10. QED
  BY <1>2, <1>6, <1>7, <1>8, <1>9 DEF Ready

(* Everything is read: the response that is judged block by block ends.     *)
LEMMA Ends ==
  ASSUME JudgeInv, Judge!EndOfContent
  PROVE  JudgeInv'
<1>1. PICK why \in Judge!Reasons : Judge!Finalize(out, tools, blocked, judgeError, why)
  BY DEF Judge!EndOfContent
<1>2. /\ ~streaming /\ phase = "reading"
      /\ UNCHANGED <<onError, streaming, upstream, said, tags>>
      /\ UNCHANGED <<count, task, result, bailed, mode>>
  BY DEF Judge!EndOfContent, Judge!judgeVars
<1>3. Judge!TypeOK /\ TasksInv /\ TagsInv /\ SaidInv
  BY DEF JudgeInv
<1>4. /\ out' \in Seq(Judge!Wire) /\ tools' \in Seq(Judge!Wire) /\ blocked' \in Seq(Judge!Block)
      /\ judgeError' \in BOOLEAN /\ phase' = "done" /\ DoneInv'
  BY <1>1, <1>2, <1>3, ReadsAll, Finalizes
<1>5. Judge!Judges!TypeOK' /\ TasksInv'
  BY <1>2, <1>3, TasksMove DEF Judge!TypeOK
<1>6. Judge!TypeOK'
  <2>1. stop' \in Judge!Stops \cup {"none"}
    BY <1>1 DEF Judge!Finalize, Judge!StopReason, Judge!Reasons, Judge!Stops
  <2>2. QED
    BY <1>2, <1>3, <1>4, <1>5, <2>1 DEF Judge!TypeOK
<1>7. TagsInv'
  BY <1>2, <1>3, <1>4 DEF TagsInv
<1>8. judgeError' = judgeError
  BY <1>1 DEF Judge!Finalize
<1>9. SaidInv'
  BY <1>2, <1>3, <1>4, <1>8 DEF SaidInv, Awaited
<1>10. QED
  BY <1>4, <1>5, <1>6, <1>7, <1>9 DEF JudgeInv, BuilderInv

(* With the judges of a stream all heard, the decisions end it.             *)
LEMMA Applied ==
  ASSUME JudgeInv, streaming, phase \in {"reading", "collecting"},
         NEW results, NEW why \in Judge!Stops \cup {"none"}, Judge!ApplyDecisions(results, why),
         \A i \in 1..count : /\ task[i] \in Judge!Actions \cup {"cancelled"}
                             /\ results[i] = IF task[i] = "cancelled" THEN "bailed" ELSE task[i],
         UNCHANGED <<onError, streaming, upstream, said, tags, task, count>>, mode' = "returned",
         Judge!Judges!TypeOK', TasksInv'
  PROVE  JudgeInv'
<1>1. PICK c, t, b, failed : Ready(c, t, b, failed) /\ Judge!Finalize(c, t, b, failed, why)
  BY Decides
<1>2. Judge!TypeOK /\ TagsInv /\ SaidInv /\ TasksInv
  BY DEF JudgeInv
<1>3. /\ out' \in Seq(Judge!Wire) /\ tools' \in Seq(Judge!Wire) /\ blocked' \in Seq(Judge!Block)
      /\ judgeError' \in BOOLEAN /\ phase' = "done" /\ DoneInv'
  BY <1>1, <1>2, Finalizes
<1>4. Judge!TypeOK'
  <2>1. stop' \in Judge!Stops \cup {"none"}
    BY <1>1 DEF Judge!Finalize, Judge!StopReason, Judge!Stops
  <2>2. QED
    BY <1>2, <1>3, <2>1 DEF Judge!TypeOK
<1>5. TagsInv'
  BY <1>2, <1>3 DEF TagsInv
<1>6. SaidInv'
  <2>1. \A n : ~Awaited(n) /\ ~Awaited(n)'
    BY <1>3 DEF Awaited
  <2>2. \A n \in Judge!Block : said[n] \in Judge!Failed => judgeError'
    <3> TAKE n \in Judge!Block
    <3>1. CASE n \in DOMAIN upstream /\ said[n] # "none"
      <4>1. Judge!Heard(n) = said[n]
        <5>1. upstream[n] # "tool"
          BY <3>1, <1>2 DEF SaidInv
        <5>2. n \notin Members(tags)
          BY <5>1, <1>2, HeardIs DEF TagsInv
        <5>3. QED
          BY <5>2, <1>2, HeardIs
      <4>2. said[n] \in Judge!Failed => failed
        BY <3>1, <4>1, <1>1 DEF Ready
      <4>3. QED
        BY <4>2, <1>1 DEF Judge!Finalize
    <3>2. CASE ~(n \in DOMAIN upstream /\ said[n] # "none")
      BY <3>2, <1>2 DEF SaidInv, Judge!Failed
    <3>3. QED
      BY <3>1, <3>2
  <2>3. QED
    BY <1>2, <1>3, <2>1, <2>2 DEF SaidInv
<1>7. QED
  BY <1>3, <1>4, <1>5, <1>6 DEF JudgeInv, BuilderInv

(* message_delta: the decisions are collected, at once if there are none.   *)
LEMMA Collects ==
  ASSUME JudgeInv, Judge!MessageDelta
  PROVE  JudgeInv'
<1>1. PICK why \in Judge!Reasons :
        \/ mode' = "returned" /\ Judge!ApplyDecisions(result, why)
        \/ /\ mode' = "waiting" /\ phase' = "collecting" /\ stop' = why
           /\ UNCHANGED <<out, tools, blocked, judgeError>>
  BY DEF Judge!MessageDelta, Judge!builder
<1>2. /\ streaming /\ phase = "reading" /\ Judge!Judges!Collect
      /\ UNCHANGED <<onError, streaming, upstream, said, tags>>
      /\ UNCHANGED <<count, task, result, bailed>>
  BY DEF Judge!MessageDelta, Judge!Judges!Collect
<1>3. Judge!TypeOK /\ TasksInv /\ TagsInv /\ SaidInv /\ BuilderInv
  BY DEF JudgeInv
<1>4. Judge!Judges!TypeOK' /\ TasksInv'
  BY <1>2, <1>3, TasksMove DEF Judge!TypeOK
<1>5. why \in Judge!Stops
  BY DEF Judge!Reasons
<1>6. CASE mode' = "returned" /\ Judge!ApplyDecisions(result, why)
  <2>1. count = 0
    BY <1>2, <1>6 DEF Judge!Judges!Collect
  <2>2. \A i \in 1..count : /\ task[i] \in Judge!Actions \cup {"cancelled"}
                            /\ result[i] = IF task[i] = "cancelled" THEN "bailed" ELSE task[i]
    BY <2>1
  <2>3. QED
    BY <1>2, <1>4, <1>5, <1>6, <2>2, Applied
<1>7. CASE /\ mode' = "waiting" /\ phase' = "collecting" /\ stop' = why
           /\ UNCHANGED <<out, tools, blocked, judgeError>>
  <2>1. Judge!TypeOK'
    BY <1>2, <1>3, <1>4, <1>5, <1>7 DEF Judge!TypeOK
  <2>2. TagsInv' /\ SaidInv'
    BY <1>2, <1>3, <1>7 DEF TagsInv, SaidInv, Awaited
  <2>3. BuilderInv' /\ DoneInv'
    BY <1>2, <1>3, <1>7 DEF BuilderInv, Awaited, DoneInv
  <2>4. QED
    BY <1>4, <2>1, <2>2, <2>3 DEF JudgeInv
<1>8. QED
  BY <1>1, <1>6, <1>7

(* collect wakes up, for the last time or not.                              *)
LEMMA WakesUp ==
  ASSUME JudgeInv, Judge!CollectWakes
  PROVE  JudgeInv'
<1>1. /\ phase = "collecting" /\ Judge!Judges!Wake
      /\ IF mode' = "returned" THEN Judge!ApplyDecisions(result', stop)
                               ELSE UNCHANGED <<out, tools, blocked, judgeError>> /\ UNCHANGED <<stop, phase>>
      /\ UNCHANGED <<onError, streaming, upstream, said, tags>>
  BY DEF Judge!CollectWakes, Judge!builder
<1>2. Judge!TypeOK /\ TasksInv /\ TagsInv /\ SaidInv /\ BuilderInv
  BY DEF JudgeInv
<1>3. /\ Judge!Judges!TypeOK' /\ TasksInv' /\ count' = count
      /\ mode' = "returned" => task' = task
      /\ mode' \in {"returned", "waiting"}
  <2>1. count' = count /\ mode' \in {"returned", "waiting"}
    BY <1>1 DEF Judge!Judges!Wake
  <2>2. QED
    BY <2>1, <1>1, <1>2, Wakes DEF Judge!TypeOK
<1>4. streaming
  BY <1>1, <1>2 DEF TagsInv
<1>5. CASE mode' = "returned"
  <2>1. \A i \in 1..count : /\ task[i] \in Judge!Actions \cup {"cancelled"}
                            /\ result'[i] = IF task[i] = "cancelled" THEN "bailed" ELSE task[i]
    BY <1>3, <1>5 DEF TasksInv
  <2>2. stop \in Judge!Stops \cup {"none"}
    BY <1>2 DEF Judge!TypeOK
  <2>3. QED
    BY <1>1, <1>3, <1>4, <1>5, <2>1, <2>2, Applied
<1>6. CASE mode' = "waiting"
  <2>1. UNCHANGED <<out, tools, blocked, judgeError>> /\ UNCHANGED <<stop, phase>>
    BY <1>1, <1>6
  <2>2. Judge!TypeOK'
    BY <1>1, <1>2, <1>3, <2>1 DEF Judge!TypeOK
  <2>3. TagsInv' /\ SaidInv'
    BY <1>1, <1>2, <1>3, <1>6, <2>1 DEF TagsInv, SaidInv, Awaited
  <2>4. BuilderInv' /\ DoneInv'
    BY <1>1, <1>2, <2>1 DEF BuilderInv, Awaited, DoneInv
  <2>5. QED
    BY <1>3, <2>2, <2>3, <2>4 DEF JudgeInv
<1>7. QED
  BY <1>3, <1>5, <1>6

(* Each step of the judge policy keeps its invariant.                       *)
LEMMA JudgeKeeps ==
  ASSUME JudgeInv, Judge!Next
  PROVE  JudgeInv'
<1>1. CASE \E i \in Judge!Block : Judge!JudgeStep(i)
  BY <1>1, Judges
<1>2. QED
  BY <1>1, PassesThrough, Suppresses, Asks, Applies, Submits, Ends, Collects, WakesUp, GivesUp
     DEF Judge!Next

(* Whatever happens to the other policies, and while nothing happens.       *)
LEMMA JudgeStays ==
  ASSUME JudgeInv, UNCHANGED judgeVars
  PROVE  JudgeInv'
<1>1. /\ UNCHANGED <<onError, streaming, upstream, said, tags, out, tools, blocked, judgeError, stop, phase>>
      /\ UNCHANGED <<count, task, result, bailed, mode>>
  BY DEF judgeVars
<1>2. Judge!TypeOK' /\ TasksInv' /\ TagsInv'
  BY <1>1 DEF JudgeInv, Judge!TypeOK, Judge!Judges!TypeOK, TasksInv, TagsInv
<1>3. SaidInv' /\ BuilderInv'
  BY <1>1 DEF JudgeInv, SaidInv, BuilderInv, Awaited
<1>4. DoneInv'
  <2>1. DoneInv
    BY DEF JudgeInv
  <2>2. Judge!NothingVanishes' <=> Judge!NothingVanishes
    BY <1>1 DEF Judge!NothingVanishes, Judge!Heard, Judge!OnWire, Judge!Received, Judge!IsTool
  <2>3. Judge!FailureShows' <=> Judge!FailureShows
    BY <1>1 DEF Judge!FailureShows, Judge!Heard, Judge!OnWire, Judge!Received, Judge!IsTool
  <2>4. Judge!StopReasonTrue' <=> Judge!StopReasonTrue
    BY <1>1 DEF Judge!StopReasonTrue
  <2>5. Ordered(out, Rule)' <=> Ordered(out, Rule)
    BY <1>1 DEF Ordered, Rule
  <2>6. \A n \in Judge!Block : Judge!Heard(n)' = Judge!Heard(n)
    BY <1>1 DEF Judge!Heard
  <2>7. QED
    BY <1>1, <2>1, <2>2, <2>3, <2>4, <2>5, <2>6 DEF DoneInv, Members
<1>5. QED
  BY <1>2, <1>3, <1>4 DEF JudgeInv

(* SimpleLLMPolicy keeps its builder and its judges in step with the        *)
(* response, for any number of blocks and in whatever order judges finish.  *)
THEOREM JudgeInvariance == FairSpec => []JudgeInv
<1>1. Init => JudgeInv
  BY JudgeStarts DEF Init
<1>2. JudgeInv /\ [Next]_vars => JudgeInv'
  BY JudgeKeeps, JudgeStays DEF Next, vars
<1>3. QED
  BY <1>1, <1>2, PTL DEF FairSpec

(* In a response that is done, each tool call was delivered, replaced or     *)
(* named in the marker, each text delivered, replaced or blocked by a failed *)
(* judge, other blocks delivered, and a failed judge shows (finalize and     *)
(* to_anthropic_response of anthropic_message_builder.py).                  *)
THEOREM NothingIsLost == FairSpec => []NothingVanishes
<1>1. JudgeInv => NothingVanishes
  <2>1. phase # "done" => NothingVanishes
    BY DEF NothingVanishes, Judge!NothingVanishes, Judge!FailureShows
  <2>2. QED
    BY <2>1 DEF JudgeInv, DoneInv, NothingVanishes
<1>2. QED
  BY <1>1, JudgeInvariance, PTL

(* What leaves the judge policy is in upstream's order with the tool calls    *)
(* last, and no tool_use is announced that is not there.                     *)
THEOREM JudgedIsAcceptable == FairSpec => [](Judge!WellOrdered /\ Judge!StopReasonTrue)
<1>1. JudgeInv => Judge!WellOrdered /\ Judge!StopReasonTrue
  <2> SUFFICES ASSUME JudgeInv PROVE Judge!WellOrdered /\ Judge!StopReasonTrue
    OBVIOUS
  <2>1. Ordered(out, Rule)
    BY DEF JudgeInv, BuilderInv, DoneInv
  <2>2. Judge!WellOrdered
    BY <2>1 DEF Ordered, Rule, IsToolUse, FromUpstream, Judge!WellOrdered, Judge!ToolsLast, Judge!UpstreamOrder
  <2>3. Judge!StopReasonTrue
    BY DEF JudgeInv, DoneInv, Judge!StopReasonTrue
  <2>4. QED
    BY <2>2, <2>3
<1>2. QED
  BY <1>1, JudgeInvariance, PTL

-----------------------------------------------------------------------------
(* ToolGate, told of the policy: its state is the judge's, seen from afar.  *)

Offered == {n \in Judge!Received : Judge!IsTool(n)}
Decision(n) ==
  IF n \notin Judge!Received \/ ~Judge!IsTool(n) THEN "undecided"
  ELSE IF Judge!Passed(Judge!Heard(n)) THEN "allowed"
  ELSE IF Judge!Heard(n) \in {"replace", "failed_block", "cancelled"} THEN "denied"
  ELSE "undecided"
Ruling == [n \in Judge!Block |-> Decision(n)]
Released(w) == Judge!FlattenSeq([i \in DOMAIN w |-> IF w[i].kind = "tool" THEN <<w[i].from>> ELSE <<>>])
GateState == IF phase = "done" THEN "closed" ELSE IF phase = "gone" THEN "dropped" ELSE "open"

(* The steps of the gate in these terms.                                    *)
LEMMA GateIs ==
  /\ Judge!Gate!Init <=>
       /\ Offered = {} /\ Released(out) = <<>> /\ GateState = "open"
       /\ Ruling = [t \in Judge!Block |-> "undecided"]
  /\ \A t : Judge!Gate!Offer(t) <=>
       /\ GateState = "open" /\ \A u \in Offered : u < t
       /\ Offered' = Offered \cup {t}
       /\ Ruling' = Ruling /\ Released(out)' = Released(out) /\ GateState' = GateState
  /\ \A t : Judge!Gate!Decide(t) <=>
       /\ t \in Offered /\ Ruling[t] = "undecided"
       /\ \E v \in {"allowed", "denied"} : Ruling' = [Ruling EXCEPT ![t] = v]
       /\ Offered' = Offered /\ Released(out)' = Released(out) /\ GateState' = GateState
  /\ Judge!Gate!Close <=>
       /\ GateState = "open" /\ \A t \in Offered : Ruling[t] # "undecided"
       /\ Released(out)' \in Seq(Judge!Block) /\ Judge!Gate!InOrder(Released(out)')
       /\ Judge!Gate!ToSet(Released(out)') = {t \in Offered : Ruling[t] = "allowed"}
       /\ GateState' = "closed"
       /\ Offered' = Offered /\ Ruling' = Ruling
  /\ Judge!Gate!Drop <=>
       /\ GateState = "open" /\ GateState' = "dropped"
       /\ Offered' = Offered /\ Ruling' = Ruling /\ Released(out)' = Released(out)
  /\ UNCHANGED Judge!Gate!vars <=>
       /\ Offered' = Offered /\ Ruling' = Ruling
       /\ Released(out)' = Released(out) /\ GateState' = GateState
<1>1. Judge!Gate!Init <=>
       /\ Offered = {} /\ Released(out) = <<>> /\ GateState = "open"
       /\ Ruling = [t \in Judge!Block |-> "undecided"]
  BY DEF Judge!Gate!Init, Offered, Released, GateState, Ruling, Decision
<1>2. ASSUME NEW t PROVE Judge!Gate!Offer(t) <=>
       /\ GateState = "open" /\ \A u \in Offered : u < t
       /\ Offered' = Offered \cup {t}
       /\ Ruling' = Ruling /\ Released(out)' = Released(out) /\ GateState' = GateState
  BY DEF Judge!Gate!Offer, Offered, Released, GateState, Ruling, Decision
<1>3. ASSUME NEW t PROVE Judge!Gate!Decide(t) <=>
       /\ t \in Offered /\ Ruling[t] = "undecided"
       /\ \E v \in {"allowed", "denied"} : Ruling' = [Ruling EXCEPT ![t] = v]
       /\ Offered' = Offered /\ Released(out)' = Released(out) /\ GateState' = GateState
  BY DEF Judge!Gate!Decide, Offered, Released, GateState, Ruling, Decision
<1>4. Judge!Gate!Close <=>
       /\ GateState = "open" /\ \A t \in Offered : Ruling[t] # "undecided"
       /\ Released(out)' \in Seq(Judge!Block) /\ Judge!Gate!InOrder(Released(out)')
       /\ Judge!Gate!ToSet(Released(out)') = {t \in Offered : Ruling[t] = "allowed"}
       /\ GateState' = "closed"
       /\ Offered' = Offered /\ Ruling' = Ruling
  BY DEF Judge!Gate!Close, Offered, Released, GateState, Ruling, Decision
<1>5. Judge!Gate!Drop <=>
       /\ GateState = "open" /\ GateState' = "dropped"
       /\ Offered' = Offered /\ Ruling' = Ruling /\ Released(out)' = Released(out)
  BY DEF Judge!Gate!Drop, Offered, Released, GateState, Ruling, Decision
<1>6. UNCHANGED Judge!Gate!vars <=>
       /\ Offered' = Offered /\ Ruling' = Ruling
       /\ Released(out)' = Released(out) /\ GateState' = GateState
  BY DEF Judge!Gate!vars, Offered, Released, GateState, Ruling, Decision
<1>7. QED
  BY <1>1, <1>2, <1>3, <1>4, <1>5, <1>6

(* The tool calls of a response stand in it as upstream numbered them.      *)
LEMMA ReleasedIs ==
  ASSUME NEW w \in Seq(Judge!Wire), Ordered(w, Rule)
  PROVE  /\ Released(w) \in Seq(Judge!Block)
         /\ Judge!Gate!InOrder(Released(w))
         /\ Judge!Gate!ToSet(Released(w)) = {n \in Judge!Block : Put("tool", n) \in Members(w)}
<1> DEFINE f == [i \in DOMAIN w |-> IF w[i].kind = "tool" THEN <<w[i].from>> ELSE <<>>]
           Less == {p \in Judge!Block \X Judge!Block : p[1] < p[2]}
           g == Judge!FlattenSeq(f)
<1>1. DOMAIN w = 1..Len(w) /\ Len(w) \in Nat /\ \A i \in DOMAIN w : w[i] \in Judge!Wire
  OBVIOUS
<1>2. \A i \in DOMAIN w : w[i].kind = "tool" => w[i].from \in Judge!Block /\ w[i] = Put("tool", w[i].from)
  BY <1>1 DEF Judge!Wire, Put
<1>3. \A i \in DOMAIN w : f[i] \in Seq(Judge!Block) /\ Ordered(f[i], Less)
        /\ Members(f[i]) = IF w[i].kind = "tool" THEN {w[i].from} ELSE {}
  BY <1>2 DEF Ordered, Members
<1>4. f \in Seq(Seq(Judge!Block)) /\ DOMAIN f = DOMAIN w
  <2> DEFINE B == Seq(Judge!Block)
  <2>1. \A i \in 1..Len(w) : f[i] \in B
    BY <1>1, <1>3
  <2>2. f = [i \in 1..Len(w) |-> f[i]] /\ DOMAIN f = DOMAIN w
    BY <1>1
  <2> HIDE DEF B, f
  <2>3. f \in [1..Len(w) -> B]
    BY <2>1, <2>2
  <2>4. f \in Seq(B)
    BY <2>3, <1>1
  <2>5. QED
    BY <2>2, <2>4 DEF B
<1>5. ASSUME NEW i \in DOMAIN w, NEW j \in DOMAIN w, i < j PROVE Members(f[i]) \X Members(f[j]) \subseteq Less
  <2>1. CASE w[i].kind = "tool" /\ w[j].kind = "tool"
    <3>1. <<w[i], w[j]>> \in Rule
      BY <1>5 DEF Ordered
    <3>2. FromUpstream(w[i]) /\ FromUpstream(w[j])
      BY <2>1 DEF FromUpstream, Judge!Kinds
    <3>3. w[i].from < w[j].from
      BY <2>1, <3>1, <3>2 DEF Rule
    <3>4. <<w[i].from, w[j].from>> \in Less
      BY <2>1, <3>3, <1>2
    <3>5. Members(f[i]) = {w[i].from} /\ Members(f[j]) = {w[j].from}
      BY <2>1, <1>3
    <3> HIDE DEF Less, f
    <3>6. QED
      BY <3>4, <3>5
  <2>2. CASE ~(w[i].kind = "tool" /\ w[j].kind = "tool")
    BY <2>2, <1>3
  <2>3. QED
    BY <2>1, <2>2
<1> HIDE DEF f
<1>6. g \in Seq(Judge!Block) /\ Members(g) = UNION {Members(f[i]) : i \in DOMAIN f} /\ Ordered(g, Less)
  BY <1>3, <1>4, <1>5, Flattened
<1>7. Released(w) = g
  BY DEF Released, f
<1> HIDE DEF g
<1>8. Judge!Gate!InOrder(g)
  BY <1>6 DEF Ordered, Judge!Gate!InOrder
<1>9. Members(g) = {n \in Judge!Block : Put("tool", n) \in Members(w)}
  <2>1. ASSUME NEW n \in Members(g) PROVE n \in Judge!Block /\ Put("tool", n) \in Members(w)
    <3>1. PICK i \in DOMAIN w : n \in Members(f[i])
      BY <1>4, <1>6
    <3>2. w[i].kind = "tool" /\ n = w[i].from
      BY <3>1, <1>3
    <3>3. QED
      BY <3>2, <1>2 DEF Members
  <2>2. ASSUME NEW n \in Judge!Block, Put("tool", n) \in Members(w) PROVE n \in Members(g)
    <3>1. PICK i \in DOMAIN w : w[i] = Put("tool", n)
      BY <2>2 DEF Members
    <3>2. w[i].kind = "tool" /\ w[i].from = n
      BY <3>1 DEF Put
    <3>3. n \in Members(f[i])
      BY <3>2, <1>3
    <3>4. QED
      BY <3>3, <1>4, <1>6
  <2>3. QED
    BY <2>1, <2>2
<1>10. QED
  BY <1>6, <1>7, <1>8, <1>9 DEF Judge!Gate!ToSet, Members

(* Before the end no tool call is out, at the end those that were allowed,  *)
(* and then every judge has decided.                                        *)
Gated ==
  /\ phase # "done" => Released(out) = <<>>
  /\ phase = "done" =>
       /\ Released(out) \in Seq(Judge!Block) /\ Judge!Gate!InOrder(Released(out))
       /\ Judge!Gate!ToSet(Released(out)) = {t \in Offered : Ruling[t] = "allowed"}
       /\ \A t \in Offered : Ruling[t] # "undecided"

(* The builder and the judges are in step with the gate.                    *)
LEMMA GateHolds == JudgeInv => Gated
<1> SUFFICES ASSUME JudgeInv PROVE Gated
  OBVIOUS
<1>1. Judge!TypeOK /\ TasksInv /\ TagsInv /\ SaidInv /\ BuilderInv /\ DoneInv
  BY DEF JudgeInv
<1>2. out \in Seq(Judge!Wire) /\ Ordered(out, Rule)
  BY <1>1 DEF Judge!TypeOK, BuilderInv, DoneInv
<1>3. /\ Released(out) \in Seq(Judge!Block) /\ Judge!Gate!InOrder(Released(out))
      /\ Judge!Gate!ToSet(Released(out)) = {n \in Judge!Block : Put("tool", n) \in Members(out)}
  BY <1>2, ReleasedIs
<1>4. Offered \subseteq Judge!Block
  <2>1. upstream \in Seq(Judge!Kinds) /\ Len(upstream) <= JudgedBlocks
    BY <1>1 DEF Judge!TypeOK
  <2>2. QED
    BY <2>1, PoliciesAssumption DEF Offered, Judge!Received, Judge!Block
<1>5. ASSUME phase # "done" PROVE Released(out) = <<>>
  <2>1. \A n : Put("tool", n) \notin Members(out)
    BY <1>1, <1>5 DEF BuilderInv, Put
  <2>2. Judge!Gate!ToSet(Released(out)) = {}
    BY <1>3, <2>1
  <2>3. QED
    BY <1>3, <2>2 DEF Judge!Gate!ToSet
<1>6. ASSUME phase = "done" PROVE Judge!Gate!ToSet(Released(out)) = {t \in Offered : Ruling[t] = "allowed"}
  <2>1. \A n \in Judge!Block : Put("tool", n) \in Members(out) <=>
          n \in Judge!Received /\ Judge!IsTool(n) /\ Judge!Passed(Judge!Heard(n))
    BY <1>1, <1>6 DEF DoneInv, Judge!Received, Judge!IsTool
  <2>2. \A n \in Judge!Block : n \in Offered /\ Ruling[n] = "allowed" <=>
          n \in Judge!Received /\ Judge!IsTool(n) /\ Judge!Passed(Judge!Heard(n))
    BY DEF Offered, Ruling, Decision
  <2>3. QED
    BY <1>3, <1>4, <2>1, <2>2
<1>7. ASSUME phase = "done", NEW t \in Offered PROVE Ruling[t] # "undecided"
  <2>1. t \in Judge!Block /\ t \in Judge!Received /\ Judge!IsTool(t)
    BY <1>4 DEF Offered
  <2>2. Judge!Heard(t) \in Judge!Actions \cup {"cancelled"}
    <3>1. CASE streaming
      <4>1. t \in Members(tags) /\ mode = "returned"
        BY <1>1, <1>7, <2>1, <3>1 DEF TagsInv, Judge!Received, Judge!IsTool
      <4>2. PICK i \in 1..count : t = tags[i]
        BY <4>1, <1>1, HeardIs
      <4>3. task[i] \in Judge!Actions \cup {"cancelled"}
        BY <4>1, <1>1 DEF TasksInv
      <4>4. QED
        BY <4>2, <4>3, <1>1, HeardIs
    <3>2. CASE ~streaming
      <4>1. t \notin Members(tags)
        BY <1>1, <3>2 DEF TagsInv, Judge!TypeOK, Members
      <4>2. said[t] # "none"
        BY <1>1, <1>7, <2>1, <3>2 DEF SaidInv, Awaited, Judge!Received, Judge!IsTool
      <4>3. said[t] \in Judge!Actions
        BY <1>1, <2>1, <4>2 DEF Judge!TypeOK
      <4>4. QED
        BY <4>1, <4>3, <1>1, HeardIs
    <3>3. QED
      BY <3>1, <3>2
  <2>3. QED
    BY <2>1, <2>2 DEF Ruling, Decision, Judge!Passed, Judge!Actions
<1>8. QED
  BY <1>3, <1>5, <1>6, <1>7 DEF Gated

(* A step that leaves the gate as it is: no call is offered, decided or      *)
(* released.                                                                *)
LEMMA GateUnmoved ==
  ASSUME Released(out)' = Released(out), GateState' = GateState,
         Offered' = Offered, \A n \in Judge!Block : Decision(n)' = Decision(n)
  PROVE  UNCHANGED Judge!Gate!vars
<1>1. Ruling' = Ruling
  BY DEF Ruling
<1>2. QED
  BY <1>1, GateIs

(* What is heard of a block, now and after a step.                          *)
HeardOf ==
  /\ \A i \in 1..count : Judge!Heard(tags[i]) = task[i] /\ tags[i] \in Members(tags)
  /\ \A n : n \notin Members(tags) => Judge!Heard(n) = said[n]
  /\ \A n \in Members(tags) : \E i \in 1..count : n = tags[i]

(* The invariant says so of the state ...                                   *)
LEMMA HeardAll == JudgeInv => HeardOf
BY HeardIs DEF HeardOf, JudgeInv

(* ... and of the next one, and so it does of the gate.                     *)
LEMMA HeardLater == JudgeInv' => HeardOf'
BY HeardAll, PTL

(* After a step.                                                            *)
LEMMA GateHoldsLater == JudgeInv' => Gated'
BY GateHolds, PTL

(* What was decided of a block stays when what is heard of it does, or when  *)
(* it is still open.                                                        *)
LEMMA DecisionKept ==
  ASSUME NEW n, n \in Offered' <=> n \in Offered,
         n \in Offered => \/ Judge!Heard(n)' = Judge!Heard(n)
                          \/ {Judge!Heard(n), Judge!Heard(n)'} \subseteq {"running", "cancelling"}
  PROVE  Decision(n)' = Decision(n)
BY DEF Decision, Offered, Judge!Passed

(* A step before the end that offers and decides nothing.                   *)
LEMMA Quiet ==
  ASSUME JudgeInv, JudgeInv', phase # "done", phase' # "done", GateState' = GateState,
         Offered' = Offered,
         \A n \in Offered : \/ Judge!Heard(n)' = Judge!Heard(n)
                            \/ {Judge!Heard(n), Judge!Heard(n)'} \subseteq {"running", "cancelling"}
  PROVE  UNCHANGED Judge!Gate!vars
<1>1. \A n \in Judge!Block : Decision(n)' = Decision(n)
  BY DecisionKept
<1>2. Released(out) = <<>> /\ Released(out)' = <<>>
  BY GateHolds, GateHoldsLater DEF Gated
<1>3. QED
  BY <1>1, <1>2, GateUnmoved

(* What is heard changes with what was said and with the judges only.       *)
LEMMA HeardSame ==
  ASSUME UNCHANGED <<said, tags, task>>, NEW n
  PROVE  Judge!Heard(n)' = Judge!Heard(n)
BY DEF Judge!Heard

(* A block that is no tool call is nothing to the gate.                     *)
LEMMA NoCall ==
  ASSUME JudgeInv, JudgeInv', NEW kind \in {"text", "empty", "other"}, Judge!Receive(kind),
         UNCHANGED <<said, tags, task>>, phase' \in {"reading", "judging"}
  PROVE  UNCHANGED Judge!Gate!vars
<1>1. Judge!TypeOK
  BY DEF JudgeInv
<1>2. Offered' = Offered /\ phase = "reading"
  BY <1>1, Receives DEF Offered, Judge!Received, Judge!IsTool
<1>3. QED
  BY <1>2, HeardSame, Quiet DEF GateState

(* A tool call that arrives is offered; it is not decided yet.              *)
LEMMA Call ==
  ASSUME NEW t, t = Len(upstream) + 1,
         JudgeInv, JudgeInv', Judge!Receive("tool"), phase' \in {"reading", "judging"},
         \A n \in DOMAIN upstream : Judge!Heard(n)' = Judge!Heard(n),
         ~Judge!Passed(Judge!Heard(t)'),
         Judge!Heard(t)' \notin {"replace", "failed_block", "cancelled"}
  PROVE  t \in Judge!Block /\ Judge!Gate!Offer(t)
<1>1. Judge!TypeOK
  BY DEF JudgeInv
<1>2. /\ t \in Judge!Block /\ phase = "reading"
      /\ t \notin Offered /\ \A u \in Offered : u < t
      /\ Offered' = Offered \cup {t}
  BY <1>1, Receives DEF Offered, Judge!Received, Judge!IsTool
<1>3. GateState' = GateState /\ GateState = "open"
  BY <1>2 DEF GateState
<1>4. Released(out) = <<>> /\ Released(out)' = <<>>
  BY <1>2, GateHolds, GateHoldsLater DEF Gated
<1>5. \A n \in Judge!Block : Decision(n)' = Decision(n)
  <2> TAKE n \in Judge!Block
  <2>1. CASE n = t
    <3>1. Decision(t) = "undecided"
      BY <1>2 DEF Decision, Offered
    <3>2. Decision(t)' = "undecided"
      BY DEF Decision
    <3>3. QED
      BY <2>1, <3>1, <3>2
  <2>2. CASE n # t
    <3>1. n \in Offered => n \in DOMAIN upstream
      BY DEF Offered, Judge!Received
    <3>2. QED
      BY <2>2, <3>1, <1>2, DecisionKept
  <2>3. QED
    BY <2>1, <2>2
<1>6. Ruling' = Ruling
  BY <1>5 DEF Ruling
<1>7. Judge!Gate!Offer(t)
  BY <1>2, <1>3, <1>4, <1>6, GateIs
<1>8. QED
  BY <1>2, <1>7

(* A judge's answer decides one call.                                       *)
LEMMA CallDecided ==
  ASSUME JudgeInv, JudgeInv', NEW t \in Offered, t \in Judge!Block,
         phase # "done", phase' # "done", GateState' = GateState, upstream' = upstream,
         Judge!Heard(t) \in {"none", "running", "cancelling"},
         Judge!Heard(t)' \in Judge!Actions \cup {"cancelled"},
         \A n \in Offered \ {t} : Judge!Heard(n)' = Judge!Heard(n)
  PROVE  Judge!Gate!Decide(t)
<1>1. Offered' = Offered
  BY DEF Offered, Judge!Received, Judge!IsTool
<1>2. Released(out) = <<>> /\ Released(out)' = <<>>
  BY GateHolds, GateHoldsLater DEF Gated
<1>3. Ruling[t] = "undecided"
  BY DEF Ruling, Decision, Judge!Passed
<1>4. Decision(t)' \in {"allowed", "denied"}
  <2>1. t \in Judge!Received' /\ Judge!IsTool(t)'
    BY <1>1 DEF Offered
  <2>2. QED
    BY <2>1 DEF Decision, Judge!Passed, Judge!Actions
<1>5. \A n \in Judge!Block \ {t} : Decision(n)' = Decision(n)
  BY <1>1, DecisionKept
<1>6. Ruling' = [Ruling EXCEPT ![t] = Decision(t)']
  BY <1>5 DEF Ruling
<1>7. \E v \in {"allowed", "denied"} : Ruling' = [Ruling EXCEPT ![t] = v]
  BY <1>4, <1>6
<1>8. Released(out)' = Released(out)
  BY <1>2
<1>9. QED
  BY <1>1, <1>3, <1>7, <1>8, GateIs

(* The response ends: the calls that were allowed are released.             *)
LEMMA CallsReleased ==
  ASSUME JudgeInv, JudgeInv', phase \in {"reading", "collecting"}, phase' = "done",
         UNCHANGED <<upstream, said, tags, task>>
  PROVE  Judge!Gate!Close
<1>1. Offered' = Offered
  BY DEF Offered, Judge!Received, Judge!IsTool
<1>2. \A n \in Judge!Block : Decision(n)' = Decision(n)
  BY <1>1, HeardSame, DecisionKept
<1>3. Ruling' = Ruling
  BY <1>2 DEF Ruling
<1>4. GateState = "open" /\ GateState' = "closed"
  BY DEF GateState
<1>5. /\ Released(out)' \in Seq(Judge!Block) /\ Judge!Gate!InOrder(Released(out)')
      /\ Judge!Gate!ToSet(Released(out)') = {t \in Offered : Ruling[t] = "allowed"}
      /\ \A t \in Offered : Ruling[t] # "undecided"
  BY <1>1, <1>3, GateHoldsLater DEF Gated
<1>6. QED
  BY <1>1, <1>3, <1>4, <1>5, GateIs

(* A tool call is offered: to the judge that is awaited, ...                *)
LEMMA AskSeen ==
  ASSUME JudgeInv, JudgeInv', Judge!AskJudge
  PROVE  Judge!Gate!Next \/ UNCHANGED Judge!Gate!vars
<1>1. PICK kind \in IF streaming THEN {"text"} ELSE {"text", "empty", "tool"} : Judge!Receive(kind)
  BY DEF Judge!AskJudge
<1>2. phase' = "judging" /\ UNCHANGED <<streaming, said, tags, count, task>>
  BY DEF Judge!AskJudge, Judge!judgeVars
<1>3. CASE kind \in {"text", "empty"}
  BY <1>1, <1>2, <1>3, NoCall
<1>4. CASE kind = "tool"
  <2>1. ~streaming
    BY <1>1, <1>4
  <2>2. PICK t : t = Len(upstream) + 1
    OBVIOUS
  <2>3. t \in Judge!Block /\ t \notin DOMAIN upstream
    BY <1>1, <2>2, Receives DEF JudgeInv
  <2>4. said[t] = "none"
    BY <2>3 DEF JudgeInv, SaidInv
  <2>5. Members(tags) = {}
    BY <2>1 DEF JudgeInv, TagsInv, Judge!TypeOK, Members
  <2>6. Judge!Heard(t) = "none"
    BY <2>4, <2>5, HeardAll DEF HeardOf
  <2>7. \A n : Judge!Heard(n)' = Judge!Heard(n)
    BY <1>2, HeardSame
  <2>8. t \in Judge!Block /\ Judge!Gate!Offer(t)
    BY <1>1, <1>2, <1>4, <2>2, <2>6, <2>7, Call DEF Judge!Passed
  <2>9. QED
    BY <2>8 DEF Judge!Gate!Next
<1>5. QED
  BY <1>1, <1>3, <1>4

(* ... or to a judge of its own.                                            *)
LEMMA SubmitSeen ==
  ASSUME JudgeInv, JudgeInv', Judge!SubmitTool
  PROVE  Judge!Gate!Next
<1>1. PICK t : t = Len(upstream) + 1
  OBVIOUS
<1>2. /\ Judge!Receive("tool") /\ UNCHANGED <<said, phase>>
      /\ count' = count + 1 /\ task' = [task EXCEPT ![count + 1] = "running"]
      /\ tags' = Append(tags, Len(upstream'))
  BY DEF Judge!SubmitTool, Judge!Judges!Submit
<1>3. /\ tags \in Seq(Judge!Block) /\ Len(tags) = count /\ count \in Nat
      /\ task' \in [Judge!Block -> Judge!Judges!Unfinished \cup Judge!Judges!NoResult \cup Judge!Actions]
      /\ count' \in 0..JudgedBlocks
  BY DEF JudgeInv, Judge!TypeOK, Judge!Judges!TypeOK, Judge!Judges!Item, Judge!Block
<1>4. /\ t \notin DOMAIN upstream /\ Len(upstream') = t /\ phase = "reading"
      /\ \A m \in Members(tags) : m \in DOMAIN upstream
  BY <1>1, <1>2, Receives DEF JudgeInv, TagsInv, Members, Judge!TypeOK, Judge!Judges!TypeOK
<1>5. count + 1 \in 1..count' /\ tags'[count + 1] = t /\ task'[count + 1] = "running"
  BY <1>2, <1>3, <1>4, PoliciesAssumption DEF Judge!Block
<1>6. Judge!Heard(t)' = "running"
  BY <1>5, HeardLater DEF HeardOf
<1>7. \A i \in 1..count : i \in 1..count' /\ tags'[i] = tags[i] /\ task'[i] = task[i]
  BY <1>2, <1>3
<1>8. ASSUME NEW n \in DOMAIN upstream PROVE Judge!Heard(n)' = Judge!Heard(n)
  <2>1. CASE n \in Members(tags)
    <3>1. PICK i \in 1..count : n = tags[i]
      BY <2>1, HeardAll DEF HeardOf
    <3>2. Judge!Heard(n) = task[i]
      BY <3>1, HeardAll DEF HeardOf
    <3>3. n = tags'[i] /\ i \in 1..count' /\ task'[i] = task[i]
      BY <3>1, <1>7
    <3>4. Judge!Heard(n)' = task'[i]
      BY <3>3, HeardLater DEF HeardOf
    <3>5. QED
      BY <3>2, <3>3, <3>4
  <2>2. CASE n \notin Members(tags)
    <3>1. Members(tags') = Members(tags) \cup {t}
      BY <1>2, <1>3, <1>4 DEF Members
    <3>2. n \notin Members(tags')
      BY <2>2, <3>1, <1>4
    <3>3. QED
      BY <2>2, <3>2, <1>2, HeardAll, HeardLater DEF HeardOf
  <2>3. QED
    BY <2>1, <2>2
<1>9. t \in Judge!Block /\ Judge!Gate!Offer(t)
  BY <1>1, <1>2, <1>4, <1>6, <1>8, Call DEF Judge!Passed
<1>10. QED
  BY <1>9 DEF Judge!Gate!Next

(* An awaited judge answers.                                                *)
LEMMA AnswerSeen ==
  ASSUME JudgeInv, JudgeInv', Judge!ApplyAnswer
  PROVE  Judge!Gate!Next \/ UNCHANGED Judge!Gate!vars
<1>1. PICK n : n = Len(upstream)
  OBVIOUS
<1>2. PICK v \in Judge!Verdicts : said' = [said EXCEPT ![n] = v]
  BY <1>1 DEF Judge!ApplyAnswer
<1>3. /\ phase = "judging" /\ phase' = "reading"
      /\ UNCHANGED <<streaming, upstream, tags, count, task>>
  BY DEF Judge!ApplyAnswer, Judge!judgeVars
<1>4. /\ Judge!TypeOK /\ TagsInv /\ SaidInv /\ Awaited(n)
      /\ n \in DOMAIN upstream /\ n \in Judge!Block
      /\ v \in Judge!Actions /\ said[n] = "none" /\ said'[n] = v
      /\ \A m : m # n /\ m \in Judge!Block => said'[m] = said[m]
  <2>1. Judge!TypeOK /\ TagsInv /\ SaidInv
    BY DEF JudgeInv
  <2>2. upstream \in Seq(Judge!Kinds) /\ Len(upstream) <= JudgedBlocks /\ upstream # <<>>
        /\ said \in [Judge!Block -> Judge!Actions \cup {"none"}]
    BY <1>3, <2>1 DEF Judge!TypeOK, SaidInv
  <2>3. n \in DOMAIN upstream /\ n \in Judge!Block /\ Awaited(n)
    BY <1>1, <1>3, <2>2, PoliciesAssumption DEF Judge!Block, Awaited
  <2>4. v \in Judge!Actions
    BY DEF Judge!Verdicts, Judge!Actions
  <2>5. QED
    BY <1>2, <2>1, <2>2, <2>3, <2>4 DEF SaidInv
<1>5. Offered' = Offered /\ GateState' = GateState
  BY <1>3 DEF Offered, Judge!Received, Judge!IsTool, GateState
<1>6. Offered \subseteq Judge!Block
  BY <1>4, PoliciesAssumption DEF Offered, Judge!Received, Judge!TypeOK, Judge!Block
<1>7. ASSUME NEW m \in Offered, m # n PROVE Judge!Heard(m)' = Judge!Heard(m)
  <2>1. said'[m] = said[m]
    BY <1>4, <1>6, <1>7
  <2>2. QED
    BY <1>3, <2>1 DEF Judge!Heard
<1>8. CASE upstream[n] = "tool"
  <2>1. ~streaming
    BY <1>1, <1>3, <1>4, <1>8 DEF SaidInv
  <2>2. Members(tags) = {}
    BY <2>1, <1>4 DEF TagsInv, Judge!TypeOK, Members
  <2>3. Judge!Heard(n) = "none"
    BY <2>2, <1>4, HeardAll DEF HeardOf
  <2>4. Judge!Heard(n)' = v
    BY <2>2, <1>3, <1>4, HeardLater DEF HeardOf
  <2>5. n \in Offered
    BY <1>4, <1>8 DEF Offered, Judge!Received, Judge!IsTool
  <2>6. Judge!Gate!Decide(n)
    BY <1>3, <1>4, <1>5, <1>7, <2>3, <2>4, <2>5, CallDecided
  <2>7. QED
    BY <1>4, <2>6 DEF Judge!Gate!Next
<1>9. CASE upstream[n] # "tool"
  <2>1. n \notin Offered
    BY <1>9 DEF Offered, Judge!IsTool
  <2>2. QED
    BY <1>3, <1>5, <1>7, <2>1, Quiet
<1>10. QED
  BY <1>8, <1>9

(* A judge that runs beside the stream ends.                                *)
LEMMA JudgeSeen ==
  ASSUME JudgeInv, JudgeInv', NEW i \in Judge!Block, Judge!JudgeStep(i)
  PROVE  Judge!Gate!Next
<1>1. /\ (\E v \in Judge!Verdicts : Judge!Judges!Return(i, v)) \/ Judge!Judges!EndCancelled(i)
      /\ UNCHANGED <<upstream, said, tags, phase>>
  BY DEF Judge!JudgeStep
<1>2. PICK v \in Judge!Actions \cup {"cancelled"} :
        task[i] \in {"running", "cancelling"} /\ count' = count /\ task' = [task EXCEPT ![i] = v]
  <2>1. Judge!Verdicts \subseteq Judge!Actions
    BY DEF Judge!Verdicts, Judge!Actions
  <2>2. QED
    BY <1>1, <2>1 DEF Judge!Judges!Return, Judge!Judges!EndCancelled
<1>3. /\ Judge!TypeOK /\ TagsInv /\ TasksInv /\ phase # "done"
      /\ task \in [Judge!Block -> Judge!Judges!Unfinished \cup Judge!Judges!NoResult \cup Judge!Actions]
      /\ count \in 0..JudgedBlocks
  BY <1>2, AllEnded DEF JudgeInv, Judge!TypeOK, Judge!Judges!TypeOK, Judge!Judges!Item, Judge!Block
<1>4. i \in 1..count
  <2>1. ~(i > count)
    BY <1>2, <1>3 DEF TasksInv
  <2>2. QED
    BY <2>1, <1>3, PoliciesAssumption DEF Judge!Block
<1>5. PICK t : t = tags[i]
  OBVIOUS
<1>6. t \in Offered /\ t \in Judge!Block /\ Judge!Heard(t) = task[i]
  <2>1. t \in Offered
    BY <1>3, <1>4, <1>5 DEF TagsInv, Offered, Judge!Received, Judge!IsTool
  <2>2. t \in Judge!Block
    BY <1>3, <1>4, <1>5 DEF Judge!TypeOK
  <2>3. QED
    BY <2>1, <2>2, <1>4, <1>5, HeardAll DEF HeardOf
<1>7. Judge!Heard(t)' = v
  <2>1. i \in 1..count' /\ tags'[i] = t /\ task'[i] = v
    BY <1>1, <1>2, <1>3, <1>4, <1>5
  <2>2. QED
    BY <2>1, HeardLater DEF HeardOf
<1>8. ASSUME NEW n, n # t PROVE Judge!Heard(n)' = Judge!Heard(n)
  <2>1. CASE n \in Members(tags)
    <3>1. PICK j \in 1..count : n = tags[j]
      BY <2>1, HeardAll DEF HeardOf
    <3>2. j # i /\ j \in 1..count' /\ n = tags'[j] /\ task'[j] = task[j]
      <4>1. j # i
        BY <3>1, <1>5, <1>8
      <4>2. j \in Judge!Block
        BY <1>3, PoliciesAssumption DEF Judge!Block
      <4>3. QED
        BY <3>1, <4>1, <4>2, <1>1, <1>2, <1>3
    <3>3. Judge!Heard(n) = task[j]
      BY <3>1, HeardAll DEF HeardOf
    <3>4. Judge!Heard(n)' = task'[j]
      BY <3>2, HeardLater DEF HeardOf
    <3>5. QED
      BY <3>2, <3>3, <3>4
  <2>2. CASE n \notin Members(tags)
    <3>1. n \notin Members(tags')
      BY <2>2, <1>1
    <3>2. QED
      BY <2>2, <3>1, <1>1, HeardAll, HeardLater DEF HeardOf
  <2>3. QED
    BY <2>1, <2>2
<1>9. Judge!Gate!Decide(t)
  BY <1>1, <1>2, <1>3, <1>6, <1>7, <1>8, CallDecided DEF GateState
<1>10. QED
  BY <1>6, <1>9 DEF Judge!Gate!Next

(* The decisions are collected, some or all.                                *)
LEMMA CollectSeen ==
  ASSUME JudgeInv, JudgeInv', Judge!EndOfContent \/ Judge!MessageDelta \/ Judge!CollectWakes
  PROVE  Judge!Gate!Next \/ UNCHANGED Judge!Gate!vars
<1>1. ASSUME phase \in {"reading", "collecting"}, phase' = "done", UNCHANGED <<upstream, said, tags, task>>
      PROVE  Judge!Gate!Next
  BY <1>1, CallsReleased DEF Judge!Gate!Next
<1>2. CASE Judge!EndOfContent
  BY <1>1, <1>2 DEF Judge!EndOfContent, Judge!Finalize, Judge!judgeVars
<1>3. CASE Judge!MessageDelta
  <2>1. /\ phase = "reading" /\ UNCHANGED <<upstream, said, tags, task>>
        /\ phase' \in {"done", "collecting"}
    BY <1>3 DEF Judge!MessageDelta, Judge!Judges!Collect, Judge!ApplyDecisions, Judge!Finalize
  <2>2. CASE phase' = "done"
    BY <1>1, <2>1, <2>2
  <2>3. CASE phase' = "collecting"
    <3>1. Offered' = Offered /\ GateState' = GateState
      BY <2>1, <2>3 DEF Offered, Judge!Received, Judge!IsTool, GateState
    <3>2. QED
      BY <2>1, <2>3, <3>1, HeardSame, Quiet
  <2>4. QED
    BY <2>1, <2>2, <2>3
<1>4. CASE Judge!CollectWakes
  <2>1. /\ phase = "collecting" /\ Judge!Judges!Wake /\ UNCHANGED <<upstream, said, tags>>
        /\ mode' = "returned" => phase' = "done"
        /\ mode' # "returned" => phase' = phase
    BY <1>4 DEF Judge!CollectWakes, Judge!ApplyDecisions, Judge!Finalize
  <2>2. Judge!TypeOK /\ Judge!Judges!TypeOK /\ TasksInv
    BY DEF JudgeInv, Judge!TypeOK
  <2>3. CASE mode' = "returned"
    BY <1>1, <2>1, <2>2, <2>3, Wakes
  <2>4. CASE mode' # "returned"
    <3>1. Offered' = Offered /\ GateState' = GateState
      BY <2>1, <2>4 DEF Offered, Judge!Received, Judge!IsTool, GateState
    <3>2. count' = count /\ \A i \in 1..count : task'[i] = task[i] \/ {task[i], task'[i]} \subseteq {"running", "cancelling"}
      <4>1. 1..count \subseteq Judge!Judges!Item
        BY <2>2, PoliciesAssumption DEF Judge!Judges!TypeOK, Judge!Judges!Item
      <4>2. QED
        BY <2>1, <4>1 DEF Judge!Judges!Wake, Judge!Judges!Cancel
    <3>3. ASSUME NEW n \in Offered
          PROVE  \/ Judge!Heard(n)' = Judge!Heard(n)
                 \/ {Judge!Heard(n), Judge!Heard(n)'} \subseteq {"running", "cancelling"}
      <4>1. CASE n \in Members(tags)
        <5>1. PICK j \in 1..count : n = tags[j]
          BY <4>1, HeardAll DEF HeardOf
        <5>2. Judge!Heard(n) = task[j]
          BY <5>1, HeardAll DEF HeardOf
        <5>3. j \in 1..count' /\ n = tags'[j]
          BY <5>1, <2>1, <3>2
        <5>4. Judge!Heard(n)' = task'[j]
          BY <5>3, HeardLater DEF HeardOf
        <5>5. QED
          BY <5>2, <5>4, <3>2
      <4>2. CASE n \notin Members(tags)
        <5>1. n \notin Members(tags')
          BY <4>2, <2>1
        <5>2. QED
          BY <4>2, <5>1, <2>1, HeardAll, HeardLater DEF HeardOf
      <4>3. QED
        BY <4>1, <4>2
    <3>4. QED
      BY <2>1, <2>4, <3>1, <3>3, Quiet
  <2>5. QED
    BY <2>3, <2>4
<1>5. QED
  BY <1>2, <1>3, <1>4

(* The client leaves.                                                       *)
LEMMA AbandonSeen ==
  ASSUME JudgeInv, JudgeInv', Judge!Abandon
  PROVE  Judge!Gate!Next
<1>1. /\ phase \in {"reading", "judging", "collecting"} /\ phase' = "gone"
      /\ UNCHANGED <<upstream, said, tags, task>>
  BY DEF Judge!Abandon, Judge!Judges!Abandon
<1>2. Offered' = Offered
  BY <1>1 DEF Offered, Judge!Received, Judge!IsTool
<1>3. \A n \in Judge!Block : Decision(n)' = Decision(n)
  BY <1>1, <1>2, HeardSame, DecisionKept
<1>4. Ruling' = Ruling
  BY <1>3 DEF Ruling
<1>5. Released(out) = <<>> /\ Released(out)' = <<>>
  BY <1>1, GateHolds, GateHoldsLater DEF Gated
<1>6. GateState = "open" /\ GateState' = "dropped"
  BY <1>1 DEF GateState
<1>7. Judge!Gate!Drop
  BY <1>2, <1>4, <1>5, <1>6, GateIs
<1>8. QED
  BY <1>7 DEF Judge!Gate!Next

(* Every step of the judge policy is a step of the gate or none to it.      *)
LEMMA GateSeen ==
  ASSUME JudgeInv, JudgeInv', Judge!Next
  PROVE  Judge!Gate!Next \/ UNCHANGED Judge!Gate!vars
<1>1. CASE Judge!PassThrough
  BY <1>1, NoCall DEF Judge!PassThrough, Judge!judgeVars, Judge!Receive
<1>2. CASE Judge!SuppressEmpty
  BY <1>2, NoCall DEF Judge!SuppressEmpty, Judge!judgeVars, Judge!Receive
<1>3. CASE \E i \in Judge!Block : Judge!JudgeStep(i)
  BY <1>3, JudgeSeen
<1>4. QED
  BY <1>1, <1>2, <1>3, AskSeen, AnswerSeen, SubmitSeen, CollectSeen, AbandonSeen DEF Judge!Next

(* SimpleLLMPolicy releases to the client, together and in upstream's order,  *)
(* the tool calls its judges allowed, once every judge has decided, and       *)
(* none of a response that is dropped: it implements ToolGate.               *)
THEOREM GateKept == FairSpec => KeepsGate
<1>1. Init => Judge!Gate!Init
  <2> SUFFICES ASSUME Init PROVE Judge!Gate!Init
    OBVIOUS
  <2>1. upstream = <<>> /\ out = <<>> /\ phase = "reading"
    BY DEF Init, Judge!Init
  <2>2. JudgeInv
    BY JudgeStarts DEF Init
  <2>3. Released(out) = <<>>
    BY <2>1, <2>2, GateHolds DEF Gated
  <2>4. Offered = {} /\ \A n : Decision(n) = "undecided"
    BY <2>1 DEF Offered, Decision, Judge!Received
  <2>5. Ruling = [t \in Judge!Block |-> "undecided"] /\ GateState = "open"
    BY <2>1, <2>4 DEF Ruling, GateState
  <2>6. QED
    BY <2>3, <2>4, <2>5, GateIs
<1>2. ASSUME JudgeInv, JudgeInv', [Next]_vars PROVE [Judge!Gate!Next]_(Judge!Gate!vars)
  <2>1. CASE Judge!Next
    BY <1>2, <2>1, GateSeen
  <2>2. CASE UNCHANGED judgeVars
    <3>1. UNCHANGED <<upstream, said, tags, task, out, phase>>
      BY <2>2 DEF judgeVars
    <3>2. Offered' = Offered /\ GateState' = GateState /\ Released(out)' = Released(out)
      BY <3>1 DEF Offered, Judge!Received, Judge!IsTool, GateState, Released
    <3>3. \A n \in Judge!Block : Decision(n)' = Decision(n)
      BY <3>1, <3>2, HeardSame, DecisionKept
    <3>4. QED
      BY <3>2, <3>3, GateUnmoved
  <2>3. QED
    BY <1>2, <2>1, <2>2 DEF Next, vars
<1>3. QED
  BY <1>1, <1>2, JudgeInvariance, PTL DEF FairSpec, KeepsGate, Judge!KeepsGate, Judge!Gate!Spec

-----------------------------------------------------------------------------
(* The administrator's preview, position by position.                       *)

AnswerTo(to, call, by) == [to |-> to, call |-> call, by |-> by]
TypedAnswer == AnswerTo("typed", 1, "model")
Rewrites == chat.policy.request # "keeps"
FinalAnswer(by) == AnswerTo(IF Rewrites THEN "rewritten" ELSE "typed", IF Rewrites THEN 2 ELSE 1, by)
AnswerAfter == FinalAnswer(IF chat.policy.response = "keeps" THEN "model" ELSE "policy")

Fields  == {"at", "mock", "key", "client", "policy", "credential", "request", "snapshot", "transformed",
            "before", "shown", "reused", "upstream", "after", "calls", "error"}

PreviewInv ==
  /\ active \in Preview!Hooked \cup {Preview!Old}
  /\ DOMAIN chat = Fields /\ chat.policy \in Preview!Hooked \cup {Preview!Old} /\ chat.calls \in Nat
  /\ chat.shown = IF chat.calls > 0 THEN TypedAnswer ELSE Preview!NoText
  /\ chat.calls > 0 \/ chat.at \notin {"answered", "client"} =>
       chat.client = IF chat.key = "own" THEN "own" ELSE "server"
  /\ chat.credential # "none" => chat.client = "own"
  /\ chat.at # "answered" => ~chat.mock /\ chat.error = "none"
  /\ chat.mock => chat.calls = 0
  /\ chat.at \in {"client", "policy", "before"} => chat.calls = 0 /\ chat.request = "typed"
  /\ chat.at \in {"client", "policy"} => chat.credential = "none"
  /\ chat.at \in {"request", "compare"} => chat.calls = 1 /\ chat.before = TypedAnswer
  /\ chat.at = "request" => chat.request = "typed"
  /\ chat.at = "compare" =>
       /\ chat.policy.request # "raises" /\ chat.snapshot = "typed"
       /\ chat.transformed = IF Rewrites THEN "rewritten" ELSE "typed"
  /\ chat.at = "response" =>
       chat.calls > 0 /\ chat.policy.request # "raises" /\ chat.upstream = FinalAnswer("model")
  /\ chat.at = "show" \/ (chat.at = "answered" /\ chat.error = "none" /\ ~chat.mock) =>
       chat.after = AnswerAfter /\ chat.policy.request # "raises" /\ chat.policy.response # "raises"
  /\ chat.at = "show" => chat.calls > 0

-----------------------------------------------------------------------------
(* The preview.                                                             *)

(* A preview that was not asked for yet.                                    *)
LEMMA PreviewStarts == Preview!Init => PreviewInv
<1> SUFFICES ASSUME Preview!Init PROVE PreviewInv
  OBVIOUS
<1>1. /\ active \in Preview!Hooked \cup {Preview!Old} /\ DOMAIN chat = Fields
      /\ chat.at = "answered" /\ ~chat.mock /\ chat.policy = Preview!Old /\ chat.credential = "none"
      /\ chat.shown = Preview!NoText /\ chat.calls = 0 /\ chat.error = "not asked"
  BY DEF Preview!Init, Preview!NoChat, Fields
<1>2. chat.calls \in Nat /\ ~(chat.calls > 0)
  <2>1. chat.calls = 0
    BY <1>1
  <2>2. QED
    BY <2>1
<1>3. chat.at \notin {"client", "policy", "before", "request", "compare", "response", "show"}
  BY <1>1
<1>4. chat.error # "none"
  BY <1>1
<1>5. chat.policy \in Preview!Hooked \cup {Preview!Old}
  BY <1>1
<1>6. QED
  BY <1>1, <1>2, <1>3, <1>4, <1>5 DEF PreviewInv

(* What failed is answered with what was shown so far.                      *)
LEMMA PreviewFails ==
  ASSUME PreviewInv, chat.at # "answered", NEW why, Preview!Fails(why), why \notin {"none", "not asked"},
         UNCHANGED active
  PROVE  PreviewInv'
<1>1. DOMAIN chat = Fields
  BY DEF PreviewInv
<1>2. /\ DOMAIN chat' = Fields /\ chat'.at = "answered" /\ chat'.error = why
      /\ chat'.mock = chat.mock /\ chat'.key = chat.key /\ chat'.client = chat.client
      /\ chat'.policy = chat.policy /\ chat'.credential = chat.credential
      /\ chat'.shown = chat.shown /\ chat'.calls = chat.calls
  BY <1>1 DEF Preview!Fails, Fields
<1>3. QED
  BY <1>2 DEF PreviewInv

(* Each step of send_chat keeps the invariant, and so does a switch.        *)
LEMMA PreviewSteps ==
  ASSUME PreviewInv, Preview!Next
  PROVE  PreviewInv'
<1>0. DOMAIN chat = Fields /\ active \in Preview!Hooked \cup {Preview!Old}
  BY DEF PreviewInv
<1>1. ASSUME NEW mock \in BOOLEAN, NEW key \in Preview!Keys, Preview!Ask(mock, key) PROVE PreviewInv'
  <2>1. /\ active' = active /\ DOMAIN chat' = Fields
        /\ chat'.at = (IF mock THEN "answered" ELSE "client") /\ chat'.mock = mock /\ chat'.error = "none"
        /\ chat'.policy = Preview!Old /\ chat'.credential = "none" /\ chat'.request = "typed"
        /\ chat'.shown = Preview!NoText /\ chat'.calls = 0
    BY <1>1 DEF Preview!Ask, Preview!At, Preview!NoChat, Fields
  <2>2. QED
    BY <1>0, <2>1 DEF PreviewInv
<1>2. CASE Preview!ResolveTestClient
  <2>1. chat.at = "client" /\ active' = active
    BY <1>2 DEF Preview!ResolveTestClient, Preview!At
  <2>2. CASE Preview!Fails("client") \/ Preview!Fails("no key")
    BY <2>1, <2>2, PreviewFails
  <2>3. CASE Preview!TestClient # "none" /\ chat' = [chat EXCEPT !.at = "policy", !.client = Preview!TestClient]
    <3>1. /\ DOMAIN chat' = Fields /\ chat'.at = "policy"
          /\ chat'.client = IF chat.key = "own" THEN "own" ELSE "server"
          /\ chat'.key = chat.key
      BY <1>0, <2>3 DEF Preview!TestClient, Fields
    <3>2. /\ chat'.policy = chat.policy /\ chat'.credential = chat.credential /\ chat'.request = chat.request
          /\ chat'.shown = chat.shown /\ chat'.calls = chat.calls
          /\ chat'.mock = chat.mock /\ chat'.error = chat.error
      BY <1>0, <2>3 DEF Fields
    <3>3. QED
      BY <2>1, <3>1, <3>2 DEF PreviewInv
  <2>4. QED
    BY <1>2, <2>2, <2>3 DEF Preview!ResolveTestClient
<1>3. CASE Preview!GetPolicy
  <2>1. chat.at = "policy" /\ active' = active
    BY <1>3 DEF Preview!GetPolicy, Preview!At
  <2>2. CASE Preview!Fails("no hooks")
    BY <2>1, <2>2, PreviewFails
  <2>3. CASE chat' = [chat EXCEPT !.at = "before", !.policy = active,
                                  !.credential = Preview!TestCredential(chat.key)]
    <3>1. /\ DOMAIN chat' = Fields /\ chat'.at = "before" /\ chat'.policy = active
          /\ chat'.credential = IF chat.key = "own" THEN "own" ELSE "none"
      BY <1>0, <2>3 DEF Preview!TestCredential, Fields
    <3>2. /\ chat'.client = chat.client /\ chat'.key = chat.key /\ chat'.request = chat.request
          /\ chat'.shown = chat.shown /\ chat'.calls = chat.calls
          /\ chat'.mock = chat.mock /\ chat'.error = chat.error
      BY <1>0, <2>3 DEF Fields
    <3>3. QED
      BY <1>0, <2>1, <3>1, <3>2 DEF PreviewInv
  <2>4. QED
    BY <1>3, <2>2, <2>3 DEF Preview!GetPolicy
<1>4. CASE Preview!CallBefore
  <2>1. chat.at = "before" /\ active' = active /\ chat.calls = 0 /\ chat.request = "typed"
    BY <1>4 DEF Preview!CallBefore, Preview!At, PreviewInv
  <2>2. CASE Preview!Fails("call")
    BY <2>1, <2>2, PreviewFails
  <2>3. CASE chat' = [chat EXCEPT !.at = "request", !.calls = @ + 1, !.before = Preview!Complete(chat.request),
                                  !.shown = Preview!Complete(chat.request)]
    <3>1. Preview!Complete(chat.request) = TypedAnswer
      BY <2>1 DEF Preview!Complete, TypedAnswer, AnswerTo
    <3>2. /\ DOMAIN chat' = Fields /\ chat'.at = "request" /\ chat'.calls = 1
          /\ chat'.before = TypedAnswer /\ chat'.shown = TypedAnswer
      BY <1>0, <2>1, <2>3, <3>1 DEF Fields
    <3>3. /\ chat'.client = chat.client /\ chat'.key = chat.key /\ chat'.request = chat.request
          /\ chat'.policy = chat.policy /\ chat'.credential = chat.credential
          /\ chat'.mock = chat.mock /\ chat'.error = chat.error
      BY <1>0, <2>3 DEF Fields
    <3>4. QED
      BY <2>1, <3>2, <3>3 DEF PreviewInv
  <2>4. QED
    BY <1>4, <2>2, <2>3 DEF Preview!CallBefore
<1>5. CASE Preview!RequestHook
  <2> DEFINE rewritten == IF chat.policy.request = "keeps" THEN chat.request ELSE "rewritten"
  <2>1. chat.at = "request" /\ active' = active /\ chat.request = "typed"
    BY <1>5 DEF Preview!RequestHook, Preview!At, PreviewInv
  <2>2. CASE Preview!Fails("request hook")
    BY <2>1, <2>2, PreviewFails
  <2>3. CASE /\ chat.policy.request # "raises"
             /\ chat' = [chat EXCEPT !.at = "compare", !.snapshot = chat.request, !.transformed = rewritten,
                          !.request = IF chat.policy.request = "in_place" THEN rewritten ELSE @]
    <3>1. /\ DOMAIN chat' = Fields /\ chat'.at = "compare" /\ chat'.snapshot = "typed"
          /\ chat'.transformed = IF Rewrites THEN "rewritten" ELSE "typed"
      BY <1>0, <2>1, <2>3 DEF Rewrites, Fields
    <3>2. /\ chat'.client = chat.client /\ chat'.key = chat.key /\ chat'.before = chat.before
          /\ chat'.policy = chat.policy /\ chat'.credential = chat.credential
          /\ chat'.shown = chat.shown /\ chat'.calls = chat.calls
          /\ chat'.mock = chat.mock /\ chat'.error = chat.error
      BY <1>0, <2>3 DEF Fields
    <3>3. QED
      BY <2>1, <2>3, <3>1, <3>2 DEF PreviewInv, Rewrites
  <2>4. QED
    BY <1>5, <2>2, <2>3 DEF Preview!RequestHook
<1>6. CASE Preview!CallAgain
  <2>1. /\ chat.at = "compare" /\ active' = active /\ chat.calls = 1 /\ chat.before = TypedAnswer
        /\ chat.policy.request # "raises"
        /\ chat.transformed = (IF Rewrites THEN "rewritten" ELSE "typed") /\ chat.snapshot = "typed"
    BY <1>6 DEF Preview!CallAgain, Preview!At, PreviewInv
  <2>2. CASE Preview!Fails("call again")
    BY <2>1, <2>2, PreviewFails
  <2>3. CASE ~Preview!Fails("call again")
    <3>1. /\ DOMAIN chat' = Fields /\ chat'.at = "response" /\ chat'.upstream = FinalAnswer("model")
          /\ chat'.calls \in Nat /\ chat'.calls > 0
      <4>1. CASE ~Preview!Changed
        <5>1. chat' = [chat EXCEPT !.at = "response", !.reused = TRUE, !.upstream = chat.before]
          BY <1>6, <2>3, <4>1 DEF Preview!CallAgain
        <5>2. TypedAnswer = FinalAnswer("model")
          BY <2>1, <4>1 DEF Preview!Changed, TypedAnswer, FinalAnswer
        <5>3. QED
          BY <1>0, <2>1, <5>1, <5>2 DEF Fields
      <4>2. CASE Preview!Changed
        <5>1. chat' = [chat EXCEPT !.at = "response", !.calls = @ + 1,
                                   !.upstream = Preview!Complete(chat.transformed)]
          BY <1>6, <2>3, <4>2 DEF Preview!CallAgain
        <5>2. Preview!Complete(chat.transformed) = FinalAnswer("model")
          BY <2>1, <4>2 DEF Preview!Changed, Preview!Complete, FinalAnswer, AnswerTo
        <5>3. QED
          BY <1>0, <2>1, <5>1, <5>2 DEF Fields
      <4>3. QED
        BY <4>1, <4>2
    <3>2. /\ chat'.client = chat.client /\ chat'.key = chat.key
          /\ chat'.policy = chat.policy /\ chat'.credential = chat.credential
          /\ chat'.shown = chat.shown /\ chat'.mock = chat.mock /\ chat'.error = chat.error
      BY <1>0, <1>6, <2>3 DEF Preview!CallAgain, Fields
    <3>3. QED
      BY <2>1, <3>1, <3>2 DEF PreviewInv, FinalAnswer, Rewrites
  <2>4. QED
    BY <2>2, <2>3
<1>7. CASE Preview!ResponseHook
  <2>1. /\ chat.at = "response" /\ active' = active /\ chat.upstream = FinalAnswer("model")
        /\ chat.calls > 0 /\ chat.policy.request # "raises"
    BY <1>7 DEF Preview!ResponseHook, Preview!At, PreviewInv
  <2>2. CASE Preview!Fails("response hook")
    BY <2>1, <2>2, PreviewFails
  <2>3. CASE ~Preview!Fails("response hook")
    <3> DEFINE hook == chat.policy.response
    <3>1. /\ hook # "raises"
          /\ chat' = [chat EXCEPT !.at = "show",
                       !.after = IF hook = "keeps" THEN chat.upstream ELSE Preview!ByPolicy(chat.upstream),
                       !.before = IF hook = "in_place" /\ chat.reused THEN Preview!ByPolicy(@) ELSE @]
      BY <1>7, <2>3 DEF Preview!ResponseHook
    <3>2. Preview!ByPolicy(FinalAnswer("model")) = FinalAnswer("policy")
      BY DEF Preview!ByPolicy, FinalAnswer, AnswerTo
    <3>3. DOMAIN chat' = Fields /\ chat'.at = "show" /\ chat'.after = AnswerAfter
      BY <1>0, <2>1, <3>1, <3>2 DEF Fields, AnswerAfter
    <3>4. /\ chat'.client = chat.client /\ chat'.key = chat.key
          /\ chat'.policy = chat.policy /\ chat'.credential = chat.credential
          /\ chat'.shown = chat.shown /\ chat'.calls = chat.calls
          /\ chat'.mock = chat.mock /\ chat'.error = chat.error
      BY <1>0, <3>1 DEF Fields
    <3>5. AnswerAfter' = AnswerAfter
      BY <3>4 DEF AnswerAfter, FinalAnswer, Rewrites
    <3>6. QED
      BY <2>1, <3>1, <3>3, <3>4, <3>5 DEF PreviewInv
  <2>4. QED
    BY <2>2, <2>3
<1>8. CASE Preview!Answer
  <2>1. /\ chat.at = "show" /\ active' = active /\ chat' = [chat EXCEPT !.at = "answered", !.shown = chat.shown]
    BY <1>8 DEF Preview!Answer, Preview!At, Preview!Shows
  <2>2. /\ DOMAIN chat' = Fields /\ chat'.at = "answered" /\ chat'.after = chat.after
        /\ chat'.client = chat.client /\ chat'.key = chat.key
        /\ chat'.policy = chat.policy /\ chat'.credential = chat.credential
        /\ chat'.shown = chat.shown /\ chat'.calls = chat.calls
        /\ chat'.mock = chat.mock /\ chat'.error = chat.error
    BY <1>0, <2>1 DEF Fields
  <2>3. AnswerAfter' = AnswerAfter
    BY <2>2 DEF AnswerAfter, FinalAnswer, Rewrites
  <2>4. QED
    BY <2>1, <2>2, <2>3 DEF PreviewInv
<1>9. ASSUME NEW policy \in Preview!Hooked \cup {Preview!Old}, Preview!Switch(policy) PROVE PreviewInv'
  BY <1>9 DEF Preview!Switch, PreviewInv, FinalAnswer, AnswerAfter, Rewrites
<1>10. QED
  BY <1>1, <1>2, <1>3, <1>4, <1>5, <1>6, <1>7, <1>8, <1>9 DEF Preview!Next

(* The invariant tells what the administrator is shown.                     *)
LEMMA PreviewShows == PreviewInv => Preview!PreviewTells
<1> SUFFICES ASSUME PreviewInv, chat.at = "answered" PROVE Preview!PreviewTells
  BY DEF Preview!PreviewTells
<1>1. /\ chat.policy.request \in {"keeps", "in_place", "copy", "raises"}
      /\ chat.policy.response \in {"keeps", "in_place", "copy", "raises"}
  <2>1. chat.policy \in Preview!Hooked \cup {Preview!Old}
    BY DEF PreviewInv
  <2>2. CASE chat.policy \in Preview!Hooked
    BY <2>2 DEF Preview!Hooked, Preview!Hooks
  <2>3. CASE chat.policy = Preview!Old
    BY <2>3 DEF Preview!Old
  <2>4. QED
    BY <2>1, <2>2, <2>3
<1>2. chat.error = "none" /\ ~chat.mock =>
        chat.after = [to   |-> IF chat.policy.request \in {"in_place", "copy"} THEN "rewritten" ELSE "typed",
                      call |-> IF chat.policy.request \in {"in_place", "copy"} THEN 2 ELSE 1,
                      by   |-> IF chat.policy.response \in {"in_place", "copy"} THEN "policy" ELSE "model"]
  BY <1>1 DEF PreviewInv, AnswerAfter, FinalAnswer, AnswerTo, Rewrites
<1>3. QED
  BY <1>2 DEF PreviewInv, Preview!PreviewTells, TypedAnswer, AnswerTo

-----------------------------------------------------------------------------
(* The chain's request hooks.                                               *)

(* One policy's request hook leaves the recorded request alone.             *)
Kept(r, asked) == {"asked", "recorded", "final", "shared"} \subseteq DOMAIN r /\ r.asked = asked /\ r.recorded = asked

LEMMA HookKeeps ==
  ASSUME NEW p, NEW r, NEW asked, Kept(r, asked)
  PROVE  Kept(Chain!Rewritten(p, r), asked)
BY DEF Chain!Rewritten, Kept

(* So do those of a chain, in whatever order.                               *)
LEMMA HooksKeep ==
  ASSUME NEW c, NEW n \in Nat, c \in [1..n -> Names], Len(c) = n, NEW r, NEW asked, Kept(r, asked)
  PROVE  Kept(Chain!RequestHooks(c, r), asked)
<1> DEFINE Says(k, f) == f = [i \in 0..k |-> IF i = 0 THEN r
                                             ELSE IF c[i] = "recase" THEN Chain!Rewritten(c[i], f[i - 1])
                                             ELSE f[i - 1]]
           without == {k \in Nat : ~ \E f : Says(k, f)}
           after == CHOOSE f : Says(n, f)
<1>1. \E f : Says(n, f)
  <2>1. Says(0, [i \in {0} |-> r])
    BY DEF Says
  <2>2. ASSUME NEW k \in Nat, NEW f, Says(k, f) PROVE \E h : Says(k + 1, h)
    <3> DEFINE h == [i \in 0..(k + 1) |-> IF i <= k THEN f[i]
                                          ELSE IF c[i] = "recase" THEN Chain!Rewritten(c[i], f[i - 1])
                                          ELSE f[i - 1]]
    <3>1. \A i \in 0..k : f[i] = IF i = 0 THEN r ELSE IF c[i] = "recase" THEN Chain!Rewritten(c[i], f[i - 1])
                                 ELSE f[i - 1]
      BY <2>2
    <3>2. \A i \in 0..(k + 1) : h[i] = IF i = 0 THEN r
                                       ELSE IF c[i] = "recase" THEN Chain!Rewritten(c[i], h[i - 1])
                                       ELSE h[i - 1]
      <4> TAKE i \in 0..(k + 1)
      <4>1. i # 0 => i - 1 \in 0..k /\ h[i - 1] = f[i - 1]
        OBVIOUS
      <4>2. QED
        BY <4>1, <3>1
    <3>3. Says(k + 1, h)
      BY <3>2
    <3>4. QED
      BY <3>3
  <2> HIDE DEF Says
  <2>3. without = {}
    <3> SUFFICES ASSUME without # {} PROVE FALSE
      OBVIOUS
    <3>1. PICK k \in without : \A d \in without : k <= d
      BY LeastElement
    <3>2. k # 0
      BY <3>1, <2>1
    <3>3. k - 1 \in Nat /\ k - 1 \notin without
      BY <3>1, <3>2
    <3>4. \E h : Says((k - 1) + 1, h)
      BY <3>3, <2>2
    <3>5. QED
      BY <3>1, <3>4
  <2>4. QED
    BY <2>3
<1>2. Says(n, after)
  BY <1>1
<1>3. Chain!RequestHooks(c, r) = after[n]
  BY DEF Chain!RequestHooks
<1> HIDE DEF after
<1> DEFINE Bad == {k \in 0..n : ~Kept(after[k], asked)}
<1>4. Bad = {}
  <2> SUFFICES ASSUME Bad # {} PROVE FALSE
    OBVIOUS
  <2>1. PICK k \in Bad : \A d \in Bad : k <= d
    <3>1. Bad \in SUBSET Nat
      OBVIOUS
    <3>2. QED
      BY <3>1, LeastElement
  <2>2. k \in 0..n
    OBVIOUS
  <2>3. after[0] = r
    BY <1>2
  <2>4. k # 0
    BY <2>1, <2>3
  <2>5. k - 1 \in 0..n /\ k - 1 \notin Bad
    BY <2>1, <2>2, <2>4
  <2>6. after[k] = IF c[k] = "recase" THEN Chain!Rewritten(c[k], after[k - 1]) ELSE after[k - 1]
    BY <1>2, <2>2, <2>4
  <2>7. Kept(after[k - 1], asked)
    BY <2>5
  <2>8. Kept(after[k], asked)
    BY <2>6, <2>7, HookKeeps
  <2>9. QED
    BY <2>1, <2>8
<1>5. QED
  BY <1>3, <1>4

(* The request recorded as the original stays the one the client sent, and an *)
(* administrator's preview shows what was typed and answered before the      *)
(* policy beside what one policy makes of it (processor and send_chat).      *)
THEOREM OriginalShown == FairSpec => []OriginalKept
<1> DEFINE I == PreviewInv /\ Chain!OriginalKept
<1>1. Init => I
  <2> SUFFICES ASSUME Init PROVE I
    OBVIOUS
  <2>1. PreviewInv
    BY PreviewStarts DEF Init
  <2>2. Chain!Init
    BY DEF Init
  <2>3. PICK roles \in {<<"user">>, <<"user", "assistant", "user">>} :
          request = Chain!RequestHooks(chain, [roles |-> roles, shared |-> TRUE, asked |-> <<"a", "b">>,
                                               recorded |-> <<"a", "b">>, final |-> <<"a", "b">>])
    BY <2>2 DEF Chain!Init
  <2>4. PICK n \in Nat : chain \in [1..n -> Names] /\ Len(chain) = n
    <3>1. PICK n \in 1..MaxChain : chain \in [1..n -> Names]
      BY <2>2 DEF Chain!Init, Chain!Chains
    <3>2. n \in Nat /\ Len(chain) = n
      BY <3>1, PoliciesAssumption
    <3>3. QED
      BY <3>1, <3>2
  <2>5. Kept([roles |-> roles, shared |-> TRUE, asked |-> <<"a", "b">>,
              recorded |-> <<"a", "b">>, final |-> <<"a", "b">>], <<"a", "b">>)
    BY DEF Kept
  <2>6. Kept(request, <<"a", "b">>)
    BY <2>3, <2>4, <2>5, HooksKeep
  <2>7. QED
    BY <2>1, <2>6 DEF Kept, Chain!OriginalKept
<1>2. I /\ [Next]_vars => I'
  <2> SUFFICES ASSUME I, [Next]_vars PROVE I'
    OBVIOUS
  <2>1. request' = request
    BY DEF Next, vars, chainVars, Chain!Next, Chain!BlockStart, Chain!BlockDelta, Chain!OtherDelta,
      Chain!BlockStop, Chain!MessageEnds, Chain!StreamEnds
  <2>2. PreviewInv'
    <3>1. CASE Preview!Next
      BY <3>1, PreviewSteps
    <3>2. CASE UNCHANGED <<server, active, chat>>
      BY <3>2 DEF PreviewInv, FinalAnswer, AnswerAfter, Rewrites
    <3>3. QED
      BY <3>1, <3>2 DEF Next, vars, previewVars
  <2>3. QED
    BY <2>1, <2>2 DEF Chain!OriginalKept
<1>3. I => OriginalKept
  BY PreviewShows DEF OriginalKept
<1> HIDE DEF I
<1>4. QED
  BY <1>1, <1>2, <1>3, PTL DEF FairSpec


-----------------------------------------------------------------------------
(* The chain of policies that rewrite: which kinds of blocks may stand at    *)
(* which index, as a set W of pairs.                                        *)

Known == Chain!Kinds \cup {"forced"}

(* An event, a stream, and a policy's state, that tell of blocks of W only. *)
EventOf(e, W) ==
  /\ DOMAIN e = {"type", "index", "kind", "text"}
  /\ e.type \in {"start", "delta"} => <<e.index, e.kind>> \in W
  /\ e.type \notin {"start", "delta"} => e.kind \notin Chain!Tools

StreamOf(s, W) == \E S : s \in Seq(S) /\ \A e \in S : EventOf(e, W)

StateOf(s, W) ==
  /\ DOMAIN s = DOMAIN Chain!FreshState
  /\ s.last >= 0 => <<s.last, "text">> \in W
  /\ s.held >= 0 => <<s.last, "text">> \in W
  /\ s.buffer # <<>> => <<s.at, "text">> \in W
  /\ \A i \in DOMAIN s.open : <<i, s.open[i]>> \in W
  /\ \A i \in DOMAIN s.mapped : /\ s.mapped[i] \in Int
                                /\ \E kind \in Known \ Chain!Tools : <<i, kind>> \in W
  /\ s.next \in Int
  /\ s.queued \in Seq(Known \ Chain!Denied)

(* What a policy at position k sees when the judge stands at j: before it,    *)
(* what upstream sent (U), or what a policy made up in its place; after it,  *)
(* nothing the judge denies.                                                *)
Forced(k) == \E f \in DOMAIN chain : f < k /\ chain[f] = "force"
Banned(j) == {"harmful"} \cup {kind \in {"forced"} : Forced(j)}
Blocks(j, k, U) ==
  IF k > j THEN Int \X (Known \ Banned(j))
  ELSE IF Forced(k) THEN {<<0, "forced">>} ELSE U

Started(c) == {<<i - 1, c[i].kind>> : i \in DOMAIN c}
FromModel  == Started(content)

(* One block at each index.                                                 *)
Exact(U) ==
  /\ U \subseteq Int \X Known
  /\ \A u, v \in U : u[1] = v[1] => u[2] = v[2]

(* Streams are joined, and may be taken to tell of more.                    *)
LEMMA NoEvent ==
  ASSUME NEW W
  PROVE  StreamOf(<<>>, W)
<1> DEFINE S == {}
<1>1. <<>> \in Seq(S) /\ \A e \in S : EventOf(e, W)
  OBVIOUS
<1> HIDE DEF S
<1>2. QED
  BY <1>1 DEF StreamOf

LEMMA OneEvent ==
  ASSUME NEW W, NEW e, EventOf(e, W)
  PROVE  StreamOf(<<e>>, W)
<1> DEFINE S == {e}
<1>1. <<e>> \in Seq(S) /\ \A d \in S : EventOf(d, W)
  OBVIOUS
<1> HIDE DEF S
<1>2. QED
  BY <1>1 DEF StreamOf

LEMMA JoinedStream ==
  ASSUME NEW W, NEW s, NEW t, StreamOf(s, W), StreamOf(t, W)
  PROVE  StreamOf(s \o t, W)
<1>1. PICK S : s \in Seq(S) /\ \A e \in S : EventOf(e, W)
  BY DEF StreamOf
<1>2. PICK T : t \in Seq(T) /\ \A e \in T : EventOf(e, W)
  BY DEF StreamOf
<1>3. s \in Seq(S \cup T) /\ t \in Seq(S \cup T)
  BY <1>1, <1>2
<1>4. s \o t \in Seq(S \cup T)
  BY <1>3
<1>5. \A e \in S \cup T : EventOf(e, W)
  BY <1>1, <1>2
<1>6. QED
  BY <1>4, <1>5 DEF StreamOf

LEMMA TwoEvents ==
  ASSUME NEW W, NEW d, NEW e, EventOf(d, W), EventOf(e, W)
  PROVE  StreamOf(<<d, e>>, W)
<1> DEFINE S == {d, e}
<1>1. <<d, e>> \in Seq(S) /\ \A c \in S : EventOf(c, W)
  OBVIOUS
<1> HIDE DEF S
<1>2. QED
  BY <1>1 DEF StreamOf

LEMMA ThreeEvents ==
  ASSUME NEW W, NEW c, NEW d, NEW e, EventOf(c, W), EventOf(d, W), EventOf(e, W)
  PROVE  StreamOf(<<c, d, e>>, W)
<1> DEFINE S == {c, d, e}
<1>1. <<c, d, e>> \in Seq(S) /\ \A b \in S : EventOf(b, W)
  OBVIOUS
<1> HIDE DEF S
<1>2. QED
  BY <1>1 DEF StreamOf

LEMMA StreamItems ==
  ASSUME NEW W, NEW s, StreamOf(s, W)
  PROVE  /\ Len(s) \in Nat /\ DOMAIN s = 1..Len(s)
         /\ \A i \in 1..Len(s) : EventOf(s[i], W)
<1>1. PICK S : s \in Seq(S) /\ \A e \in S : EventOf(e, W)
  BY DEF StreamOf
<1>2. \A i \in 1..Len(s) : s[i] \in S
  BY <1>1
<1>3. QED
  BY <1>1, <1>2

LEMMA StreamGrows ==
  ASSUME NEW W, NEW V, W \subseteq V, NEW s, StreamOf(s, W)
  PROVE  StreamOf(s, V)
<1>1. PICK S : s \in Seq(S) /\ \A e \in S : EventOf(e, W)
  BY DEF StreamOf
<1>2. \A e \in S : EventOf(e, V)
  BY <1>1 DEF EventOf
<1>3. QED
  BY <1>1, <1>2 DEF StreamOf

LEMMA StateGrows ==
  ASSUME NEW W, NEW V, W \subseteq V, NEW s, StateOf(s, W)
  PROVE  StateOf(s, V)
BY DEF StateOf

(* What a hook leaves.                                                      *)
Tells(h, W, V) == StateOf(h.state, W) /\ StreamOf(h.out, V)

LEMMA HookIs ==
  ASSUME NEW s, NEW events
  PROVE  Chain!Hook(s, events).state = s /\ Chain!Hook(s, events).out = events
BY DEF Chain!Hook

LEMMA DeltaTells ==
  ASSUME NEW W, NEW i, NEW kind, NEW text, <<i, kind>> \in W
  PROVE  EventOf(Chain!Delta(i, kind, text), W)
BY DEF EventOf, Chain!Delta, Chain!Event

LEMMA PlainTells ==
  ASSUME NEW W, NEW i, NEW type
  PROVE  /\ EventOf(Chain!Stop(i), W)
         /\ type \notin {"start", "delta"} => EventOf(Chain!Plain(type), W)
BY DEF EventOf, Chain!Stop, Chain!Plain, Chain!Event, Chain!Tools

(* A policy that adds text to the last text block (TextModifierPolicy).     *)
LEMMA ReleaseTells ==
  ASSUME NEW W, NEW p, NEW s, NEW e, StateOf(s, W), s.held >= 0, StreamOf(e, W)
  PROVE  Tells(Chain!Release(p, s, e), W, W)
<1> DEFINE t == [s EXCEPT !.emitted = @ \/ Chain!Extra(p) # <<>>, !.held = -1]
           more == IF Chain!Extra(p) # <<>> /\ ~s.emitted
                     THEN <<Chain!Delta(s.last, "text", Chain!Extra(p))>> ELSE <<>>
<1>1. StateOf(t, W)
  <2>1. /\ DOMAIN t = DOMAIN s /\ t.held = -1 /\ t.last = s.last /\ t.buffer = s.buffer /\ t.at = s.at
        /\ t.open = s.open /\ t.mapped = s.mapped /\ t.next = s.next /\ t.queued = s.queued
    BY DEF StateOf, Chain!FreshState
  <2> HIDE DEF t
  <2>2. QED
    BY <2>1 DEF StateOf
<1>2. StreamOf(more, W)
  <2>1. EventOf(Chain!Delta(s.last, "text", Chain!Extra(p)), W)
    BY DeltaTells DEF StateOf
  <2>2. QED
    BY <2>1, OneEvent, NoEvent
<1>3. StreamOf(<<Chain!Stop(s.held)>>, W)
  BY PlainTells, OneEvent
<1>4. StreamOf(more \o <<Chain!Stop(s.held)>> \o e, W)
  BY <1>2, <1>3, JoinedStream
<1>5. Chain!Release(p, s, e) = Chain!Hook(t, more \o <<Chain!Stop(s.held)>> \o e)
  BY DEF Chain!Release
<1> HIDE DEF t, more
<1>6. QED
  BY <1>1, <1>4, <1>5, HookIs DEF Tells

LEMMA ModifierTells ==
  ASSUME NEW W, NEW p, NEW s, NEW e, StateOf(s, W), EventOf(e, W)
  PROVE  Tells(Chain!TextModifier(p, s, e), W, W)
<1> DEFINE h == Chain!TextModifier(p, s, e)
<1>1. StreamOf(<<e>>, W)
  BY OneEvent
<1>2. CASE e.type = "start" /\ e.kind \in Chain!Tools /\ ~s.emitted /\ s.held >= 0 /\ Chain!Extra(p) # <<>>
  <2>1. h = Chain!Release(p, s, <<e>>)
    BY <1>2 DEF Chain!TextModifier
  <2>2. QED
    BY <1>1, <1>2, <2>1, ReleaseTells
<1>3. CASE e.type = "start" /\ ~(e.kind \in Chain!Tools /\ ~s.emitted /\ s.held >= 0 /\ Chain!Extra(p) # <<>>)
  <2> DEFINE t == IF e.kind = "text" THEN [s EXCEPT !.last = e.index] ELSE s
  <2>1. h = Chain!Hook(t, <<e>>)
    BY <1>3 DEF Chain!TextModifier
  <2>2. StateOf(t, W)
    <3>1. CASE e.kind = "text"
      <4>1. /\ DOMAIN t = DOMAIN s /\ t.held = s.held /\ t.last = e.index /\ t.buffer = s.buffer /\ t.at = s.at
            /\ t.open = s.open /\ t.mapped = s.mapped /\ t.next = s.next /\ t.queued = s.queued
        BY <3>1 DEF StateOf, Chain!FreshState
      <4>2. <<e.index, "text">> \in W
        BY <1>3, <3>1 DEF EventOf
      <4> HIDE DEF t
      <4>3. QED
        BY <4>1, <4>2 DEF StateOf
    <3>2. CASE e.kind # "text"
      BY <3>2
    <3>3. QED
      BY <3>1, <3>2
  <2> HIDE DEF t
  <2>3. QED
    BY <1>1, <2>1, <2>2, HookIs DEF Tells
<1>4. CASE e.type = "stop" /\ e.index = s.last /\ Chain!Extra(p) # <<>> /\ ~s.emitted
  <2> DEFINE t == [s EXCEPT !.held = e.index]
             first == IF s.held >= 0 THEN <<Chain!Stop(s.held)>> ELSE <<>>
  <2>1. h = Chain!Hook(t, first)
    BY <1>4 DEF Chain!TextModifier, Chain!HoldStop
  <2>2. /\ DOMAIN t = DOMAIN s /\ t.held = s.last /\ t.last = s.last /\ t.buffer = s.buffer /\ t.at = s.at
        /\ t.open = s.open /\ t.mapped = s.mapped /\ t.next = s.next /\ t.queued = s.queued
    BY <1>4 DEF StateOf, Chain!FreshState
  <2> HIDE DEF t
  <2>3. StateOf(t, W)
    BY <2>2 DEF StateOf
  <2>4. StreamOf(first, W)
    BY PlainTells, OneEvent, NoEvent
  <2> HIDE DEF first
  <2>5. QED
    BY <2>1, <2>3, <2>4, HookIs DEF Tells
<1>5. CASE e.type = "message_delta" /\ s.held >= 0
  <2>1. h = Chain!Release(p, s, <<e>>)
    BY <1>5 DEF Chain!TextModifier
  <2>2. QED
    BY <1>1, <1>5, <2>1, ReleaseTells
<1>6. CASE /\ e.type # "start"
           /\ ~(e.type = "stop" /\ e.index = s.last /\ Chain!Extra(p) # <<>> /\ ~s.emitted)
           /\ ~(e.type = "message_delta" /\ s.held >= 0)
  <2> DEFINE d == IF e.type = "delta" /\ e.kind = "text" THEN Chain!Shout(p, e) ELSE e
  <2>1. h = Chain!Hook(s, <<d>>)
    BY <1>6 DEF Chain!TextModifier
  <2>2. EventOf(d, W)
    BY DEF Chain!Shout, EventOf
  <2> HIDE DEF d
  <2>3. QED
    BY <2>1, <2>2, OneEvent, HookIs DEF Tells
<1>7. QED
  BY <1>2, <1>3, <1>4, <1>5, <1>6

(* A policy that holds a block until it stops (SimplePolicy).               *)
LEMMA SimpleTells ==
  ASSUME NEW W, NEW s, NEW e, StateOf(s, W), EventOf(e, W)
  PROVE  Tells(Chain!Simple(s, e), W, W)
<1> DEFINE h == Chain!Simple(s, e)
<1>1. StreamOf(<<e>>, W)
  BY OneEvent
<1>2. CASE e.type = "start" /\ (e.kind = "text" \/ e.kind \in Chain!Tools)
  <2> DEFINE t == [s EXCEPT !.texts = Chain!With(@, e.index, <<>>), !.open = Chain!With(@, e.index, e.kind)]
  <2>1. h = Chain!Hook(t, <<e>>)
    BY <1>2 DEF Chain!Simple
  <2>2. /\ DOMAIN t = DOMAIN s /\ t.held = s.held /\ t.last = s.last /\ t.buffer = s.buffer /\ t.at = s.at
        /\ t.open = Chain!With(s.open, e.index, e.kind)
        /\ t.mapped = s.mapped /\ t.next = s.next /\ t.queued = s.queued
    BY DEF StateOf, Chain!FreshState
  <2> HIDE DEF t
  <2>3. \A i \in DOMAIN t.open : <<i, t.open[i]>> \in W
    BY <1>2, <2>2 DEF Chain!With, StateOf, EventOf
  <2>4. StateOf(t, W)
    BY <2>2, <2>3 DEF StateOf
  <2>5. QED
    BY <1>1, <2>1, <2>4, HookIs DEF Tells
<1>3. CASE e.type = "delta" /\ e.kind # "other"
  <2> DEFINE t == [s EXCEPT !.texts[e.index] = @ \o e.text]
  <2>1. h = Chain!Hook(t, <<>>)
    BY <1>3 DEF Chain!Simple
  <2>2. /\ DOMAIN t = DOMAIN s /\ t.held = s.held /\ t.last = s.last /\ t.buffer = s.buffer /\ t.at = s.at
        /\ t.open = s.open /\ t.mapped = s.mapped /\ t.next = s.next /\ t.queued = s.queued
    BY DEF StateOf, Chain!FreshState
  <2> HIDE DEF t
  <2>3. StateOf(t, W)
    BY <2>2 DEF StateOf
  <2>4. QED
    BY <2>1, <2>3, NoEvent, HookIs DEF Tells
<1>4. CASE e.type = "stop" /\ e.index \in DOMAIN s.open
  <2> DEFINE rest == [s EXCEPT !.texts = Chain!Drop(@, e.index), !.open = Chain!Drop(@, e.index)]
             kind == s.open[e.index]
             text == s.texts[e.index]
  <2>1. /\ DOMAIN rest = DOMAIN s /\ rest.held = s.held /\ rest.last = s.last
        /\ rest.buffer = s.buffer /\ rest.at = s.at /\ rest.open = Chain!Drop(s.open, e.index)
        /\ rest.mapped = s.mapped /\ rest.next = s.next /\ rest.queued = s.queued
    BY DEF StateOf, Chain!FreshState
  <2>2. IF kind = "text"
          THEN h = Chain!Hook(Chain!Injected(rest), <<Chain!Delta(e.index, kind, Chain!Linked(s, text)), e>>)
          ELSE h = Chain!Hook(rest, <<Chain!Delta(e.index, kind, text), e>>)
    BY <1>4 DEF Chain!Simple
  <2> HIDE DEF rest
  <2>3. \A i \in DOMAIN rest.open : <<i, rest.open[i]>> \in W
    BY <2>1 DEF Chain!Drop, StateOf
  <2>4. StateOf(rest, W)
    BY <2>1, <2>3 DEF StateOf
  <2>5. StateOf(Chain!Injected(rest), W)
    <3> DEFINE t == Chain!Injected(rest)
    <3>1. /\ DOMAIN t = DOMAIN s /\ t.held = rest.held /\ t.last = rest.last
          /\ t.buffer = rest.buffer /\ t.at = rest.at /\ t.open = rest.open
          /\ t.mapped = rest.mapped /\ t.next = rest.next /\ t.queued = rest.queued
      BY <2>1 DEF StateOf, Chain!FreshState, Chain!Injected
    <3> HIDE DEF t
    <3>2. StateOf(t, W)
      BY <2>1, <2>4, <3>1 DEF StateOf
    <3>3. QED
      BY <3>2 DEF t
  <2>6. <<e.index, kind>> \in W
    BY <1>4 DEF StateOf
  <2>7. \A d : StreamOf(<<Chain!Delta(e.index, kind, d), e>>, W)
    BY <2>6, DeltaTells, TwoEvents
  <2> HIDE DEF kind, text
  <2>8. QED
    BY <2>2, <2>4, <2>5, <2>7, HookIs DEF Tells
<1>5. CASE /\ ~(e.type = "start" /\ (e.kind = "text" \/ e.kind \in Chain!Tools))
           /\ ~(e.type = "delta" /\ e.kind # "other")
           /\ ~(e.type = "stop" /\ e.index \in DOMAIN s.open)
  <2>1. h = Chain!Hook(s, <<e>>)
    BY <1>5 DEF Chain!Simple
  <2>2. QED
    BY <1>1, <2>1, HookIs DEF Tells
<1>6. QED
  BY <1>2, <1>3, <1>4, <1>5

(* A policy that holds the tail of a text back (StringReplacementPolicy).   *)
LEMMA FlushTells ==
  ASSUME NEW W, NEW s, NEW e, StateOf(s, W), StreamOf(e, W)
  PROVE  Tells(Chain!Flush(s, e), W, W)
<1> DEFINE t == [s EXCEPT !.buffer = <<>>]
           tail == IF s.buffer = <<>> THEN <<>> ELSE <<Chain!Delta(s.at, "text", s.buffer)>>
<1>1. /\ DOMAIN t = DOMAIN s /\ t.held = s.held /\ t.last = s.last /\ t.buffer = <<>> /\ t.at = s.at
      /\ t.open = s.open /\ t.mapped = s.mapped /\ t.next = s.next /\ t.queued = s.queued
  BY DEF StateOf, Chain!FreshState
<1>2. Chain!Flush(s, e) = Chain!Hook(t, tail \o e)
  BY DEF Chain!Flush
<1> HIDE DEF t
<1>3. StateOf(t, W)
  BY <1>1 DEF StateOf
<1>4. StreamOf(tail, W)
  <2>1. CASE s.buffer = <<>>
    BY <2>1, NoEvent
  <2>2. CASE s.buffer # <<>>
    <3>1. EventOf(Chain!Delta(s.at, "text", s.buffer), W)
      BY <2>2, DeltaTells DEF StateOf
    <3>2. QED
      BY <2>2, <3>1, OneEvent
  <2>3. QED
    BY <2>1, <2>2
<1> HIDE DEF tail
<1>5. QED
  BY <1>2, <1>3, <1>4, JoinedStream, HookIs DEF Tells

LEMMA ReplacingTells ==
  ASSUME NEW W, NEW p, NEW s, NEW e, StateOf(s, W), EventOf(e, W)
  PROVE  Tells(Chain!Replacing(p, s, e), W, W)
<1>1. StreamOf(<<e>>, W)
  BY OneEvent
<1>2. CASE e.type \in {"message_delta", "stop"}
  <2>1. Chain!Replacing(p, s, e) = Chain!Flush(s, <<e>>)
    BY <1>2 DEF Chain!Replacing
  <2>2. QED
    BY <1>1, <2>1, FlushTells
<1>3. CASE e.type = "delta" /\ e.kind = "text"
  <2> DEFINE replaced == Chain!Replaced(p, s.buffer \o e.text)
             shown == Len(replaced) - Chain!Kept(replaced)
             t == [s EXCEPT !.buffer = SubSeq(replaced, shown + 1, Len(replaced)), !.at = e.index]
             d == [e EXCEPT !.text = SubSeq(replaced, 1, shown)]
             told == IF shown = 0 THEN <<>> ELSE <<d>>
  <2>1. Chain!Replacing(p, s, e) = Chain!Hook(t, told)
    BY <1>3 DEF Chain!Replacing
  <2>2. /\ DOMAIN t = DOMAIN s /\ t.held = s.held /\ t.last = s.last /\ t.at = e.index
        /\ t.open = s.open /\ t.mapped = s.mapped /\ t.next = s.next /\ t.queued = s.queued
    BY DEF StateOf, Chain!FreshState
  <2>3. EventOf(d, W)
    BY DEF EventOf
  <2> HIDE DEF t, d
  <2>4. StateOf(t, W)
    BY <1>3, <2>2 DEF StateOf, EventOf
  <2>5. StreamOf(told, W)
    BY <2>3, OneEvent, NoEvent
  <2> HIDE DEF told
  <2>6. QED
    BY <2>1, <2>4, <2>5, HookIs DEF Tells
<1>4. CASE e.type \notin {"message_delta", "stop"} /\ ~(e.type = "delta" /\ e.kind = "text")
  <2>1. Chain!Replacing(p, s, e) = Chain!Hook(s, <<e>>)
    BY <1>4 DEF Chain!Replacing
  <2>2. QED
    BY <1>1, <2>1, HookIs DEF Tells
<1>5. QED
  BY <1>2, <1>3, <1>4

(* The judge (ToolCallJudgePolicy), fed with a stream that has one block at  *)
(* each index: what it emits tells of no tool that it denies.               *)
LEMMA QueuedTells ==
  ASSUME NEW V, NEW n \in Int, NEW queued \in Seq(Known \ Chain!Denied), Int \X (Known \ Chain!Denied) \subseteq V
  PROVE  StreamOf(Chain!FlattenSeq([i \in DOMAIN queued |-> Chain!BlockEvents(n + i - 1, queued[i], <<>>)]), V)
<1> DEFINE passing == Int \X (Known \ Chain!Denied)
           S == {Chain!Start(b[1], b[2]) : b \in passing} \cup {Chain!Delta(b[1], b[2], <<>>) : b \in passing}
                \cup {Chain!Stop(i) : i \in Int}
           f == [i \in DOMAIN queued |-> Chain!BlockEvents(n + i - 1, queued[i], <<>>)]
<1>1. \A e \in S : EventOf(e, V)
  <2>1. \A b \in passing : <<b[1], b[2]>> \in V
    OBVIOUS
  <2>2. \A b \in passing : EventOf(Chain!Start(b[1], b[2]), V) /\ EventOf(Chain!Delta(b[1], b[2], <<>>), V)
    BY <2>1, DeltaTells DEF EventOf, Chain!Start, Chain!Event
  <2>3. QED
    BY <2>2, PlainTells
<1>2. f \in Seq(Seq(S))
  <2>1. DOMAIN queued = 1..Len(queued) /\ Len(queued) \in Nat
    OBVIOUS
  <2>2. \A i \in DOMAIN queued : Chain!BlockEvents(n + i - 1, queued[i], <<>>) \in Seq(S)
    <3> TAKE i \in DOMAIN queued
    <3> DEFINE b == <<n + i - 1, queued[i]>>
    <3>1. b \in passing /\ b[1] = n + i - 1 /\ b[2] = queued[i]
      BY <2>1
    <3>2. Chain!Start(n + i - 1, queued[i]) \in S /\ Chain!Delta(n + i - 1, queued[i], <<>>) \in S
          /\ Chain!Stop(n + i - 1) \in S
      BY <2>1, <3>1
    <3> HIDE DEF S
    <3>3. QED
      BY <3>2 DEF Chain!BlockEvents
  <2> HIDE DEF S
  <2>3. QED
    BY <2>1, <2>2
<1> HIDE DEF S, f
<1>3. Chain!FlattenSeq(f) = Judge!FlattenSeq(f)
  BY DEF Chain!FlattenSeq, Judge!FlattenSeq
<1>4. Chain!FlattenSeq(f) \in Seq(S)
  BY <1>2, <1>3, Flattened
<1>5. StreamOf(Chain!FlattenSeq(f), V)
  BY <1>1, <1>4 DEF StreamOf
<1>6. QED
  BY <1>5 DEF f

LEMMA JudgingTells ==
  ASSUME NEW W, Exact(W), NEW B, B \subseteq Chain!Denied, NEW V, V = Int \X (Known \ B),
         NEW s, NEW e, StateOf(s, W), EventOf(e, W)
  PROVE  Tells(Chain!Judging(s, e), W, V)
<1> DEFINE h == Chain!Judging(s, e)
<1>1. Chain!Denied \subseteq Chain!Tools /\ "text" \in Known \ Chain!Tools
  BY DEF Chain!Denied, Chain!Tools, Known, Chain!Kinds
<1>2. CASE e.type = "start" /\ e.kind \in Chain!Tools
  <2> DEFINE t == [s EXCEPT !.open = Chain!With(@, e.index, e.kind)]
  <2>1. h = Chain!Hook(t, <<>>)
    BY <1>2 DEF Chain!Judging
  <2>2. /\ DOMAIN t = DOMAIN s /\ t.held = s.held /\ t.last = s.last /\ t.buffer = s.buffer /\ t.at = s.at
        /\ t.open = Chain!With(s.open, e.index, e.kind)
        /\ t.mapped = s.mapped /\ t.next = s.next /\ t.queued = s.queued
    BY DEF StateOf, Chain!FreshState
  <2> HIDE DEF t
  <2>3. \A i \in DOMAIN t.open : <<i, t.open[i]>> \in W
    BY <1>2, <2>2 DEF Chain!With, StateOf, EventOf
  <2>4. StateOf(t, W)
    BY <2>2, <2>3 DEF StateOf
  <2>5. QED
    BY <2>1, <2>4, NoEvent, HookIs DEF Tells
<1>3. CASE e.type = "start" /\ e.kind \notin Chain!Tools
  <2> DEFINE t == [s EXCEPT !.mapped = Chain!With(@, e.index, s.next), !.next = @ + 1]
             d == [e EXCEPT !.index = s.next]
  <2>1. h = Chain!Hook(t, <<d>>)
    BY <1>3 DEF Chain!Judging
  <2>2. /\ DOMAIN t = DOMAIN s /\ t.held = s.held /\ t.last = s.last /\ t.buffer = s.buffer /\ t.at = s.at
        /\ t.open = s.open /\ t.mapped = Chain!With(s.mapped, e.index, s.next)
        /\ t.next = s.next + 1 /\ t.queued = s.queued
    BY DEF StateOf, Chain!FreshState
  <2> HIDE DEF t
  <2>3. <<e.index, e.kind>> \in W /\ e.kind \in Known \ Chain!Tools
    BY <1>3 DEF EventOf, Exact
  <2>4. s.next \in Int
    BY DEF StateOf
  <2>5. \A i \in DOMAIN t.mapped : /\ t.mapped[i] \in Int
                                   /\ \E kind \in Known \ Chain!Tools : <<i, kind>> \in W
    <3> TAKE i \in DOMAIN t.mapped
    <3>1. CASE i = e.index
      BY <2>2, <2>3, <2>4, <3>1 DEF Chain!With
    <3>2. CASE i # e.index
      <4>1. i \in DOMAIN s.mapped /\ t.mapped[i] = s.mapped[i]
        BY <2>2, <3>2 DEF Chain!With
      <4>2. QED
        BY <4>1 DEF StateOf
    <3>3. QED
      BY <3>1, <3>2
  <2>6. StateOf(t, W)
    BY <2>2, <2>4, <2>5 DEF StateOf
  <2>7. EventOf(d, V)
    <3>1. <<s.next, e.kind>> \in V
      BY <1>1, <2>3, <2>4
    <3>2. DOMAIN d = DOMAIN e /\ d.type = "start" /\ d.kind = e.kind /\ d.index = s.next
      BY <1>3 DEF EventOf
    <3> HIDE DEF d
    <3>3. QED
      BY <3>1, <3>2 DEF EventOf
  <2> HIDE DEF d
  <2>8. QED
    BY <2>1, <2>6, <2>7, OneEvent, HookIs DEF Tells
<1>4. CASE e.type \in {"delta", "stop"} /\ e.index \notin DOMAIN s.open
  <2> DEFINE d == [e EXCEPT !.index = s.mapped[e.index]]
             told == IF e.index \in DOMAIN s.mapped THEN <<d>> ELSE <<>>
  <2>1. h = Chain!Hook(s, told)
    BY <1>4 DEF Chain!Judging
  <2>2. DOMAIN d = DOMAIN e /\ d.type = e.type /\ d.kind = e.kind /\ d.index = s.mapped[e.index]
    BY DEF EventOf
  <2> HIDE DEF d
  <2>3. ASSUME e.index \in DOMAIN s.mapped PROVE EventOf(d, V)
    <3>1. s.mapped[e.index] \in Int /\ \E kind \in Known \ Chain!Tools : <<e.index, kind>> \in W
      BY <2>3 DEF StateOf
    <3>2. e.type = "delta" => e.kind \in Known \ Chain!Tools
      BY <3>1 DEF EventOf, Exact
    <3>3. e.type = "delta" => <<s.mapped[e.index], e.kind>> \in V
      BY <1>1, <3>1, <3>2
    <3>4. QED
      BY <1>4, <2>2, <3>3 DEF EventOf
  <2>4. StreamOf(told, V)
    BY <2>3, OneEvent, NoEvent
  <2> HIDE DEF told
  <2>5. QED
    BY <2>1, <2>4, HookIs DEF Tells
<1>5. CASE e.type = "delta" /\ e.index \in DOMAIN s.open
  <2>1. h = Chain!Hook(s, <<>>)
    BY <1>5 DEF Chain!Judging
  <2>2. QED
    BY <2>1, NoEvent, HookIs DEF Tells
<1>6. CASE e.type = "stop" /\ e.index \in DOMAIN s.open
  <2> DEFINE name == s.open[e.index]
             rest == [s EXCEPT !.open = Chain!Drop(@, e.index)]
             noted == [rest EXCEPT !.next = @ + 1]
             queues == [rest EXCEPT !.queued = Append(@, name)]
  <2>1. /\ DOMAIN rest = DOMAIN s /\ rest.held = s.held /\ rest.last = s.last /\ rest.buffer = s.buffer
        /\ rest.at = s.at /\ rest.open = Chain!Drop(s.open, e.index)
        /\ rest.mapped = s.mapped /\ rest.next = s.next /\ rest.queued = s.queued
    BY DEF StateOf, Chain!FreshState
  <2>2. IF Chain!Judged(name) = "denied"
          THEN h = Chain!Hook(noted, Chain!BlockEvents(s.next, "text", Chain!Notice))
          ELSE h = Chain!Hook(queues, <<>>)
    BY <1>6 DEF Chain!Judging
  <2> HIDE DEF rest
  <2>3. \A i \in DOMAIN rest.open : <<i, rest.open[i]>> \in W
    BY <2>1 DEF Chain!Drop, StateOf
  <2>4. StateOf(rest, W)
    BY <2>1, <2>3 DEF StateOf
  <2>5. StateOf(noted, W)
    <3>1. /\ DOMAIN noted = DOMAIN s /\ noted.held = rest.held /\ noted.last = rest.last
          /\ noted.buffer = rest.buffer /\ noted.at = rest.at /\ noted.open = rest.open
          /\ noted.mapped = rest.mapped /\ noted.next = rest.next + 1 /\ noted.queued = rest.queued
      BY <2>1 DEF StateOf, Chain!FreshState
    <3> HIDE DEF noted
    <3>2. QED
      BY <2>1, <2>4, <3>1 DEF StateOf
  <2>6. StreamOf(Chain!BlockEvents(s.next, "text", Chain!Notice), V)
    <3>1. <<s.next, "text">> \in V
      BY <1>1 DEF StateOf
    <3>2. EventOf(Chain!Start(s.next, "text"), V)
      BY <3>1 DEF EventOf, Chain!Start, Chain!Event
    <3>3. EventOf(Chain!Delta(s.next, "text", Chain!Notice), V) /\ EventOf(Chain!Stop(s.next), V)
      BY <3>1, DeltaTells, PlainTells
    <3>4. QED
      BY <3>2, <3>3, ThreeEvents DEF Chain!BlockEvents
  <2>7. ASSUME Chain!Judged(name) # "denied" PROVE StateOf(queues, W)
    <3>1. /\ DOMAIN queues = DOMAIN s /\ queues.held = rest.held /\ queues.last = rest.last
          /\ queues.buffer = rest.buffer /\ queues.at = rest.at /\ queues.open = rest.open
          /\ queues.mapped = rest.mapped /\ queues.next = rest.next /\ queues.queued = Append(rest.queued, name)
      BY <2>1 DEF StateOf, Chain!FreshState
    <3> HIDE DEF queues
    <3>2. <<e.index, name>> \in W
      BY <1>6 DEF StateOf
    <3>3. name \in Known \ Chain!Denied
      BY <2>7, <3>2 DEF Chain!Judged, Exact
    <3>4. Append(rest.queued, name) \in Seq(Known \ Chain!Denied)
      BY <2>4, <3>3 DEF StateOf
    <3>5. QED
      BY <2>1, <2>4, <3>1, <3>4 DEF StateOf
  <2> HIDE DEF noted, queues
  <2>8. QED
    BY <2>2, <2>5, <2>6, <2>7, NoEvent, HookIs DEF Tells
<1>7. CASE e.type = "message_delta"
  <2> DEFINE calls == Chain!FlattenSeq([i \in DOMAIN s.queued |-> Chain!BlockEvents(s.next + i - 1, s.queued[i], <<>>)])
             last == Chain!MessageDelta(Chain!Corrected(e.kind, s.queued))
  <2>1. h = Chain!Hook(s, calls \o <<last>>)
    BY <1>7 DEF Chain!Judging
  <2>2. StreamOf(calls, V)
    <3>1. Int \X (Known \ Chain!Denied) \subseteq V
      BY <1>1
    <3>2. s.next \in Int /\ s.queued \in Seq(Known \ Chain!Denied)
      BY DEF StateOf
    <3>3. QED
      BY <3>1, <3>2, QueuedTells
  <2>3. EventOf(last, V)
    BY <1>7 DEF EventOf, Chain!MessageDelta, Chain!Event, Chain!Corrected, Chain!Tools
  <2> HIDE DEF calls, last
  <2>4. QED
    BY <2>1, <2>2, <2>3, OneEvent, JoinedStream, HookIs DEF Tells
<1>8. CASE e.type \notin {"start", "delta", "stop", "message_delta"}
  <2>1. h = Chain!Hook(s, <<e>>)
    BY <1>8 DEF Chain!Judging
  <2>2. EventOf(e, V)
    BY <1>8 DEF EventOf
  <2>3. QED
    BY <2>1, <2>2, OneEvent, HookIs DEF Tells
<1>9. QED
  BY <1>2, <1>3, <1>4, <1>5, <1>6, <1>7, <1>8

(* The judge's chain: one policy of each kind, the judge at j.              *)
JudgedAt(j) ==
  /\ Len(chain) \in Nat /\ DOMAIN chain = 1..Len(chain)
  /\ \A a, b \in DOMAIN chain : chain[a] = chain[b] => a = b
  /\ j \in DOMAIN chain /\ chain[j] = "judge"

(* Only the judge, and a policy that makes a response up, change what the   *)
(* policies after them see.                                                 *)
LEMMA BlocksAfter ==
  ASSUME NEW j, JudgedAt(j), NEW U, NEW k \in DOMAIN chain
  PROVE  /\ chain[k] \notin {"judge", "force"} => Blocks(j, k + 1, U) = Blocks(j, k, U)
         /\ chain[k] = "judge" => /\ Exact(U) => Exact(Blocks(j, k, U))
                                  /\ Banned(j) \subseteq Chain!Denied
                                  /\ Blocks(j, k + 1, U) = Int \X (Known \ Banned(j))
         /\ chain[k] = "force" => <<0, "forced">> \in Blocks(j, k + 1, U)
<1>1. k \in Nat /\ j \in Nat /\ DOMAIN chain \subseteq Nat
  BY DEF JudgedAt
<1>2. CASE chain[k] \notin {"judge", "force"}
  <2>1. k # j
    BY <1>2 DEF JudgedAt
  <2>2. Forced(k + 1) <=> Forced(k)
    <3>1. \A f \in DOMAIN chain : f < k + 1 /\ chain[f] = "force" <=> f < k /\ chain[f] = "force"
      BY <1>1, <1>2
    <3>2. QED
      BY <3>1 DEF Forced
  <2>3. k + 1 > j <=> k > j
    BY <1>1, <2>1
  <2>4. QED
    BY <1>2, <2>2, <2>3 DEF Blocks
<1>3. CASE chain[k] = "judge"
  <2>1. k = j
    BY <1>3 DEF JudgedAt
  <2>2. ~(k > j) /\ k + 1 > j
    BY <1>1, <2>1
  <2>3. Exact({<<0, "forced">>})
    <3>1. <<0, "forced">> \in Int \X Known
      BY DEF Known
    <3>2. QED
      BY <3>1 DEF Exact
  <2>4. Banned(j) \subseteq Chain!Denied
    BY DEF Banned, Chain!Denied
  <2>5. QED
    BY <1>3, <2>2, <2>3, <2>4 DEF Blocks
<1>4. CASE chain[k] = "force"
  <2>1. k # j
    BY <1>4 DEF JudgedAt
  <2>2. CASE k < j
    <3>1. ~(k + 1 > j) /\ k < k + 1
      BY <1>1, <2>2
    <3>2. Forced(k + 1)
      BY <1>4, <3>1 DEF Forced
    <3>3. QED
      BY <1>4, <3>1, <3>2 DEF Blocks
  <2>3. CASE k > j
    <3>1. ~Forced(j)
      <4> SUFFICES ASSUME NEW f \in DOMAIN chain, f < j, chain[f] = "force" PROVE FALSE
        BY DEF Forced
      <4>1. f = k
        BY <1>4 DEF JudgedAt
      <4>2. QED
        BY <1>1, <2>3, <4>1
    <3>2. "forced" \in Known \ Banned(j)
      BY <3>1 DEF Known, Banned
    <3>3. k + 1 > j
      BY <1>1, <2>3
    <3>4. QED
      BY <1>4, <3>2, <3>3 DEF Blocks
  <2>4. QED
    BY <1>1, <2>1, <2>2, <2>3
<1>5. QED
  BY <1>2, <1>3, <1>4

(* The hooks of the policy at k.                                            *)
LEMMA EventSeen ==
  ASSUME NEW j, JudgedAt(j), NEW U, Exact(U), NEW k \in DOMAIN chain,
         NEW s, NEW e, StateOf(s, Blocks(j, k, U)), EventOf(e, Blocks(j, k, U))
  PROVE  Tells(Chain!OnEvent(chain[k], s, e), Blocks(j, k, U), Blocks(j, k + 1, U))
<1> DEFINE W == Blocks(j, k, U)
           V == Blocks(j, k + 1, U)
           h == Chain!OnEvent(chain[k], s, e)
<1>1. /\ chain[k] \notin {"judge", "force"} => V = W
      /\ chain[k] = "judge" => Exact(W) /\ Banned(j) \subseteq Chain!Denied /\ V = Int \X (Known \ Banned(j))
  BY BlocksAfter
<1> HIDE DEF W, V
<1>2. StateOf(s, W) /\ EventOf(e, W)
  BY DEF W
<1>3. CASE chain[k] = "judge"
  <2>1. h = Chain!Judging(s, e)
    BY <1>3 DEF Chain!OnEvent
  <2> DEFINE B == Banned(j)
  <2>2. Exact(W) /\ B \subseteq Chain!Denied /\ V = Int \X (Known \ B)
    BY <1>1, <1>3
  <2> HIDE DEF B
  <2>3. Tells(h, W, V)
    BY <1>2, <2>1, <2>2, JudgingTells
  <2>4. QED
    BY <2>3 DEF V, W
<1>4. CASE chain[k] = "force"
  <2>1. h = Chain!Hook(s, <<>>)
    BY <1>4 DEF Chain!OnEvent
  <2>2. QED
    BY <1>2, <2>1, NoEvent, HookIs DEF Tells, V, W
<1>5. CASE chain[k] \notin {"judge", "force"}
  <2>1. \/ h = Chain!TextModifier(chain[k], s, e) \/ h = Chain!Simple(s, e)
        \/ h = Chain!Replacing(chain[k], s, e) \/ h = Chain!Hook(s, <<e>>)
    BY <1>5 DEF Chain!OnEvent
  <2>2. Tells(Chain!Hook(s, <<e>>), W, W)
    BY <1>2, OneEvent, HookIs DEF Tells
  <2>3. Tells(h, W, W)
    BY <1>2, <2>1, <2>2, ModifierTells, SimpleTells, ReplacingTells
  <2>4. QED
    BY <1>1, <1>5, <2>3 DEF V, W
<1>6. QED
  BY <1>3, <1>4, <1>5

LEMMA CompletionSeen ==
  ASSUME NEW j, JudgedAt(j), NEW U, Exact(U), NEW k \in DOMAIN chain,
         NEW s, StateOf(s, Blocks(j, k, U))
  PROVE  Tells(Chain!OnComplete(chain[k], s), Blocks(j, k, U), Blocks(j, k + 1, U))
<1> DEFINE W == Blocks(j, k, U)
           V == Blocks(j, k + 1, U)
           h == Chain!OnComplete(chain[k], s)
<1>1. /\ chain[k] \notin {"judge", "force"} => V = W
      /\ chain[k] = "force" => <<0, "forced">> \in V
  BY BlocksAfter
<1> HIDE DEF W, V
<1>2. StateOf(s, W)
  BY DEF W
<1>3. CASE chain[k] = "judge"
  <2>1. h = Chain!Hook(s, <<>>)
    BY <1>3 DEF Chain!OnComplete
  <2>2. QED
    BY <1>2, <2>1, NoEvent, HookIs DEF Tells, V, W
<1>4. CASE chain[k] = "force"
  <2>1. h = Chain!Hook(s, Chain!FabricatedEvents)
    BY <1>4 DEF Chain!OnComplete
  <2>2. StreamOf(Chain!BlockEvents(0, "forced", <<>>), V)
    <3>1. EventOf(Chain!Start(0, "forced"), V)
      BY <1>1, <1>4 DEF EventOf, Chain!Start, Chain!Event
    <3>2. EventOf(Chain!Delta(0, "forced", <<>>), V) /\ EventOf(Chain!Stop(0), V)
      BY <1>1, <1>4, DeltaTells, PlainTells
    <3>3. QED
      BY <3>1, <3>2, ThreeEvents DEF Chain!BlockEvents
  <2>3. StreamOf(<<Chain!Plain("message_start")>>, V)
    BY PlainTells, OneEvent
  <2>4. StreamOf(<<Chain!MessageDelta("tool_use"), Chain!Plain("message_stop")>>, V)
    <3>1. EventOf(Chain!MessageDelta("tool_use"), V)
      BY DEF EventOf, Chain!MessageDelta, Chain!Event, Chain!Tools
    <3>2. EventOf(Chain!Plain("message_stop"), V)
      BY PlainTells
    <3>3. QED
      BY <3>1, <3>2, TwoEvents
  <2>5. StreamOf(Chain!FabricatedEvents, V)
    BY <2>2, <2>3, <2>4, JoinedStream DEF Chain!FabricatedEvents
  <2>6. QED
    BY <1>2, <2>1, <2>5, HookIs DEF Tells, V, W
<1>5. CASE chain[k] \notin {"judge", "force"}
  <2>1. \/ s.held >= 0 /\ h = Chain!Release(chain[k], s, <<>>)
        \/ h = Chain!Flush(s, <<>>) \/ h = Chain!Hook(s, <<>>)
    BY <1>5 DEF Chain!OnComplete
  <2>2. StreamOf(<<>>, W)
    BY NoEvent
  <2>3. Tells(Chain!Hook(s, <<>>), W, W)
    BY <1>2, <2>2, HookIs DEF Tells
  <2>4. Tells(h, W, W)
    BY <1>2, <2>1, <2>2, <2>3, ReleaseTells, FlushTells
  <2>5. QED
    BY <1>1, <1>5, <2>4 DEF V, W
<1>6. QED
  BY <1>3, <1>4, <1>5

(* The loops, up to n.                                                      *)
Feeding(p, s, events, n) ==
  CHOOSE fed : fed = [i \in 0..n |-> IF i = 0 THEN Chain!Hook(s, <<>>) ELSE Chain!Fed(p, fed[i - 1], events[i])]
Passing(all, base, events, n) ==
  CHOOSE past : past = [i \in base..n |->
    IF i = base THEN Chain!Hook(all, events) ELSE Chain!Passed(past[i - 1], i)]
Ending(all, n) ==
  CHOOSE done : done = [i \in 0..n |-> IF i = 0 THEN Chain!Hook(all, <<>>) ELSE Chain!Ended(done[i - 1], i)]

(* What MultiSerialPolicy's loops compute, for any number of events         *)
(* and of policies: over the events that one policy sees, ...               *)
LEMMA FeedingIs ==
  ASSUME NEW p, NEW s, NEW events, NEW n \in Nat
  PROVE  \A i \in 0..n :
           Feeding(p, s, events, n)[i] =
             IF i = 0 THEN Chain!Hook(s, <<>>) ELSE Chain!Fed(p, Feeding(p, s, events, n)[i - 1], events[i])
<1> DEFINE Says(k, f) == f = [i \in 0..k |-> IF i = 0 THEN Chain!Hook(s, <<>>) ELSE Chain!Fed(p, f[i - 1], events[i])]
           without == {k \in Nat : ~ \E f : Says(k, f)}
<1>1. Says(0, [i \in {0} |-> Chain!Hook(s, <<>>)])
  BY DEF Says
<1>2. ASSUME NEW k \in Nat, NEW f, Says(k, f) PROVE \E g : Says(k + 1, g)
  <2> DEFINE g == [i \in 0..(k + 1) |-> IF i <= k THEN f[i] ELSE Chain!Fed(p, f[i - 1], events[i])]
  <2>1. \A i \in 0..k : f[i] = IF i = 0 THEN Chain!Hook(s, <<>>) ELSE Chain!Fed(p, f[i - 1], events[i])
    BY <1>2
  <2>2. \A i \in 0..(k + 1) : g[i] = IF i = 0 THEN Chain!Hook(s, <<>>) ELSE Chain!Fed(p, g[i - 1], events[i])
    <3> TAKE i \in 0..(k + 1)
    <3>1. i # 0 => i - 1 \in 0..k /\ g[i - 1] = f[i - 1]
      OBVIOUS
    <3>2. QED
      BY <3>1, <2>1
  <2>3. Says(k + 1, g)
    BY <2>2
  <2>4. QED
    BY <2>3
<1> HIDE DEF Says
<1>3. without = {}
  <2> SUFFICES ASSUME without # {} PROVE FALSE
    OBVIOUS
  <2>1. PICK k \in without : \A d \in without : k <= d
    BY LeastElement
  <2>2. k # 0
    BY <2>1, <1>1
  <2>3. k - 1 \in Nat /\ k - 1 \notin without
    BY <2>1, <2>2
  <2>4. \E f : Says((k - 1) + 1, f)
    BY <2>3, <1>2
  <2>5. QED
    BY <2>1, <2>4
<1>4. \E f : Says(n, f)
  BY <1>3
<1> DEFINE fed == Feeding(p, s, events, n)
<1>5. fed = CHOOSE f : Says(n, f)
  BY DEF Says, Feeding
<1> HIDE DEF fed
<1>6. Says(n, fed)
  BY <1>4, <1>5
<1>7. fed = [i \in 0..n |-> IF i = 0 THEN Chain!Hook(s, <<>>) ELSE Chain!Fed(p, fed[i - 1], events[i])]
  BY <1>6 DEF Says
<1>8. QED
  BY <1>7 DEF fed

(* ... over the policies from one on, ...                                   *)
LEMMA PassingIs ==
  ASSUME NEW all, NEW base \in Nat, NEW events, NEW n \in Nat, base <= n
  PROVE  \A i \in base..n :
           Passing(all, base, events, n)[i] =
             IF i = base THEN Chain!Hook(all, events) ELSE Chain!Passed(Passing(all, base, events, n)[i - 1], i)
<1> DEFINE Says(k, f) == f = [i \in base..k |-> IF i = base THEN Chain!Hook(all, events) ELSE Chain!Passed(f[i - 1], i)]
           without == {k \in Nat : base <= k /\ ~ \E f : Says(k, f)}
<1>1. Says(base, [i \in {base} |-> Chain!Hook(all, events)])
  <2> DEFINE f == [i \in {base} |-> Chain!Hook(all, events)]
  <2>1. base..base = {base}
    OBVIOUS
  <2>2. f = [i \in base..base |-> IF i = base THEN Chain!Hook(all, events) ELSE Chain!Passed(f[i - 1], i)]
    BY <2>1
  <2>3. QED
    BY <2>2 DEF Says
<1>2. ASSUME NEW k \in Nat, base <= k, NEW f, Says(k, f) PROVE \E g : Says(k + 1, g)
  <2> DEFINE g == [i \in base..(k + 1) |-> IF i <= k THEN f[i] ELSE Chain!Passed(f[i - 1], i)]
  <2>1. \A i \in base..k : f[i] = IF i = base THEN Chain!Hook(all, events) ELSE Chain!Passed(f[i - 1], i)
    BY <1>2
  <2>2. \A i \in base..(k + 1) : g[i] = IF i = base THEN Chain!Hook(all, events) ELSE Chain!Passed(g[i - 1], i)
    <3> TAKE i \in base..(k + 1)
    <3>1. i # base => i - 1 \in base..k /\ g[i - 1] = f[i - 1]
      OBVIOUS
    <3>2. QED
      BY <3>1, <2>1, <1>2
  <2>3. Says(k + 1, g)
    BY <2>2
  <2>4. QED
    BY <2>3
<1> HIDE DEF Says
<1>3. without = {}
  <2> SUFFICES ASSUME without # {} PROVE FALSE
    OBVIOUS
  <2>1. PICK k \in without : \A d \in without : k <= d
    BY LeastElement
  <2>2. k # base
    BY <2>1, <1>1
  <2>3. k - 1 \in Nat /\ base <= k - 1 /\ k - 1 \notin without
    BY <2>1, <2>2
  <2>4. \E f : Says((k - 1) + 1, f)
    BY <2>3, <1>2
  <2>5. QED
    BY <2>1, <2>4
<1>4. \E f : Says(n, f)
  BY <1>3
<1> DEFINE past == Passing(all, base, events, n)
<1>5. past = CHOOSE f : Says(n, f)
  BY DEF Says, Passing
<1> HIDE DEF past
<1>6. Says(n, past)
  BY <1>4, <1>5
<1>7. past = [i \in base..n |-> IF i = base THEN Chain!Hook(all, events) ELSE Chain!Passed(past[i - 1], i)]
  BY <1>6 DEF Says
<1>8. QED
  BY <1>7 DEF past

(* ... and over all of them when the stream is complete.                    *)
LEMMA EndingIs ==
  ASSUME NEW all, NEW n \in Nat
  PROVE  \A i \in 0..n :
           Ending(all, n)[i] = IF i = 0 THEN Chain!Hook(all, <<>>) ELSE Chain!Ended(Ending(all, n)[i - 1], i)
<1> DEFINE Says(k, f) == f = [i \in 0..k |-> IF i = 0 THEN Chain!Hook(all, <<>>) ELSE Chain!Ended(f[i - 1], i)]
           without == {k \in Nat : ~ \E f : Says(k, f)}
<1>1. Says(0, [i \in {0} |-> Chain!Hook(all, <<>>)])
  BY DEF Says
<1>2. ASSUME NEW k \in Nat, NEW f, Says(k, f) PROVE \E g : Says(k + 1, g)
  <2> DEFINE g == [i \in 0..(k + 1) |-> IF i <= k THEN f[i] ELSE Chain!Ended(f[i - 1], i)]
  <2>1. \A i \in 0..k : f[i] = IF i = 0 THEN Chain!Hook(all, <<>>) ELSE Chain!Ended(f[i - 1], i)
    BY <1>2
  <2>2. \A i \in 0..(k + 1) : g[i] = IF i = 0 THEN Chain!Hook(all, <<>>) ELSE Chain!Ended(g[i - 1], i)
    <3> TAKE i \in 0..(k + 1)
    <3>1. i # 0 => i - 1 \in 0..k /\ g[i - 1] = f[i - 1]
      OBVIOUS
    <3>2. QED
      BY <3>1, <2>1
  <2>3. Says(k + 1, g)
    BY <2>2
  <2>4. QED
    BY <2>3
<1> HIDE DEF Says
<1>3. without = {}
  <2> SUFFICES ASSUME without # {} PROVE FALSE
    OBVIOUS
  <2>1. PICK k \in without : \A d \in without : k <= d
    BY LeastElement
  <2>2. k # 0
    BY <2>1, <1>1
  <2>3. k - 1 \in Nat /\ k - 1 \notin without
    BY <2>1, <2>2
  <2>4. \E f : Says((k - 1) + 1, f)
    BY <2>3, <1>2
  <2>5. QED
    BY <2>1, <2>4
<1>4. \E f : Says(n, f)
  BY <1>3
<1> DEFINE done == Ending(all, n)
<1>5. done = CHOOSE f : Says(n, f)
  BY DEF Says, Ending
<1> HIDE DEF done
<1>6. Says(n, done)
  BY <1>4, <1>5
<1>7. done = [i \in 0..n |-> IF i = 0 THEN Chain!Hook(all, <<>>) ELSE Chain!Ended(done[i - 1], i)]
  BY <1>6 DEF Says
<1>8. QED
  BY <1>7 DEF done

(* The states of the chain's policies, each at its position.                *)
StatesOf(all, j, U) ==
  /\ DOMAIN all = DOMAIN chain
  /\ \A k \in DOMAIN chain : StateOf(all[k], Blocks(j, k, U))

LEMMA StateReplaced ==
  ASSUME NEW j, NEW U, NEW all, StatesOf(all, j, U), NEW k \in DOMAIN chain, NEW s, StateOf(s, Blocks(j, k, U))
  PROVE  StatesOf([all EXCEPT ![k] = s], j, U)
BY DEF StatesOf

(* All the events that a policy sees, ...                                   *)
LEMMA FeedTells ==
  ASSUME NEW j, JudgedAt(j), NEW U, Exact(U), NEW k \in DOMAIN chain,
         NEW s, NEW events, StateOf(s, Blocks(j, k, U)), StreamOf(events, Blocks(j, k, U))
  PROVE  Tells(Chain!FeedAll(chain[k], s, events), Blocks(j, k, U), Blocks(j, k + 1, U))
<1> DEFINE W == Blocks(j, k, U)
           V == Blocks(j, k + 1, U)
           n == Len(events)
           fed == Feeding(chain[k], s, events, n)
           bad == {i \in 0..n : ~Tells(fed[i], W, V)}
<1>1. n \in Nat /\ \A i \in 1..n : EventOf(events[i], W)
  BY StreamItems
<1>2. Chain!FeedAll(chain[k], s, events) = fed[n]
  BY DEF Chain!FeedAll, Feeding
<1> HIDE DEF W, V, n
<1>3. \A i \in 0..n : fed[i] = IF i = 0 THEN Chain!Hook(s, <<>>) ELSE Chain!Fed(chain[k], fed[i - 1], events[i])
  BY <1>1, FeedingIs
<1> HIDE DEF fed
<1>4. fed[0] = Chain!Hook(s, <<>>)
  BY <1>1, <1>3
<1>5. Tells(fed[0], W, V)
  BY <1>4, NoEvent, HookIs DEF Tells, W
<1>6. ASSUME NEW i \in 1..n, Tells(fed[i - 1], W, V) PROVE Tells(fed[i], W, V)
  <2> DEFINE prev == fed[i - 1]
             h == Chain!OnEvent(chain[k], prev.state, events[i])
  <2>1. fed[i] = Chain!Hook(h.state, prev.out \o h.out)
    <3>1. fed[i] = Chain!Fed(chain[k], fed[i - 1], events[i])
      BY <1>1, <1>3
    <3>2. QED
      BY <3>1 DEF Chain!Fed, Chain!Adding
  <2> HIDE DEF prev
  <2>2. Tells(prev, W, V)
    BY <1>6 DEF prev
  <2>3. Tells(h, W, V)
    BY <1>1, <2>2, EventSeen DEF Tells, W, V
  <2> HIDE DEF h
  <2>4. QED
    BY <2>1, <2>2, <2>3, JoinedStream, HookIs DEF Tells
<1>7. bad = {}
  <2> SUFFICES ASSUME bad # {} PROVE FALSE
    OBVIOUS
  <2>1. bad \in SUBSET Nat
    BY <1>1
  <2>2. PICK i \in bad : \A d \in bad : i <= d
    BY <2>1, LeastElement
  <2>3. i # 0
    BY <1>5, <2>2
  <2>4. i \in 1..n /\ i - 1 \in 0..n /\ i - 1 \notin bad
    BY <1>1, <2>2, <2>3
  <2>5. QED
    BY <1>6, <2>2, <2>4
<1>8. QED
  BY <1>1, <1>2, <1>7 DEF W, V

(* ... events through the policies from one on, ...                         *)
LEMMA ThroughTells ==
  ASSUME NEW j, JudgedAt(j), NEW U, Exact(U), NEW from \in 1..Len(chain) + 1,
         NEW all, NEW events, StatesOf(all, j, U), StreamOf(events, Blocks(j, from, U))
  PROVE  /\ StatesOf(Chain!Through(all, from, events).state, j, U)
         /\ StreamOf(Chain!Through(all, from, events).out, Blocks(j, Len(chain) + 1, U))
<1> DEFINE n == Len(chain)
           base == from - 1
           past == Passing(all, base, events, n)
           Good(i) == StatesOf(past[i].state, j, U) /\ StreamOf(past[i].out, Blocks(j, i + 1, U))
           bad == {i \in base..n : ~Good(i)}
<1>1. n \in Nat /\ DOMAIN chain = 1..n /\ from \in 1..n + 1 /\ from \in Nat \ {0} /\ base \in Nat /\ base <= n /\ from = base + 1
  BY DEF JudgedAt
<1>2. Chain!Through(all, from, events) = past[n]
  BY DEF Chain!Through, Passing
<1> HIDE DEF n, base
<1>3. \A i \in base..n : past[i] = IF i = base THEN Chain!Hook(all, events) ELSE Chain!Passed(past[i - 1], i)
  BY <1>1, PassingIs
<1> HIDE DEF past
<1>4. past[base] = Chain!Hook(all, events)
  BY <1>1, <1>3
<1>5. Good(base)
  BY <1>1, <1>4, HookIs
<1>6. ASSUME NEW i \in from..n, Good(i - 1) PROVE Good(i)
  <2> DEFINE prev == past[i - 1]
             h == Chain!FeedAll(chain[i], prev.state[i], prev.out)
  <2>1. past[i] = Chain!Hook([prev.state EXCEPT ![i] = h.state], h.out)
    <3>1. past[i] = Chain!Passed(past[i - 1], i)
      BY <1>1, <1>3
    <3>2. QED
      BY <3>1 DEF Chain!Passed, Chain!PassedOn, Chain!Leaving
  <2>2. i \in DOMAIN chain /\ (i - 1) + 1 = i
    BY <1>1
  <2>3. StatesOf(prev.state, j, U) /\ StreamOf(prev.out, Blocks(j, i, U))
    BY <1>6, <2>2
  <2> HIDE DEF prev
  <2>4. StateOf(prev.state[i], Blocks(j, i, U))
    BY <2>2, <2>3 DEF StatesOf
  <2>5. Tells(h, Blocks(j, i, U), Blocks(j, i + 1, U))
    BY <2>2, <2>3, <2>4, FeedTells
  <2> HIDE DEF h
  <2>6. StatesOf([prev.state EXCEPT ![i] = h.state], j, U)
    BY <2>2, <2>3, <2>5, StateReplaced DEF Tells
  <2>7. QED
    BY <2>1, <2>5, <2>6, HookIs DEF Tells
<1> HIDE DEF Good
<1>7. bad = {}
  <2> SUFFICES ASSUME bad # {} PROVE FALSE
    OBVIOUS
  <2>1. bad \in SUBSET Nat
    BY <1>1
  <2>2. PICK i \in bad : \A d \in bad : i <= d
    BY <2>1, LeastElement
  <2>3. i # base
    BY <1>5, <2>2
  <2>4. i \in from..n /\ i - 1 \in base..n /\ i - 1 \notin bad
    BY <1>1, <2>2, <2>3
  <2>5. QED
    BY <1>6, <2>2, <2>4
<1>8. Good(n)
  BY <1>1, <1>7
<1>9. QED
  BY <1>2, <1>8 DEF Good, n

(* ... and what the policies add when the stream is complete.               *)
LEMMA CompletedTells ==
  ASSUME NEW j, JudgedAt(j), NEW U, Exact(U), NEW all, StatesOf(all, j, U)
  PROVE  /\ StatesOf(Chain!Completed(all).state, j, U)
         /\ StreamOf(Chain!Completed(all).out, Blocks(j, Len(chain) + 1, U))
<1> DEFINE n == Len(chain)
           Z == Blocks(j, n + 1, U)
           done == Ending(all, n)
           Good(i) == StatesOf(done[i].state, j, U) /\ StreamOf(done[i].out, Z)
           bad == {i \in 0..n : ~Good(i)}
<1>1. n \in Nat /\ DOMAIN chain = 1..n
  BY DEF JudgedAt
<1>2. Chain!Completed(all) = done[n]
  BY DEF Chain!Completed, Ending
<1> HIDE DEF n, Z
<1>3. \A i \in 0..n : done[i] = IF i = 0 THEN Chain!Hook(all, <<>>) ELSE Chain!Ended(done[i - 1], i)
  BY <1>1, EndingIs
<1> HIDE DEF done
<1>4. done[0] = Chain!Hook(all, <<>>)
  BY <1>1, <1>3
<1>5. Good(0)
  BY <1>4, NoEvent, HookIs
<1>6. ASSUME NEW i \in 1..n, Good(i - 1) PROVE Good(i)
  <2> DEFINE prev == done[i - 1]
             h == Chain!OnComplete(chain[i], prev.state[i])
             after == [prev.state EXCEPT ![i] = h.state]
             t == Chain!Through(after, i + 1, h.out)
  <2>1. done[i] = Chain!Hook(t.state, prev.out \o t.out)
    <3>1. done[i] = Chain!Ended(done[i - 1], i)
      BY <1>1, <1>3
    <3>2. QED
      BY <3>1 DEF Chain!Ended, Chain!EndedWith, Chain!Adding, Chain!Leaving
  <2>2. i \in DOMAIN chain /\ i + 1 \in 1..n + 1
    BY <1>1
  <2>3. StatesOf(prev.state, j, U) /\ StreamOf(prev.out, Z)
    BY <1>6
  <2> HIDE DEF prev
  <2>4. StateOf(prev.state[i], Blocks(j, i, U))
    BY <2>2, <2>3 DEF StatesOf
  <2>5. Tells(h, Blocks(j, i, U), Blocks(j, i + 1, U))
    BY <2>2, <2>4, CompletionSeen
  <2> HIDE DEF h
  <2>6. StatesOf(after, j, U)
    BY <2>2, <2>3, <2>5, StateReplaced DEF Tells
  <2> HIDE DEF after
  <2>7. StatesOf(t.state, j, U) /\ StreamOf(t.out, Z)
    BY <2>2, <2>5, <2>6, ThroughTells DEF Tells, Z, n
  <2> HIDE DEF t
  <2>8. QED
    BY <2>1, <2>3, <2>7, JoinedStream, HookIs
<1> HIDE DEF Good
<1>7. bad = {}
  <2> SUFFICES ASSUME bad # {} PROVE FALSE
    OBVIOUS
  <2>1. bad \in SUBSET Nat
    BY <1>1
  <2>2. PICK i \in bad : \A d \in bad : i <= d
    BY <2>1, LeastElement
  <2>3. i # 0
    BY <1>5, <2>2
  <2>4. i \in 1..n /\ i - 1 \in 0..n /\ i - 1 \notin bad
    BY <1>1, <2>2, <2>3
  <2>5. QED
    BY <1>6, <2>2, <2>4
<1>8. Good(n)
  BY <1>1, <1>7
<1>9. QED
  BY <1>2, <1>8 DEF Good, n, Z

-----------------------------------------------------------------------------
(* The chain's behaviour. What upstream sent has one block at each index;     *)
(* wherever a judge stands, each policy of the chain knows the blocks that   *)
(* may reach it, and so does the client.                                    *)
Letters  == {"a", "b", "A"}
BlockSet == [kind : Chain!Kinds, text : Seq(Letters)]
Content  == Seq(BlockSet)

JudgedStream(j) ==
  /\ StatesOf(state, j, FromModel)
  /\ StreamOf(sent, Blocks(j, Len(chain) + 1, FromModel))

ChainInv ==
  /\ Len(chain) \in Nat /\ DOMAIN chain = 1..Len(chain)
  /\ \A a, b \in DOMAIN chain : chain[a] = chain[b] => a = b
  /\ content \in Content
  /\ stage \in {"open", "told"} => content # <<>>
  /\ \A j \in DOMAIN chain : chain[j] = "judge" => JudgedStream(j)

LEMMA FreshTells ==
  ASSUME NEW W, NEW p, NEW r
  PROVE  StateOf(Chain!OnRequest(p, r), W)
<1> DEFINE s == Chain!OnRequest(p, r)
<1>1. /\ DOMAIN s = DOMAIN Chain!FreshState
      /\ s.last = -1 /\ s.held = -1 /\ s.buffer = <<>> /\ s.open = <<>> /\ s.mapped = <<>>
      /\ s.next = 0 /\ s.queued = <<>>
  BY DEF Chain!OnRequest, Chain!FreshState
<1>2. DOMAIN <<>> = {} /\ <<>> \in Seq(Known \ Chain!Denied)
  OBVIOUS
<1> HIDE DEF s
<1>3. StateOf(s, W)
  BY <1>1, <1>2 DEF StateOf
<1>4. QED
  BY <1>3 DEF s

(* The first policy sees what upstream sent, and what it sent grows.        *)
LEMMA BlocksGrow ==
  ASSUME NEW j, JudgedAt(j), NEW U, NEW V, U \subseteq V
  PROVE  /\ Blocks(j, 1, U) = U
         /\ \A k : Blocks(j, k, U) \subseteq Blocks(j, k, V)
         /\ \A all : StatesOf(all, j, U) => StatesOf(all, j, V)
<1>1. ~Forced(1) /\ ~(1 > j)
  BY DEF JudgedAt, Forced
<1>2. Blocks(j, 1, U) = U
  BY <1>1 DEF Blocks
<1>3. \A k : Blocks(j, k, U) \subseteq Blocks(j, k, V)
  BY DEF Blocks
<1>4. ASSUME NEW all, StatesOf(all, j, U) PROVE StatesOf(all, j, V)
  <2>1. ASSUME NEW k \in DOMAIN chain PROVE StateOf(all[k], Blocks(j, k, V))
    <3>1. StateOf(all[k], Blocks(j, k, U)) /\ Blocks(j, k, U) \subseteq Blocks(j, k, V)
      BY <1>3, <1>4 DEF StatesOf
    <3>2. QED
      BY <3>1, StateGrows
  <2>2. QED
    BY <1>4, <2>1 DEF StatesOf
<1>5. QED
  BY <1>2, <1>3, <1>4

LEMMA EmitTells ==
  ASSUME NEW j, JudgedAt(j), NEW U, NEW V, U \subseteq V, Exact(V),
         NEW all, StatesOf(all, j, U), NEW told, StreamOf(told, Blocks(j, Len(chain) + 1, U)),
         NEW e, EventOf(e, V)
  PROVE  LET h == Chain!Through(all, 1, <<e>>) IN
         /\ StatesOf(h.state, j, V)
         /\ StreamOf(told, Blocks(j, Len(chain) + 1, V))
         /\ StreamOf(h.out, Blocks(j, Len(chain) + 1, V))
         /\ StreamOf(told \o h.out, Blocks(j, Len(chain) + 1, V))
<1> DEFINE h == Chain!Through(all, 1, <<e>>)
           last == Len(chain) + 1
<1>1. 1 \in 1..Len(chain) + 1
  BY DEF JudgedAt
<1>2. Blocks(j, 1, V) = V /\ Blocks(j, last, U) \subseteq Blocks(j, last, V) /\ StatesOf(all, j, V)
  BY BlocksGrow
<1>3. StreamOf(<<e>>, Blocks(j, 1, V))
  BY <1>2, OneEvent
<1>4. StatesOf(h.state, j, V) /\ StreamOf(h.out, Blocks(j, last, V))
  BY <1>1, <1>2, <1>3, ThroughTells
<1>5. StreamOf(told, Blocks(j, last, V))
  BY <1>2, StreamGrows
<1> HIDE DEF h, last
<1>6. StatesOf(h.state, j, V) /\ StreamOf(told \o h.out, Blocks(j, last, V))
  BY <1>4, <1>5, JoinedStream
<1>7. QED
  BY <1>4, <1>5, <1>6 DEF h, last

LEMMA StartedExact ==
  ASSUME NEW c \in Content
  PROVE  Exact(Started(c))
<1>1. Len(c) \in Nat /\ DOMAIN c = 1..Len(c)
  BY DEF Content
<1>2. \A i \in DOMAIN c : c[i] \in BlockSet
  BY <1>1 DEF Content
<1>3. \A i \in DOMAIN c : c[i].kind \in Known
  BY <1>2 DEF Known, BlockSet
<1>4. QED
  BY <1>1, <1>3 DEF Exact, Started

LEMMA CarriedOver ==
  ASSUME chain' = chain, NEW j, NEW U, U = FromModel', NEW s, s = state', NEW told, told = sent',
         StatesOf(s, j, U), StreamOf(told, Blocks(j, Len(chain) + 1, U))
  PROVE  JudgedStream(j)'
<1>1. \A k : Forced(k)' <=> Forced(k)
  BY DEF Forced
<1>2. Banned(j)' = Banned(j)
  BY <1>1 DEF Banned
<1>3. \A k : Blocks(j, k, FromModel)' = Blocks(j, k, U)
  BY <1>1, <1>2 DEF Blocks
<1>4. StatesOf(state, j, FromModel)'
  BY <1>3 DEF StatesOf
<1>5. StreamOf(sent, Blocks(j, Len(chain) + 1, FromModel))'
  BY <1>3
<1>6. QED
  BY <1>4, <1>5 DEF JudgedStream

(* One event of the upstream stream, when the upstream content is that or    *)
(* more.                                                                    *)
LEMMA Emitted ==
  ASSUME ChainInv, chain' = chain, content' \in Content, FromModel \subseteq FromModel',
         stage' \in {"open", "told"} => content' # <<>>,
         NEW e, EventOf(e, FromModel'),
         NEW h, h = Chain!Through(state, 1, <<e>>), state' = h.state, sent' = sent \o h.out
  PROVE  ChainInv'
<1>1. ASSUME NEW j \in DOMAIN chain, chain[j] = "judge" PROVE JudgedStream(j)'
  <2> DEFINE U == FromModel
             V == FromModel'
             all == state
             told == sent
  <2>1. JudgedAt(j)
    BY <1>1 DEF ChainInv, JudgedAt
  <2>2. Exact(V)
    BY StartedExact DEF FromModel
  <2>3. StatesOf(all, j, U) /\ StreamOf(told, Blocks(j, Len(chain) + 1, U))
    BY <1>1 DEF ChainInv, JudgedStream
  <2>4. U \subseteq V /\ EventOf(e, V) /\ h = Chain!Through(all, 1, <<e>>)
    OBVIOUS
  <2> HIDE DEF U, V, all, told
  <2>5. StatesOf(h.state, j, V) /\ StreamOf(told \o h.out, Blocks(j, Len(chain) + 1, V))
    BY <2>1, <2>2, <2>3, <2>4, EmitTells
  <2>6. QED
    BY <2>5, CarriedOver DEF V, told
<1>2. QED
  BY <1>1 DEF ChainInv

LEMMA ChainStarts == Chain!Init => ChainInv
<1> SUFFICES ASSUME Chain!Init PROVE ChainInv
  OBVIOUS
<1>1. PICK n \in 1..MaxChain : chain \in [1..n -> Names] /\ Chain!IsInjective(chain)
  BY DEF Chain!Init, Chain!Chains
<1>2. /\ Len(chain) \in Nat /\ DOMAIN chain = 1..Len(chain)
      /\ \A a, b \in DOMAIN chain : chain[a] = chain[b] => a = b
  <2>1. n \in Nat /\ Len(chain) = n
    BY <1>1, PoliciesAssumption
  <2>2. QED
    BY <1>1, <2>1 DEF Chain!IsInjective
<1>3. content = <<>> /\ stage = "between"
  BY DEF Chain!Init
<1>4. content \in Content
  BY <1>3 DEF Content
<1>5. ASSUME NEW j \in DOMAIN chain, chain[j] = "judge" PROVE JudgedStream(j)
  <2> DEFINE U == FromModel
             e == Chain!Plain("message_start")
             all == [i \in DOMAIN chain |-> Chain!OnRequest(chain[i], request)]
             h == Chain!Through(all, 1, <<e>>)
  <2>1. JudgedAt(j)
    BY <1>2, <1>5 DEF JudgedAt
  <2>2. Exact(U)
    BY <1>4, StartedExact DEF FromModel
  <2>3. StatesOf(all, j, U)
    BY FreshTells DEF StatesOf
  <2>4. state = h.state /\ sent = h.out
    BY DEF Chain!Init, Chain!Begun
  <2> HIDE DEF U, all
  <2>5. 1 \in 1..Len(chain) + 1 /\ Blocks(j, 1, U) = U
    BY <1>2, <2>1, BlocksGrow
  <2>6. StreamOf(<<e>>, Blocks(j, 1, U))
    BY PlainTells, OneEvent
  <2> HIDE DEF e
  <2>7. StatesOf(h.state, j, U) /\ StreamOf(h.out, Blocks(j, Len(chain) + 1, U))
    BY <2>1, <2>2, <2>3, <2>5, <2>6, ThroughTells
  <2>8. QED
    BY <2>4, <2>7 DEF JudgedStream, U
<1>6. QED
  BY <1>2, <1>3, <1>4, <1>5 DEF ChainInv

LEMMA ChainSteps == ChainInv /\ Chain!Next => ChainInv'
<1> SUFFICES ASSUME ChainInv, Chain!Next PROVE ChainInv'
  OBVIOUS
<1>0. /\ content \in Content /\ Len(content) \in Nat /\ DOMAIN content = 1..Len(content)
      /\ \A i \in DOMAIN content : content[i] \in BlockSet
  <2>1. content \in Content
    BY DEF ChainInv
  <2>2. QED
    BY <2>1 DEF Content
<1>1. CASE Chain!BlockStart
  <2>1. PICK kind \in Chain!Kinds :
          content' = Append(content, Chain!Block(kind, <<>>)) /\ Chain!Emit(Chain!Start(Chain!Current + 1, kind))
    BY <1>1 DEF Chain!BlockStart
  <2>2. chain' = chain
    BY <1>1 DEF Chain!BlockStart
  <2>3. content' \in Content /\ content' # <<>>
    <3>1. Chain!Block(kind, <<>>) \in BlockSet
      BY DEF Chain!Block, BlockSet
    <3>2. QED
      BY <1>0, <2>1, <3>1 DEF Content
  <2>4. FromModel \subseteq FromModel' /\ <<Chain!Current + 1, kind>> \in FromModel'
    <3>1. /\ DOMAIN content' = 1..Len(content) + 1
          /\ \A i \in DOMAIN content : content'[i] = content[i]
          /\ content'[Len(content) + 1].kind = kind
      BY <1>0, <2>1 DEF Chain!Block, Content
    <3>2. FromModel \subseteq FromModel'
      BY <1>0, <3>1 DEF FromModel, Started
    <3>3. Chain!Current + 1 = (Len(content) + 1) - 1
      BY <1>0 DEF Chain!Current
    <3>4. <<(Len(content) + 1) - 1, content'[Len(content) + 1].kind>> \in FromModel'
      BY <1>0, <3>1 DEF FromModel, Started
    <3>5. QED
      BY <3>1, <3>2, <3>3, <3>4
  <2> DEFINE e == Chain!Start(Chain!Current + 1, kind)
             h == Chain!Through(state, 1, <<e>>)
  <2>5. EventOf(e, FromModel')
    BY <2>4 DEF EventOf, Chain!Start, Chain!Event
  <2>6. state' = h.state /\ sent' = sent \o h.out
    BY <2>1 DEF Chain!Emit, Chain!Emitted
  <2> HIDE DEF e
  <2>7. QED
    BY <2>2, <2>3, <2>4, <2>5, <2>6, Emitted
<1>2. CASE Chain!BlockDelta
  <2>1. PICK text \in Chain!Chunks :
          /\ content' = [content EXCEPT ![Chain!Current + 1].text = @ \o text]
          /\ Chain!Emit(Chain!Delta(Chain!Current, "text", text))
    BY <1>2 DEF Chain!BlockDelta
  <2>2. chain' = chain /\ stage \in {"open", "told"} /\ content[Chain!Current + 1].kind = "text"
    BY <1>2 DEF Chain!BlockDelta
  <2> DEFINE n == Len(content)
  <2>3. n \in DOMAIN content /\ Chain!Current + 1 = n /\ Chain!Current = n - 1
    BY <1>0, <2>2 DEF ChainInv, Chain!Current
  <2>4. content' = [content EXCEPT ![n] = [content[n] EXCEPT !.text = content[n].text \o text]]
    BY <2>1, <2>3
  <2>5. [content[n] EXCEPT !.text = content[n].text \o text] \in BlockSet
        /\ [content[n] EXCEPT !.text = content[n].text \o text].kind = content[n].kind
    <3>1. text \in Seq(Letters)
      <4>1. text = <<"a">> \/ text = <<"b", "A">>
        BY DEF Chain!Chunks
      <4>2. \A S : \A a, b \in S : <<a>> \in Seq(S) /\ <<a, b>> \in Seq(S)
        OBVIOUS
      <4>3. "a" \in Letters /\ "b" \in Letters /\ "A" \in Letters
        BY DEF Letters
      <4>4. QED
        BY <4>1, <4>2, <4>3
    <3>2. content[n] \in BlockSet
      BY <1>0, <2>3
    <3>3. content[n].text \o text \in Seq(Letters)
      BY <3>1, <3>2 DEF BlockSet
    <3>4. QED
      BY <3>2, <3>3 DEF BlockSet
  <2>6. content' \in Content /\ content' # <<>>
    BY <1>0, <2>3, <2>4, <2>5 DEF Content
  <2>7. FromModel' = FromModel
    <3>1. DOMAIN content' = DOMAIN content /\ \A i \in DOMAIN content : content'[i].kind = content[i].kind
      BY <1>0, <2>3, <2>4, <2>5
    <3>2. QED
      BY <3>1 DEF FromModel, Started
  <2>8. <<Chain!Current, "text">> \in FromModel
    BY <2>2, <2>3 DEF FromModel, Started
  <2> DEFINE e == Chain!Delta(Chain!Current, "text", text)
             h == Chain!Through(state, 1, <<e>>)
  <2>9. EventOf(e, FromModel')
    BY <2>7, <2>8, DeltaTells
  <2>10. state' = h.state /\ sent' = sent \o h.out
    BY <2>1 DEF Chain!Emit, Chain!Emitted
  <2> HIDE DEF e, n
  <2>11. QED
    BY <2>2, <2>6, <2>7, <2>9, <2>10, Emitted
<1>3. CASE Chain!OtherDelta
  <2> DEFINE kind == content[Chain!Current + 1].kind
             e == Chain!Delta(Chain!Current, kind, <<>>)
             h == Chain!Through(state, 1, <<e>>)
  <2>1. chain' = chain /\ content' = content /\ stage = "open" /\ state' = h.state /\ sent' = sent \o h.out
    BY <1>3 DEF Chain!OtherDelta, Chain!Emit, Chain!Emitted
  <2>2. Len(content) \in DOMAIN content /\ Chain!Current + 1 = Len(content) /\ Chain!Current = Len(content) - 1
    BY <1>0, <2>1 DEF ChainInv, Chain!Current
  <2>3. <<Chain!Current, kind>> \in FromModel
    BY <2>2 DEF FromModel, Started
  <2>4. FromModel' = FromModel
    BY <2>1 DEF FromModel
  <2>5. EventOf(e, FromModel')
    BY <2>3, <2>4, DeltaTells
  <2>6. content' # <<>>
    BY <1>0, <2>1, <2>2
  <2> HIDE DEF e, kind
  <2>7. QED
    BY <1>0, <2>1, <2>4, <2>5, <2>6, Emitted
<1>4. CASE Chain!BlockStop
  <2> DEFINE e == Chain!Stop(Chain!Current)
             h == Chain!Through(state, 1, <<e>>)
  <2>1. chain' = chain /\ content' = content /\ stage' = "between" /\ state' = h.state /\ sent' = sent \o h.out
    BY <1>4 DEF Chain!BlockStop, Chain!Emit, Chain!Emitted
  <2>2. FromModel' = FromModel
    BY <2>1 DEF FromModel
  <2>3. EventOf(e, FromModel')
    BY PlainTells
  <2> HIDE DEF e
  <2>4. QED
    BY <1>0, <2>1, <2>2, <2>3, Emitted
<1>5. CASE Chain!MessageEnds
  <2> DEFINE e == Chain!MessageDelta(reason')
             h == Chain!Through(state, 1, <<e>>)
  <2>1. /\ chain' = chain /\ content' = content /\ stage' = "ending"
        /\ state' = h.state /\ sent' = sent \o h.out
        /\ reason' \in {"max_tokens", "tool_use", "end_turn"}
    BY <1>5 DEF Chain!MessageEnds, Chain!Emit, Chain!Emitted
  <2>2. FromModel' = FromModel
    BY <2>1 DEF FromModel
  <2>3. EventOf(e, FromModel')
    BY <2>1 DEF EventOf, Chain!MessageDelta, Chain!Event, Chain!Tools
  <2> HIDE DEF e
  <2>4. QED
    BY <1>0, <2>1, <2>2, <2>3, Emitted
<1>6. CASE Chain!StreamEnds
  <2> DEFINE e == Chain!Plain("message_stop")
             h == Chain!Through(state, 1, <<e>>)
             c == Chain!Completed(h.state)
             U == FromModel
             all == state
             told == sent
  <2>1. /\ chain' = chain /\ content' = content /\ stage' = "done"
        /\ state' = c.state /\ sent' = sent \o (h.out \o c.out)
    BY <1>6 DEF Chain!StreamEnds, Chain!Emitted, Chain!Finished, Chain!Adding, Chain!Hook
  <2>2. FromModel' = U
    BY <2>1 DEF FromModel
  <2>3. EventOf(e, U)
    BY PlainTells
  <2>4. Exact(U)
    BY <1>0, StartedExact DEF FromModel
  <2>5. ASSUME NEW j \in DOMAIN chain, chain[j] = "judge" PROVE JudgedStream(j)'
    <3>1. JudgedAt(j)
      BY <2>5 DEF ChainInv, JudgedAt
    <3>2. StatesOf(all, j, U) /\ StreamOf(told, Blocks(j, Len(chain) + 1, U))
      BY <2>5 DEF ChainInv, JudgedStream
    <3>3. h = Chain!Through(all, 1, <<e>>)
      OBVIOUS
    <3> HIDE DEF U, e, h, all, told
    <3>4. /\ StatesOf(h.state, j, U)
          /\ StreamOf(told, Blocks(j, Len(chain) + 1, U)) /\ StreamOf(h.out, Blocks(j, Len(chain) + 1, U))
      BY <2>3, <2>4, <3>1, <3>2, <3>3, EmitTells
    <3>5. StatesOf(c.state, j, U) /\ StreamOf(c.out, Blocks(j, Len(chain) + 1, U))
      BY <2>4, <3>1, <3>4, CompletedTells
    <3> HIDE DEF c
    <3>6. StreamOf(told \o (h.out \o c.out), Blocks(j, Len(chain) + 1, U))
      BY <3>4, <3>5, JoinedStream
    <3>7. QED
      BY <2>1, <2>2, <3>5, <3>6, CarriedOver DEF told
  <2>6. QED
    BY <1>0, <2>1, <2>5 DEF ChainInv
<1>7. QED
  BY <1>1, <1>2, <1>3, <1>4, <1>5, <1>6 DEF Chain!Next

LEMMA ChainDenies == ChainInv => DeniedNeverLeaves
<1> SUFFICES ASSUME ChainInv PROVE DeniedNeverLeaves
  OBVIOUS
<1>1. ASSUME NEW j \in DOMAIN chain, chain[j] = "judge", NEW i \in DOMAIN sent PROVE sent[i].kind \notin Banned(j)
  <2> DEFINE W == Blocks(j, Len(chain) + 1, FromModel)
  <2>1. StreamOf(sent, W)
    BY <1>1 DEF ChainInv, JudgedStream
  <2>2. W = Int \X (Known \ Banned(j))
    BY <1>1 DEF ChainInv, Blocks
  <2> HIDE DEF W
  <2>3. EventOf(sent[i], W)
    BY <2>1, StreamItems
  <2>4. Banned(j) \subseteq Chain!Tools
    BY DEF Banned, Chain!Tools
  <2>5. QED
    BY <2>2, <2>3, <2>4 DEF EventOf
<1>2. \A j \in DOMAIN chain : "harmful" \in Banned(j)
  BY DEF Banned
<1>3. Chain!Contains(chain, "judge") => \E j \in DOMAIN chain : chain[j] = "judge"
  BY DEF Chain!Contains, ChainInv
<1>4. Chain!Before("force", "judge") => \E j \in DOMAIN chain : chain[j] = "judge" /\ "forced" \in Banned(j)
  BY DEF Chain!Before, Banned, Forced
<1>5. QED
  BY <1>1, <1>2, <1>3, <1>4 DEF DeniedNeverLeaves, Chain!DeniedNeverLeaves

LEMMA ChainInvariance == FairSpec => []ChainInv
<1>1. Init => ChainInv
  BY ChainStarts DEF Init
<1>2. ChainInv /\ [Next]_vars => ChainInv'
  <2>1. CASE Chain!Next
    BY <2>1, ChainSteps
  <2>2. CASE UNCHANGED chainVars
    BY <2>2 DEF chainVars, ChainInv, JudgedStream, StatesOf, FromModel, Blocks, Forced, Banned
  <2>3. QED
    BY <2>1, <2>2 DEF Next, vars
<1>3. QED
  BY <1>1, <1>2, PTL DEF FairSpec

(* A tool call that the judge of a chain denies never reaches the client of  *)
(* a stream, neither one of the model's nor one a policy before the judge    *)
(* made up, wherever the judge stands and whatever the other policies hold   *)
(* back, re-index or add (ToolCallJudgePolicy in MultiSerialPolicy).         *)
THEOREM DeniedStays == FairSpec => []DeniedNeverLeaves
BY ChainInvariance, ChainDenies, PTL

-----------------------------------------------------------------------------
(* The protocol of a stream, as what a client knows of it: whether the       *)
(* message has begun, has said why it stops and is over, and which blocks    *)
(* have started and stopped.                                                *)
Proto ==
  {q \in [begun : BOOLEAN, ended : BOOLEAN, over : BOOLEAN, started : SUBSET Nat, stopped : SUBSET Nat] :
     /\ q.stopped \subseteq q.started
     /\ ~q.begun => q.started = {} /\ ~q.ended
     /\ q.ended => q.started = q.stopped
     /\ q.over => q.ended}

Unsaid == [begun |-> FALSE, ended |-> FALSE, over |-> FALSE, started |-> {}, stopped |-> {}]

Opened(q, i) == [q EXCEPT !.started = @ \cup {i}]
Closed(q, i) == [q EXCEPT !.stopped = @ \cup {i}]
OpenIn(q)    == q.started \ q.stopped

(* What an event does to a stream that it may follow.                       *)
Goes(q, e, r) ==
  /\ DOMAIN e = {"type", "index", "kind", "text"}
  /\ \/ e.type = "message_start" /\ ~q.begun /\ r = [q EXCEPT !.begun = TRUE]
     \/ /\ e.type = "start" /\ q.begun /\ ~q.ended /\ e.index \in Nat
        /\ \A i \in q.started : i < e.index
        /\ r = Opened(q, e.index)
     \/ e.type = "delta" /\ e.index \in OpenIn(q) /\ r = q
     \/ e.type = "stop" /\ e.index \in OpenIn(q) /\ r = Closed(q, e.index)
     \/ e.type = "message_delta" /\ q.begun /\ ~q.ended /\ q.started = q.stopped /\ r = [q EXCEPT !.ended = TRUE]
     \/ e.type = "message_stop" /\ q.ended /\ ~q.over /\ r = [q EXCEPT !.over = TRUE]

(* A stretch of a stream.                                                   *)
Path(q, events, r, f) ==
  /\ f[0] = q /\ f[Len(events)] = r
  /\ \A i \in 0..Len(events) : f[i] \in Proto
  /\ \A i \in 1..Len(events) : Goes(f[i - 1], events[i], f[i])

Runs(q, events, r) ==
  /\ \E S : events \in Seq(S)
  /\ \E f : Path(q, events, r, f)

LEMMA GoesOn ==
  ASSUME NEW q \in Proto, NEW e, NEW r, Goes(q, e, r)
  PROVE  r \in Proto
<1>1. /\ q.begun \in BOOLEAN /\ q.ended \in BOOLEAN /\ q.over \in BOOLEAN
      /\ q.started \in SUBSET Nat /\ q.stopped \in SUBSET Nat
      /\ q = [begun |-> q.begun, ended |-> q.ended, over |-> q.over, started |-> q.started, stopped |-> q.stopped]
      /\ q.stopped \subseteq q.started
      /\ ~q.begun => q.started = {} /\ ~q.ended
      /\ q.ended => q.started = q.stopped
      /\ q.over => q.ended
  BY DEF Proto
<1>2. CASE e.type = "message_start" /\ ~q.begun /\ r = [q EXCEPT !.begun = TRUE]
  BY <1>1, <1>2 DEF Proto
<1>3. CASE e.type = "start" /\ q.begun /\ ~q.ended /\ e.index \in Nat /\ r = Opened(q, e.index)
  BY <1>1, <1>3 DEF Proto, Opened
<1>4. CASE e.type = "stop" /\ e.index \in OpenIn(q) /\ r = Closed(q, e.index)
  <2>1. ~q.ended
    BY <1>1, <1>4 DEF OpenIn
  <2>2. QED
    BY <1>1, <1>4, <2>1 DEF Proto, Closed, OpenIn
<1>5. CASE q.begun /\ q.started = q.stopped /\ r = [q EXCEPT !.ended = TRUE]
  BY <1>1, <1>5 DEF Proto
<1>6. CASE q.ended /\ r = [q EXCEPT !.over = TRUE]
  BY <1>1, <1>6 DEF Proto
<1>7. QED
  BY <1>2, <1>3, <1>4, <1>5, <1>6 DEF Goes

(* Two that agree in all are one.                                           *)
LEMMA SameProto ==
  ASSUME NEW q \in Proto, NEW r \in Proto, q.begun = r.begun, q.ended = r.ended, q.over = r.over,
         q.started = r.started, q.stopped = r.stopped
  PROVE  q = r
BY DEF Proto

LEMMA RunsNone ==
  ASSUME NEW q \in Proto
  PROVE  Runs(q, <<>>, q)
<1> DEFINE f == [i \in {0} |-> q]
           S == {}
<1>1. <<>> \in Seq(S) /\ Len(<<>>) = 0
  OBVIOUS
<1>2. Path(q, <<>>, q, f)
  BY <1>1 DEF Path
<1> HIDE DEF f, S
<1>3. QED
  BY <1>1, <1>2 DEF Runs

LEMMA RunsOne ==
  ASSUME NEW q \in Proto, NEW e, NEW r, Goes(q, e, r)
  PROVE  r \in Proto /\ Runs(q, <<e>>, r)
<1> DEFINE f == [i \in 0..1 |-> IF i = 0 THEN q ELSE r]
           S == {e}
           events == <<e>>
<1>0. r \in Proto
  BY GoesOn
<1>1. events \in Seq(S) /\ Len(events) = 1 /\ events[1] = e
  OBVIOUS
<1> HIDE DEF events
<1>2. Path(q, events, r, f)
  BY <1>0, <1>1 DEF Path
<1> HIDE DEF f, S
<1>3. Runs(q, events, r)
  BY <1>1, <1>2 DEF Runs
<1>4. QED
  BY <1>0, <1>3 DEF events

LEMMA RunsOn ==
  ASSUME NEW q, NEW s, NEW r, NEW t, NEW u, Runs(q, s, r), Runs(r, t, u)
  PROVE  Runs(q, s \o t, u)
<1>1. PICK S, f : s \in Seq(S) /\ Path(q, s, r, f)
  BY DEF Runs
<1>2. PICK T, g : t \in Seq(T) /\ Path(r, t, u, g)
  BY DEF Runs
<1>3. s \o t \in Seq(S \cup T)
  <2>1. s \in Seq(S \cup T) /\ t \in Seq(S \cup T)
    BY <1>1, <1>2
  <2>2. QED
    BY <2>1
<1> DEFINE m == Len(s)
           n == Len(t)
           h == [i \in 0..(m + n) |-> IF i <= m THEN f[i] ELSE g[i - m]]
<1>4. m \in Nat /\ n \in Nat /\ Len(s \o t) = m + n
      /\ \A i \in 1..(m + n) : (s \o t)[i] = IF i <= m THEN s[i] ELSE t[i - m]
  BY <1>1, <1>2
<1>5. f[0] = q /\ f[m] = r /\ g[0] = r /\ g[n] = u
  BY <1>1, <1>2 DEF Path
<1>6. /\ \A i \in 0..m : f[i] \in Proto
      /\ \A i \in 0..n : g[i] \in Proto
      /\ \A i \in 1..m : Goes(f[i - 1], s[i], f[i])
      /\ \A i \in 1..n : Goes(g[i - 1], t[i], g[i])
  BY <1>1, <1>2 DEF Path
<1> HIDE DEF m, n
<1>7. h[0] = q /\ h[m + n] = u
  BY <1>4, <1>5
<1>8. \A i \in 0..(m + n) : h[i] \in Proto
  BY <1>4, <1>6
<1>9. ASSUME NEW i \in 1..(m + n) PROVE Goes(h[i - 1], (s \o t)[i], h[i])
  <2>1. CASE i <= m
    <3>1. h[i - 1] = f[i - 1] /\ h[i] = f[i] /\ (s \o t)[i] = s[i] /\ i \in 1..m
      BY <1>4, <2>1
    <3>2. QED
      BY <1>6, <3>1
  <2>2. CASE i > m
    <3>1. h[i - 1] = g[i - m - 1]
      BY <1>4, <1>5, <2>2
    <3>2. h[i] = g[i - m] /\ (s \o t)[i] = t[i - m] /\ i - m \in 1..n
      BY <1>4, <2>2
    <3>3. QED
      BY <1>6, <3>1, <3>2
  <2>3. QED
    BY <1>4, <2>1, <2>2
<1> HIDE DEF h
<1>10. Path(q, s \o t, u, h)
  BY <1>4, <1>7, <1>8, <1>9 DEF Path
<1>11. QED
  BY <1>3, <1>10 DEF Runs

LEMMA RunsThree ==
  ASSUME NEW q \in Proto, NEW c, NEW d, NEW e, NEW r, NEW t, NEW u,
         Goes(q, c, r), Goes(r, d, t), Goes(t, e, u)
  PROVE  u \in Proto /\ Runs(q, <<c, d, e>>, u)
<1> DEFINE f == [i \in 0..3 |-> IF i = 0 THEN q ELSE IF i = 1 THEN r ELSE IF i = 2 THEN t ELSE u]
           S == {c, d, e}
           events == <<c, d, e>>
<1>1. r \in Proto /\ t \in Proto /\ u \in Proto
  BY GoesOn
<1>2. events \in Seq(S) /\ Len(events) = 3 /\ events[1] = c /\ events[2] = d /\ events[3] = e
  OBVIOUS
<1> HIDE DEF events
<1>3. Path(q, events, u, f)
  <2>1. f[0] = q /\ f[1] = r /\ f[2] = t /\ f[3] = u
    OBVIOUS
  <2> HIDE DEF f
  <2>2. ASSUME NEW i \in 1..3 PROVE Goes(f[i - 1], events[i], f[i])
    <3>1. i = 1 \/ i = 2 \/ i = 3
      OBVIOUS
    <3>2. QED
      BY <1>2, <2>1, <3>1
  <2>3. \A i \in 0..3 : f[i] \in Proto
    <3>1. \A i \in 0..3 : i = 0 \/ i = 1 \/ i = 2 \/ i = 3
      OBVIOUS
    <3>2. QED
      BY <1>1, <2>1, <3>1
  <2>4. QED
    BY <1>2, <2>1, <2>2, <2>3 DEF Path
<1> HIDE DEF f, S
<1>4. Runs(q, events, u)
  BY <1>2, <1>3 DEF Runs
<1>5. QED
  BY <1>1, <1>4 DEF events

(* What an event does to the stream rests on its type and its index.        *)
LEMMA GoesAlike ==
  ASSUME NEW q, NEW e, NEW r, Goes(q, e, r),
         NEW d, DOMAIN d = DOMAIN e, d.type = e.type, d.index = e.index
  PROVE  Goes(q, d, r)
BY DEF Goes

LEMMA ProtoIs ==
  ASSUME NEW q \in Proto
  PROVE  /\ q.begun \in BOOLEAN /\ q.ended \in BOOLEAN /\ q.over \in BOOLEAN
         /\ q.started \in SUBSET Nat /\ q.stopped \in SUBSET Nat
         /\ q = [begun |-> q.begun, ended |-> q.ended, over |-> q.over, started |-> q.started, stopped |-> q.stopped]
         /\ q.stopped \subseteq q.started
         /\ ~q.begun => q.started = {} /\ ~q.ended
         /\ q.ended => q.started = q.stopped
         /\ q.over => q.ended
         /\ OpenIn(q) # {} => q.begun /\ ~q.ended
BY DEF Proto, OpenIn

(* A delta of an open block leaves the stream where it is, a stop closes the *)
(* block.                                                                   *)
LEMMA DeltaGoes ==
  ASSUME NEW q, NEW i \in OpenIn(q), NEW kind, NEW text
  PROVE  Goes(q, Chain!Delta(i, kind, text), q) /\ Goes(q, Chain!Stop(i), Closed(q, i))
<1> DEFINE d == Chain!Delta(i, kind, text)
           e == Chain!Stop(i)
<1>1. /\ DOMAIN d = {"type", "index", "kind", "text"} /\ d.type = "delta" /\ d.index = i
      /\ DOMAIN e = {"type", "index", "kind", "text"} /\ e.type = "stop" /\ e.index = i
  BY DEF Chain!Delta, Chain!Stop, Chain!Event
<1> HIDE DEF d, e
<1>2. Goes(q, d, q) /\ Goes(q, e, Closed(q, i))
  BY <1>1 DEF Goes
<1>3. QED
  BY <1>2 DEF d, e

LEMMA BlockGoes ==
  ASSUME NEW q \in Proto, q.begun, ~q.ended, NEW i \in Nat, \A j \in q.started : j < i,
         NEW kind, NEW text
  PROVE  LET t == Closed(Opened(q, i), i) IN
         /\ t \in Proto
         /\ Runs(q, Chain!BlockEvents(i, kind, text), t)
         /\ t.begun = q.begun /\ t.ended = q.ended /\ t.over = q.over
         /\ t.started = q.started \cup {i} /\ t.stopped = q.stopped \cup {i}
<1> DEFINE r == Opened(q, i)
           t == Closed(r, i)
           c == Chain!Start(i, kind)
<1>1. /\ r.begun = q.begun /\ r.ended = q.ended /\ r.over = q.over
      /\ r.started = q.started \cup {i} /\ r.stopped = q.stopped
      /\ t.begun = r.begun /\ t.ended = r.ended /\ t.over = r.over
      /\ t.started = r.started /\ t.stopped = r.stopped \cup {i}
  <2>1. /\ DOMAIN q = {"begun", "ended", "over", "started", "stopped"}
        /\ DOMAIN r = {"begun", "ended", "over", "started", "stopped"}
    BY DEF Proto, Opened
  <2>2. QED
    BY <2>1 DEF Opened, Closed
<1>2. i \in OpenIn(r)
  <2>1. i \notin q.stopped
    BY ProtoIs
  <2>2. QED
    BY <1>1, <2>1 DEF OpenIn
<1>3. Goes(q, c, r)
  <2>1. DOMAIN c = {"type", "index", "kind", "text"} /\ c.type = "start" /\ c.index = i
    BY DEF Chain!Start, Chain!Event
  <2> HIDE DEF c, r
  <2>2. QED
    BY <2>1 DEF Goes, r
<1> HIDE DEF r
<1>4. Goes(r, Chain!Delta(i, kind, text), r) /\ Goes(r, Chain!Stop(i), t)
  BY <1>2, DeltaGoes
<1> HIDE DEF t, c
<1>5. t \in Proto /\ Runs(q, <<c, Chain!Delta(i, kind, text), Chain!Stop(i)>>, t)
  BY <1>3, <1>4, RunsThree
<1>6. QED
  BY <1>1, <1>5 DEF r, t, c, Chain!BlockEvents

LEMMA MovedIs ==
  ASSUME NEW q \in Proto, NEW i
  PROVE  /\ LET r == Opened(q, i) IN
            /\ r.begun = q.begun /\ r.ended = q.ended /\ r.over = q.over
            /\ r.started = q.started \cup {i} /\ r.stopped = q.stopped
         /\ LET r == Closed(q, i) IN
            /\ r.begun = q.begun /\ r.ended = q.ended /\ r.over = q.over
            /\ r.started = q.started /\ r.stopped = q.stopped \cup {i}
BY DEF Proto, Opened, Closed

(* A policy's state, when q is the stream that it has seen and r the one     *)
(* that it has made of it: a text modifier that adds text may hold the stop  *)
(* of one text block back, ...                                              *)
HoldsBack(p, s, q, r) ==
  \/ ~(s.held >= 0) /\ r = q
  \/ /\ s.held >= 0 /\ s.held \in q.stopped /\ ~s.emitted /\ Chain!Extra(p) # <<>> /\ ~q.ended
     /\ s.last \in q.started /\ (s.last = s.held \/ s.last \notin q.stopped)
     /\ r = [q EXCEPT !.stopped = @ \ {s.held}]

(* ... the judge re-indexes the blocks that it passes on, and has the tool    *)
(* calls that are open and those that wait for the end, ...                 *)
Reindexes(s, q, r) ==
  /\ r.begun = q.begun /\ r.ended = q.ended /\ r.over = q.over
  /\ s.next \in Nat /\ (~q.ended => \A i \in r.started : i < s.next)
  /\ DOMAIN s.open \subseteq OpenIn(q) /\ DOMAIN s.mapped \subseteq q.started
  /\ OpenIn(q) \subseteq DOMAIN s.open \cup DOMAIN s.mapped
  /\ DOMAIN s.open \cap DOMAIN s.mapped = {}
  /\ \A i \in DOMAIN s.mapped : /\ s.mapped[i] \in r.started
                                /\ s.mapped[i] \in r.stopped <=> i \in q.stopped
  /\ \A i, j \in DOMAIN s.mapped : s.mapped[i] = s.mapped[j] => i = j
  /\ OpenIn(r) \subseteq {s.mapped[i] : i \in DOMAIN s.mapped}
  /\ \E S : s.queued \in Seq(S)

(* ... a replacement holds text of a block that is open, what a policy makes *)
(* up is still to come, and the others pass the stream on.                  *)
Adds(p, s) == p = "caps" \/ (p = "welcome" /\ s.first)
Tracks(p, s, q, r) ==
  /\ DOMAIN s = DOMAIN Chain!FreshState
  /\ Adds(p, s) => HoldsBack(p, s, q, r)
  /\ p = "judge" => Reindexes(s, q, r)
  /\ p = "force" => r = Unsaid
  /\ p \in {"replace", "recase"} => (s.buffer # <<>> => s.at \in OpenIn(q))
  /\ ~Adds(p, s) /\ p \notin {"judge", "force"} => r = q

(* What a hook does to the stream that the policy makes.                    *)
Follows(p, h, q, r) == \E t \in Proto : Runs(r, h.out, t) /\ Tracks(p, h.state, q, t)

LEMMA ReleaseRuns ==
  ASSUME NEW p, NEW s, NEW q \in Proto, NEW r \in Proto, HoldsBack(p, s, q, r), s.held >= 0,
         NEW e, NEW u, Goes(q, e, u)
  PROVE  u \in Proto /\ Runs(r, Chain!Release(p, s, <<e>>).out, u)
<1> DEFINE d == Chain!Delta(s.last, "text", Chain!Extra(p))
           c == Chain!Stop(s.held)
<1>1. /\ s.held \in q.stopped /\ ~s.emitted /\ Chain!Extra(p) # <<>> /\ ~q.ended
      /\ s.last \in q.started /\ (s.last = s.held \/ s.last \notin q.stopped)
      /\ r = [q EXCEPT !.stopped = @ \ {s.held}]
  BY DEF HoldsBack
<1>2. /\ r.begun = q.begun /\ r.ended = q.ended /\ r.over = q.over
      /\ r.started = q.started /\ r.stopped = q.stopped \ {s.held}
  BY <1>1 DEF Proto
<1>3. s.last \in OpenIn(r) /\ s.held \in OpenIn(r)
  BY <1>1, <1>2, ProtoIs DEF OpenIn
<1>4. Closed(r, s.held) = q
  <2> DEFINE t == Closed(r, s.held)
  <2>1. /\ t.begun = q.begun /\ t.ended = q.ended /\ t.over = q.over
        /\ t.started = q.started /\ t.stopped = (q.stopped \ {s.held}) \cup {s.held}
    BY <1>2, MovedIs
  <2>2. t \in Proto
    BY <1>3, DeltaGoes, GoesOn
  <2> HIDE DEF t
  <2>3. t = q
    BY <1>1, <2>1, <2>2, SameProto
  <2>4. QED
    BY <2>3 DEF t
<1>5. Goes(r, d, r) /\ Goes(r, c, q)
  BY <1>3, <1>4, DeltaGoes
<1>6. Chain!Release(p, s, <<e>>).out = (<<d>> \o <<c>>) \o <<e>>
  BY <1>1, HookIs DEF Chain!Release
<1> HIDE DEF d, c
<1>7. Runs(r, <<d>>, r) /\ Runs(r, <<c>>, q) /\ Runs(q, <<e>>, u) /\ u \in Proto
  BY <1>5, RunsOne
<1>8. Runs(r, <<d>> \o <<c>>, q)
  BY <1>7, RunsOn
<1>9. QED
  BY <1>6, <1>7, <1>8, RunsOn

LEMMA ModifierFollows ==
  ASSUME NEW p, NEW s, NEW q \in Proto, NEW r \in Proto, Tracks(p, s, q, r), Adds(p, s),
         NEW e, NEW u, Goes(q, e, u)
  PROVE  Follows(p, Chain!TextModifier(p, s, e), u, r)
<1> DEFINE h == Chain!TextModifier(p, s, e)
<1>0. /\ DOMAIN s = DOMAIN Chain!FreshState /\ HoldsBack(p, s, q, r) /\ p \in {"caps", "welcome"} /\ u \in Proto
      /\ e.type \in {"message_start", "start", "delta", "stop", "message_delta", "message_stop"}
  BY GoesOn DEF Tracks, Adds, Goes
<1> SUFFICES Follows(p, h, u, r)
  OBVIOUS
<1> HIDE DEF h
<1>1. ASSUME NEW t \in Proto, Runs(r, h.out, t), DOMAIN h.state = DOMAIN s, h.state.first = s.first,
             HoldsBack(p, h.state, u, t)
      PROVE  Follows(p, h, u, r)
  <2>1. Tracks(p, h.state, u, t)
    BY <1>0, <1>1 DEF Tracks, Adds
  <2>2. QED
    BY <1>1, <2>1 DEF Follows
<1>2. ASSUME h = Chain!Release(p, s, <<e>>), s.held >= 0
      PROVE  Follows(p, h, u, r)
  <2>1. u \in Proto /\ Runs(r, h.out, u)
    BY <1>0, <1>2, ReleaseRuns
  <2>2. /\ DOMAIN h.state = DOMAIN s /\ h.state.first = s.first /\ h.state.held = -1
    <3> DEFINE z == [s EXCEPT !.emitted = @ \/ Chain!Extra(p) # <<>>, !.held = -1]
    <3>1. DOMAIN z = DOMAIN s /\ z.first = s.first /\ z.held = -1
      BY <1>0 DEF Chain!FreshState
    <3>2. h.state = z
      BY <1>2, HookIs DEF Chain!Release
    <3> HIDE DEF z
    <3>3. QED
      BY <3>1, <3>2
  <2>3. HoldsBack(p, h.state, u, u)
    BY <2>2 DEF HoldsBack
  <2>4. QED
    BY <1>1, <2>1, <2>2, <2>3
<1>3. CASE e.type = "start" /\ e.kind \in Chain!Tools /\ ~s.emitted /\ s.held >= 0 /\ Chain!Extra(p) # <<>>
  <2>1. h = Chain!Release(p, s, <<e>>)
    BY <1>3 DEF Chain!TextModifier, h
  <2>2. QED
    BY <1>2, <1>3, <2>1
<1>4. CASE e.type = "message_delta" /\ s.held >= 0
  <2>1. h = Chain!Release(p, s, <<e>>)
    BY <1>4 DEF Chain!TextModifier, h
  <2>2. QED
    BY <1>2, <1>4, <2>1
<1>5. CASE e.type = "start" /\ ~(e.kind \in Chain!Tools /\ ~s.emitted /\ s.held >= 0 /\ Chain!Extra(p) # <<>>)
  <2> DEFINE z == IF e.kind = "text" THEN [s EXCEPT !.last = e.index] ELSE s
  <2>1. h = Chain!Hook(z, <<e>>)
    BY <1>5 DEF Chain!TextModifier, h
  <2>2. /\ DOMAIN z = DOMAIN s /\ z.first = s.first /\ z.held = s.held /\ z.emitted = s.emitted
        /\ z.last = IF e.kind = "text" THEN e.index ELSE s.last
    BY <1>0 DEF Chain!FreshState
  <2> HIDE DEF z
  <2>3. h.state = z /\ h.out = <<e>>
    BY <2>1, HookIs
  <2>4. q.begun /\ ~q.ended /\ e.index \in Nat /\ (\A i \in q.started : i < e.index) /\ u = Opened(q, e.index)
        /\ DOMAIN e = {"type", "index", "kind", "text"}
    BY <1>5 DEF Goes
  <2>5. CASE ~(s.held >= 0)
    <3>1. r = q
      BY <1>0, <2>5 DEF HoldsBack
    <3>2. Runs(r, <<e>>, u) /\ HoldsBack(p, z, u, u)
      BY <1>0, <2>2, <2>5, <3>1, RunsOne DEF HoldsBack
    <3>3. QED
      BY <1>0, <1>1, <2>2, <2>3, <3>2
  <2>6. CASE s.held >= 0
    <3>1. /\ s.held \in q.stopped /\ ~s.emitted /\ Chain!Extra(p) # <<>> /\ ~q.ended
          /\ s.last \in q.started /\ (s.last = s.held \/ s.last \notin q.stopped)
          /\ r = [q EXCEPT !.stopped = @ \ {s.held}]
      BY <1>0, <2>6 DEF HoldsBack
    <3>2. /\ r.begun = q.begun /\ r.ended = q.ended /\ r.over = q.over
          /\ r.started = q.started /\ r.stopped = q.stopped \ {s.held}
      BY <3>1 DEF Proto
    <3> DEFINE t == Opened(r, e.index)
    <3>3. Goes(r, e, t)
      BY <1>5, <2>4, <3>2 DEF Goes
    <3>4. t \in Proto /\ Runs(r, <<e>>, t)
      BY <3>3, RunsOne
    <3>5. t = [u EXCEPT !.stopped = @ \ {z.held}]
      BY <2>2, <2>4, <3>1 DEF Opened, Proto
    <3>6. u.started = q.started \cup {e.index} /\ u.stopped = q.stopped /\ u.ended = q.ended
      BY <2>4, MovedIs
    <3>7. e.index \notin q.stopped
      BY <2>4, ProtoIs
    <3> HIDE DEF t
    <3>8. HoldsBack(p, z, u, t)
      BY <2>2, <2>6, <3>1, <3>5, <3>6, <3>7 DEF HoldsBack
    <3>9. QED
      BY <1>1, <2>2, <2>3, <3>4, <3>8
  <2>7. QED
    BY <2>5, <2>6
<1>6. CASE e.type = "stop" /\ e.index = s.last /\ Chain!Extra(p) # <<>> /\ ~s.emitted
  <2> DEFINE z == [s EXCEPT !.held = e.index]
             first == IF s.held >= 0 THEN <<Chain!Stop(s.held)>> ELSE <<>>
             i == e.index
  <2>1. h = Chain!Hook(z, first)
    BY <1>6 DEF Chain!TextModifier, Chain!HoldStop, h
  <2>2. DOMAIN z = DOMAIN s /\ z.first = s.first /\ z.held = i /\ z.emitted = s.emitted /\ z.last = i
    BY <1>0, <1>6 DEF Chain!FreshState
  <2> HIDE DEF z, first
  <2>3. h.state = z /\ h.out = first
    BY <2>1, HookIs
  <2>4. i \in OpenIn(q) /\ u = Closed(q, i)
    BY <1>6 DEF Goes
  <2>5. i \in Nat /\ i \in q.started /\ i \notin q.stopped /\ ~q.ended
    BY <2>4, ProtoIs DEF OpenIn
  <2>6. u.started = q.started /\ u.stopped = q.stopped \cup {i} /\ u.ended = q.ended
    BY <2>4, MovedIs
  <2>7. q = [u EXCEPT !.stopped = @ \ {i}]
    BY <2>4, <2>5 DEF Closed, Proto
  <2>8. HoldsBack(p, z, u, q)
    BY <1>6, <2>2, <2>5, <2>6, <2>7 DEF HoldsBack
  <2>9. Runs(r, first, q)
    <3>1. CASE ~(s.held >= 0)
      <4>1. r = q /\ first = <<>>
        BY <1>0, <3>1 DEF HoldsBack, first
      <4>2. QED
        BY <4>1, RunsNone
    <3>2. CASE s.held >= 0
      <4>1. /\ s.held \in q.stopped /\ r = [q EXCEPT !.stopped = @ \ {s.held}]
        BY <1>0, <3>2 DEF HoldsBack
      <4>2. /\ r.begun = q.begun /\ r.ended = q.ended /\ r.over = q.over
            /\ r.started = q.started /\ r.stopped = q.stopped \ {s.held}
        BY <4>1 DEF Proto
      <4>3. s.held \in OpenIn(r)
        BY <4>1, <4>2, ProtoIs DEF OpenIn
      <4> DEFINE t == Closed(r, s.held)
      <4>4. Goes(r, Chain!Stop(s.held), t)
        BY <4>3, DeltaGoes
      <4>5. t \in Proto /\ Runs(r, <<Chain!Stop(s.held)>>, t)
        BY <4>4, RunsOne
      <4>6. /\ t.begun = q.begun /\ t.ended = q.ended /\ t.over = q.over
            /\ t.started = q.started /\ t.stopped = (q.stopped \ {s.held}) \cup {s.held}
        BY <4>2, MovedIs
      <4> HIDE DEF t
      <4>7. t = q
        BY <4>1, <4>5, <4>6, SameProto
      <4>8. QED
        BY <3>2, <4>5, <4>7 DEF first
    <3>3. QED
      BY <3>1, <3>2
  <2>10. QED
    BY <1>1, <2>2, <2>3, <2>8, <2>9
<1>7. CASE /\ e.type # "start"
           /\ ~(e.type = "stop" /\ e.index = s.last /\ Chain!Extra(p) # <<>> /\ ~s.emitted)
           /\ ~(e.type = "message_delta" /\ s.held >= 0)
  <2> DEFINE d == IF e.type = "delta" /\ e.kind = "text" THEN Chain!Shout(p, e) ELSE e
             i == e.index
  <2>1. h = Chain!Hook(s, <<d>>)
    BY <1>7 DEF Chain!TextModifier, h
  <2>2. DOMAIN e = {"type", "index", "kind", "text"}
    BY DEF Goes
  <2>3. DOMAIN d = DOMAIN e /\ d.type = e.type /\ d.index = e.index
    BY <2>2 DEF Chain!Shout
  <2> HIDE DEF d
  <2>4. h.state = s /\ h.out = <<d>>
    BY <2>1, HookIs
  <2>5. Goes(q, d, u)
    BY <2>3, GoesAlike
  <2>6. CASE ~(s.held >= 0)
    <3>1. r = q
      BY <1>0, <2>6 DEF HoldsBack
    <3>2. Runs(r, <<d>>, u) /\ HoldsBack(p, s, u, u)
      BY <2>5, <2>6, <3>1, RunsOne DEF HoldsBack
    <3>3. QED
      BY <1>0, <1>1, <2>4, <3>2
  <2>7. CASE s.held >= 0
    <3>1. /\ s.held \in q.stopped /\ ~s.emitted /\ Chain!Extra(p) # <<>> /\ ~q.ended
          /\ s.last \in q.started /\ (s.last = s.held \/ s.last \notin q.stopped)
          /\ r = [q EXCEPT !.stopped = @ \ {s.held}]
      BY <1>0, <2>7 DEF HoldsBack
    <3>2. /\ r.begun = q.begun /\ r.ended = q.ended /\ r.over = q.over
          /\ r.started = q.started /\ r.stopped = q.stopped \ {s.held}
      BY <3>1 DEF Proto
    <3>3. s.held \in q.started /\ q.begun
      BY <3>1, ProtoIs
    <3>4. e.type = "delta" \/ (e.type = "stop" /\ i # s.last)
      BY <1>7, <2>7, <3>1, <3>3 DEF Goes
    <3>5. i \in OpenIn(q) /\ i \in OpenIn(r) /\ i # s.held
      BY <3>1, <3>2, <3>4 DEF Goes, OpenIn
    <3>6. CASE e.type = "delta"
      <4>1. u = q
        BY <3>6 DEF Goes
      <4>2. Goes(r, d, r)
        BY <2>2, <2>3, <3>5, <3>6 DEF Goes
      <4>3. QED
        BY <1>0, <1>1, <2>4, <4>1, <4>2, RunsOne
    <3>7. CASE e.type = "stop" /\ i # s.last
      <4> DEFINE t == Closed(r, i)
      <4>1. u = Closed(q, i)
        BY <3>7 DEF Goes
      <4>2. Goes(r, d, t)
        BY <2>2, <2>3, <3>5, <3>7 DEF Goes
      <4>3. t \in Proto /\ Runs(r, <<d>>, t)
        BY <4>2, RunsOne
      <4>4. t = [u EXCEPT !.stopped = @ \ {s.held}]
        <5>1. (q.stopped \ {s.held}) \cup {i} = (q.stopped \cup {i}) \ {s.held}
          BY <3>5
        <5>2. QED
          BY <3>1, <4>1, <5>1 DEF Closed, Proto
      <4>5. u.started = q.started /\ u.stopped = q.stopped \cup {i} /\ u.ended = q.ended
        BY <4>1, MovedIs
      <4> HIDE DEF t
      <4>6. HoldsBack(p, s, u, t)
        BY <2>7, <3>1, <3>7, <4>4, <4>5 DEF HoldsBack
      <4>7. QED
        BY <1>1, <2>4, <4>3, <4>6
    <3>8. QED
      BY <3>4, <3>6, <3>7
  <2>8. QED
    BY <2>6, <2>7
<1>8. QED
  BY <1>0, <1>3, <1>4, <1>5, <1>6, <1>7

LEMMA RunsTwo ==
  ASSUME NEW q \in Proto, NEW d, NEW e, NEW r, NEW t, Goes(q, d, r), Goes(r, e, t)
  PROVE  t \in Proto /\ Runs(q, <<d, e>>, t)
<1> DEFINE f == [i \in 0..2 |-> IF i = 0 THEN q ELSE IF i = 1 THEN r ELSE t]
           S == {d, e}
           events == <<d, e>>
<1>1. r \in Proto /\ t \in Proto
  BY GoesOn
<1>2. events \in Seq(S) /\ Len(events) = 2 /\ events[1] = d /\ events[2] = e
  OBVIOUS
<1> HIDE DEF events
<1>3. Path(q, events, t, f)
  <2>1. f[0] = q /\ f[1] = r /\ f[2] = t
    OBVIOUS
  <2> HIDE DEF f
  <2>2. ASSUME NEW i \in 1..2 PROVE Goes(f[i - 1], events[i], f[i])
    <3>1. i = 1 \/ i = 2
      OBVIOUS
    <3>2. QED
      BY <1>2, <2>1, <3>1
  <2>3. \A i \in 0..2 : f[i] \in Proto
    <3>1. \A i \in 0..2 : i = 0 \/ i = 1 \/ i = 2
      OBVIOUS
    <3>2. QED
      BY <1>1, <2>1, <3>1
  <2>4. QED
    BY <1>2, <2>1, <2>2, <2>3 DEF Path
<1> HIDE DEF f, S
<1>4. Runs(q, events, t)
  BY <1>2, <1>3 DEF Runs
<1>5. QED
  BY <1>1, <1>4 DEF events

LEMMA SimpleFollows ==
  ASSUME NEW s, DOMAIN s = DOMAIN Chain!FreshState, NEW q \in Proto, NEW e, NEW u, Goes(q, e, u)
  PROVE  DOMAIN Chain!Simple(s, e).state = DOMAIN s /\ Runs(q, Chain!Simple(s, e).out, u)
<1> DEFINE h == Chain!Simple(s, e)
<1> SUFFICES DOMAIN h.state = DOMAIN s /\ Runs(q, h.out, u)
  OBVIOUS
<1> HIDE DEF h
<1>1. Runs(q, <<e>>, u)
  BY RunsOne
<1>2. CASE e.type = "start" /\ (e.kind = "text" \/ e.kind \in Chain!Tools)
  <2> DEFINE t == [s EXCEPT !.texts = Chain!With(@, e.index, <<>>), !.open = Chain!With(@, e.index, e.kind)]
  <2>1. h = Chain!Hook(t, <<e>>)
    BY <1>2 DEF Chain!Simple, h
  <2>2. DOMAIN t = DOMAIN s
    OBVIOUS
  <2> HIDE DEF t
  <2>3. QED
    BY <1>1, <2>1, <2>2, HookIs
<1>3. CASE e.type = "delta" /\ e.kind # "other"
  <2> DEFINE t == [s EXCEPT !.texts[e.index] = @ \o e.text]
  <2>1. h = Chain!Hook(t, <<>>)
    BY <1>3 DEF Chain!Simple, h
  <2>2. DOMAIN t = DOMAIN s /\ u = q
    BY <1>3 DEF Goes
  <2> HIDE DEF t
  <2>3. QED
    BY <2>1, <2>2, RunsNone, HookIs
<1>4. CASE e.type = "stop" /\ e.index \in DOMAIN s.open
  <2> DEFINE rest == [s EXCEPT !.texts = Chain!Drop(@, e.index), !.open = Chain!Drop(@, e.index)]
             kind == s.open[e.index]
             text == s.texts[e.index]
  <2>1. DOMAIN rest = DOMAIN s /\ DOMAIN Chain!Injected(rest) = DOMAIN s
    BY DEF Chain!Injected
  <2>2. \E d : /\ h.out = <<Chain!Delta(e.index, kind, d), e>>
               /\ h.state = rest \/ h.state = Chain!Injected(rest)
    <3>1. IF kind = "text"
            THEN h = Chain!Hook(Chain!Injected(rest), <<Chain!Delta(e.index, kind, Chain!Linked(s, text)), e>>)
            ELSE h = Chain!Hook(rest, <<Chain!Delta(e.index, kind, text), e>>)
      BY <1>4 DEF Chain!Simple, h
    <3> HIDE DEF rest, kind, text
    <3>2. QED
      BY <3>1, HookIs
  <2> HIDE DEF rest, kind, text
  <2>3. e.index \in OpenIn(q)
    BY <1>4 DEF Goes
  <2>4. \A d : Runs(q, <<Chain!Delta(e.index, kind, d), e>>, u)
    BY <2>3, DeltaGoes, RunsTwo
  <2>5. QED
    BY <2>1, <2>2, <2>4
<1>5. CASE /\ ~(e.type = "start" /\ (e.kind = "text" \/ e.kind \in Chain!Tools))
           /\ ~(e.type = "delta" /\ e.kind # "other")
           /\ ~(e.type = "stop" /\ e.index \in DOMAIN s.open)
  <2>1. h = Chain!Hook(s, <<e>>)
    BY <1>5 DEF Chain!Simple, h
  <2>2. QED
    BY <1>1, <2>1, HookIs
<1>6. QED
  BY <1>2, <1>3, <1>4, <1>5

LEMMA ReplacingFollows ==
  ASSUME NEW p, NEW s, DOMAIN s = DOMAIN Chain!FreshState, NEW q \in Proto,
         s.buffer # <<>> => s.at \in OpenIn(q), NEW e, NEW u, Goes(q, e, u)
  PROVE  LET h == Chain!Replacing(p, s, e) IN
         /\ DOMAIN h.state = DOMAIN s /\ Runs(q, h.out, u)
         /\ h.state.buffer # <<>> => h.state.at \in OpenIn(u)
<1> DEFINE h == Chain!Replacing(p, s, e)
<1> SUFFICES /\ DOMAIN h.state = DOMAIN s /\ Runs(q, h.out, u)
             /\ h.state.buffer # <<>> => h.state.at \in OpenIn(u)
  OBVIOUS
<1> HIDE DEF h
<1>1. Runs(q, <<e>>, u) /\ DOMAIN e = {"type", "index", "kind", "text"}
  BY RunsOne DEF Goes
<1>2. CASE e.type \in {"message_delta", "stop"}
  <2> DEFINE z == [s EXCEPT !.buffer = <<>>]
             tail == IF s.buffer = <<>> THEN <<>> ELSE <<Chain!Delta(s.at, "text", s.buffer)>>
  <2>1. h = Chain!Hook(z, tail \o <<e>>)
    BY <1>2 DEF Chain!Replacing, Chain!Flush, h
  <2>2. DOMAIN z = DOMAIN s /\ z.buffer = <<>>
    BY DEF Chain!FreshState
  <2> HIDE DEF z
  <2>3. Runs(q, tail, q)
    <3>1. CASE s.buffer = <<>>
      BY <3>1, RunsNone
    <3>2. CASE s.buffer # <<>>
      <4>1. Goes(q, Chain!Delta(s.at, "text", s.buffer), q)
        BY <3>2, DeltaGoes
      <4>2. QED
        BY <3>2, <4>1, RunsOne
    <3>3. QED
      BY <3>1, <3>2
  <2> HIDE DEF tail
  <2>4. Runs(q, tail \o <<e>>, u)
    BY <1>1, <2>3, RunsOn
  <2>5. QED
    BY <2>1, <2>2, <2>4, HookIs
<1>3. CASE e.type = "delta" /\ e.kind = "text"
  <2> DEFINE replaced == Chain!Replaced(p, s.buffer \o e.text)
             shown == Len(replaced) - Chain!Kept(replaced)
             z == [s EXCEPT !.buffer = SubSeq(replaced, shown + 1, Len(replaced)), !.at = e.index]
             d == [e EXCEPT !.text = SubSeq(replaced, 1, shown)]
             told == IF shown = 0 THEN <<>> ELSE <<d>>
  <2>1. h = Chain!Hook(z, told)
    BY <1>3 DEF Chain!Replacing, h
  <2>2. DOMAIN z = DOMAIN s /\ z.at = e.index
    BY DEF Chain!FreshState
  <2>3. DOMAIN d = DOMAIN e /\ d.type = e.type /\ d.index = e.index
    BY <1>1
  <2>4. u = q /\ e.index \in OpenIn(q)
    BY <1>3 DEF Goes
  <2> HIDE DEF z, d
  <2>5. Runs(q, told, q)
    <3>1. Goes(q, d, q)
      BY <2>3, <2>4, GoesAlike
    <3>2. Runs(q, <<d>>, q) /\ Runs(q, <<>>, q)
      BY <3>1, RunsOne, RunsNone
    <3>3. QED
      BY <3>2
  <2> HIDE DEF told
  <2>6. QED
    BY <2>1, <2>2, <2>4, <2>5, HookIs
<1>4. CASE e.type \notin {"message_delta", "stop"} /\ ~(e.type = "delta" /\ e.kind = "text")
  <2>1. h = Chain!Hook(s, <<e>>)
    BY <1>4 DEF Chain!Replacing, h
  <2>2. OpenIn(q) \subseteq OpenIn(u)
    <3>1. \/ u = [q EXCEPT !.begun = TRUE] \/ u = [q EXCEPT !.over = TRUE] \/ u = q
          \/ u = Opened(q, e.index) /\ (\A i \in q.started : i < e.index) /\ e.index \in Nat
      BY <1>4 DEF Goes
    <3>2. CASE u = Opened(q, e.index)
      BY <3>2, MovedIs DEF OpenIn
    <3>3. CASE u = [q EXCEPT !.begun = TRUE] \/ u = [q EXCEPT !.over = TRUE] \/ u = q
      BY <3>3 DEF OpenIn, Proto
    <3>4. QED
      BY <3>1, <3>2, <3>3
  <2>3. QED
    BY <1>1, <2>1, <2>2, HookIs
<1>5. QED
  BY <1>2, <1>3, <1>4

(* Stretches one after the other.                                           *)
LEMMA FlattenedRuns ==
  ASSUME NEW S, NEW f \in Seq(Seq(S)), NEW g, \A i \in 0..Len(f) : g[i] \in Proto,
         \A i \in 1..Len(f) : Runs(g[i - 1], f[i], g[i])
  PROVE  Runs(g[0], Chain!FlattenSeq(f), g[Len(f)])
<1> DEFINE n == Len(f)
           w == CHOOSE w : w = [i \in 1..n |-> IF i = 1 THEN f[i] ELSE w[i - 1] \o f[i]]
           bad == {k \in 1..n : ~Runs(g[0], w[k], g[k])}
<1>1. n \in Nat /\ DOMAIN f = 1..n
  OBVIOUS
<1>2. CASE n = 0
  <2>1. f = <<>>
    BY <1>1, <1>2
  <2>2. Chain!FlattenSeq(f) = <<>>
    BY <2>1 DEF Chain!FlattenSeq
  <2>3. g[0] \in Proto
    BY <1>1
  <2>4. QED
    BY <1>2, <2>2, <2>3, RunsNone
<1>3. CASE n # 0
  <2>1. w = [i \in 1..n |-> IF i = 1 THEN f[i] ELSE w[i - 1] \o f[i]]
    <3>1. n \in 0..Len(f)
      BY <1>1
    <3>2. \E h : h = [i \in 1..n |-> IF i = 1 THEN f[i] ELSE h[i - 1] \o f[i]]
      BY <3>1, FlatteningExists
    <3>3. QED
      BY <3>2
  <2>2. Chain!FlattenSeq(f) = w[n]
    BY <1>3 DEF Chain!FlattenSeq
  <2> HIDE DEF w
  <2>3. w[1] = f[1] /\ \A k \in 2..n : w[k] = w[k - 1] \o f[k]
    <3>1. 1 \in 1..n /\ \A k \in 2..n : k \in 1..n /\ k # 1
      BY <1>1, <1>3
    <3>2. QED
      BY <2>1, <3>1
  <2>4. Runs(g[0], w[1], g[1])
    <3>1. 1 \in 1..Len(f) /\ 1 - 1 = 0
      BY <1>1, <1>3
    <3>2. Runs(g[1 - 1], f[1], g[1])
      BY <3>1
    <3>3. QED
      BY <2>3, <3>1, <3>2
  <2>5. ASSUME NEW k \in 2..n, Runs(g[0], w[k - 1], g[k - 1]) PROVE Runs(g[0], w[k], g[k])
    <3>1. k \in 1..Len(f)
      BY <1>1
    <3>2. Runs(g[k - 1], f[k], g[k])
      BY <3>1
    <3> DEFINE a == w[k - 1]
               b == f[k]
               t == g[k - 1]
    <3>3. w[k] = a \o b /\ Runs(g[0], a, t) /\ Runs(t, b, g[k])
      BY <2>3, <2>5, <3>2
    <3> HIDE DEF a, b, t
    <3>4. QED
      BY <3>3, RunsOn
  <2>6. bad = {}
    <3> SUFFICES ASSUME bad # {} PROVE FALSE
      OBVIOUS
    <3>0. bad \in SUBSET Nat
      BY <1>1
    <3>1. PICK k \in bad : \A d \in bad : k <= d
      BY LeastElement, <3>0
    <3>2. k # 1 /\ k \in 2..n /\ k - 1 \in 1..n /\ k - 1 \notin bad
      BY <3>1, <2>4, <1>1
    <3>3. QED
      BY <3>1, <3>2, <2>5
  <2>7. QED
    BY <1>1, <1>3, <2>2, <2>6
<1>4. QED
  BY <1>2, <1>3

(* The tool calls that waited for the end, each as a block of its own after  *)
(* the last one.                                                            *)
Filled(r, next, k) == [r EXCEPT !.started = @ \cup next..next + k - 1, !.stopped = @ \cup next..next + k - 1]

LEMMA QueueRuns ==
  ASSUME NEW r \in Proto, r.begun, ~r.ended, r.started = r.stopped, NEW next \in Nat, \A i \in r.started : i < next,
         NEW T, NEW queued \in Seq(T)
  PROVE  LET calls == Chain!FlattenSeq([i \in DOMAIN queued |-> Chain!BlockEvents(next + i - 1, queued[i], <<>>)])
         IN \E t \in Proto : /\ Runs(r, calls, t)
                             /\ t.begun /\ ~t.ended /\ t.over = r.over
                             /\ t.started = t.stopped /\ r.started \subseteq t.started
<1> DEFINE n == Len(queued)
           f == [i \in DOMAIN queued |-> Chain!BlockEvents(next + i - 1, queued[i], <<>>)]
           S == {Chain!Start(i, kind) : i \in Int, kind \in T} \cup {Chain!Delta(i, kind, <<>>) : i \in Int, kind \in T}
                \cup {Chain!Stop(i) : i \in Int}
           g == [k \in 0..n |-> Filled(r, next, k)]
<1>1. n \in Nat /\ DOMAIN queued = 1..n /\ \A i \in 1..n : queued[i] \in T
  OBVIOUS
<1>2. f \in Seq(Seq(S)) /\ Len(f) = n
  <2>1. ASSUME NEW i \in DOMAIN queued PROVE Chain!BlockEvents(next + i - 1, queued[i], <<>>) \in Seq(S)
    <3> DEFINE m == next + i - 1
    <3>1. m \in Int /\ queued[i] \in T
      BY <1>1
    <3> HIDE DEF m
    <3>2. Chain!Start(m, queued[i]) \in S /\ Chain!Delta(m, queued[i], <<>>) \in S /\ Chain!Stop(m) \in S
      BY <3>1
    <3> HIDE DEF S
    <3>3. Chain!BlockEvents(m, queued[i], <<>>) \in Seq(S)
      BY <3>2 DEF Chain!BlockEvents
    <3>4. QED
      BY <3>3 DEF m
  <2> HIDE DEF S
  <2>2. QED
    BY <1>1, <2>1
<1>3. \A i \in 1..n : f[i] = Chain!BlockEvents(next + i - 1, queued[i], <<>>)
  BY <1>1
<1> HIDE DEF f, S, n
<1>4. ASSUME NEW k \in 0..n
      PROVE  /\ g[k] \in Proto /\ g[k].begun /\ ~g[k].ended /\ g[k].over = r.over
             /\ g[k].started = r.started \cup next..next + k - 1 /\ g[k].stopped = r.started \cup next..next + k - 1
  <2>1. next..next + k - 1 \subseteq Nat
    BY <1>1
  <2>2. g[k] = Filled(r, next, k)
    OBVIOUS
  <2> HIDE DEF g
  <2>3. QED
    BY <2>1, <2>2 DEF Filled, Proto
<1>5. g[0] = r
  <2>1. 0 \in 0..n /\ next..next + 0 - 1 = {}
    BY <1>1
  <2>2. /\ g[0] \in Proto /\ g[0].begun /\ ~g[0].ended /\ g[0].over = r.over
        /\ g[0].started = r.started \cup next..next + 0 - 1 /\ g[0].stopped = r.started \cup next..next + 0 - 1
    BY <1>4, <2>1
  <2> HIDE DEF g
  <2>3. g[0].begun = r.begun /\ g[0].ended = r.ended
    BY <2>2 DEF Proto
  <2>4. QED
    BY <2>1, <2>2, <2>3, SameProto
<1> HIDE DEF g
<1>6. ASSUME NEW k \in 1..n PROVE Runs(g[k - 1], f[k], g[k])
  <2> DEFINE m == next + k - 1
             q == g[k - 1]
             t == Closed(Opened(q, m), m)
             kind == queued[k]
  <2>1. k - 1 \in 0..n /\ k \in 0..n /\ m \in Nat
    BY <1>1
  <2>2. /\ q \in Proto /\ q.begun /\ ~q.ended /\ q.over = r.over
        /\ q.started = r.started \cup next..next + (k - 1) - 1 /\ q.stopped = r.started \cup next..next + (k - 1) - 1
    BY <1>4, <2>1
  <2>3. \A j \in q.started : j < m
    <3>1. r.started \subseteq Nat /\ k \in Nat /\ k > 0
      BY <1>1, ProtoIs
    <3>2. \A j \in r.started : j < m
      BY <3>1
    <3>3. \A j \in next..next + (k - 1) - 1 : j < m
      BY <3>1
    <3> HIDE DEF q, m
    <3>4. QED
      BY <2>2, <3>2, <3>3
  <2>4. f[k] = Chain!BlockEvents(m, kind, <<>>)
    BY <1>3
  <2> HIDE DEF q, m, kind
  <2>5. /\ t \in Proto /\ Runs(q, Chain!BlockEvents(m, kind, <<>>), t)
        /\ t.begun = q.begun /\ t.ended = q.ended /\ t.over = q.over
        /\ t.started = q.started \cup {m} /\ t.stopped = q.stopped \cup {m}
    BY <2>1, <2>2, <2>3, BlockGoes
  <2> HIDE DEF t
  <2>6. /\ g[k] \in Proto /\ g[k].begun /\ ~g[k].ended /\ g[k].over = r.over
        /\ g[k].started = r.started \cup next..next + k - 1 /\ g[k].stopped = r.started \cup next..next + k - 1
    BY <1>4, <2>1
  <2>7. (next..next + (k - 1) - 1) \cup {m} = next..next + k - 1
    BY <1>1 DEF m
  <2>8. t = g[k]
    <3>1. g[k].begun = t.begun /\ g[k].ended = t.ended
      BY <2>2, <2>5, <2>6 DEF Proto
    <3>2. g[k].started = t.started /\ g[k].stopped = t.stopped /\ g[k].over = t.over
      BY <2>2, <2>5, <2>6, <2>7
    <3>3. QED
      BY <2>5, <2>6, <3>1, <3>2, SameProto
  <2>9. QED
    BY <2>4, <2>5, <2>8 DEF q
<1>7. Runs(g[0], Chain!FlattenSeq(f), g[n])
  <2>1. \A i \in 0..Len(f) : g[i] \in Proto
    BY <1>2, <1>4
  <2>2. \A i \in 1..Len(f) : Runs(g[i - 1], f[i], g[i])
    BY <1>2, <1>6
  <2>3. QED
    BY <1>2, <2>1, <2>2, FlattenedRuns
<1>8. /\ g[n] \in Proto /\ g[n].begun /\ ~g[n].ended /\ g[n].over = r.over
      /\ g[n].started = r.started \cup next..next + n - 1 /\ g[n].stopped = r.started \cup next..next + n - 1
  <2>1. n \in 0..n
    BY <1>1
  <2>2. QED
    BY <1>4, <2>1
<1>9. QED
  BY <1>5, <1>7, <1>8 DEF f

LEMMA OpensJudged ==
  ASSUME NEW s, DOMAIN s = DOMAIN Chain!FreshState, NEW q \in Proto, NEW r \in Proto, Reindexes(s, q, r),
         NEW e, e.type = "start", NEW u, Goes(q, e, u)
  PROVE  LET h == Chain!Judging(s, e) IN
         DOMAIN h.state = DOMAIN s /\ \E t \in Proto : Runs(r, h.out, t) /\ Reindexes(h.state, u, t)
<1> DEFINE h == Chain!Judging(s, e)
           i == e.index
<1> SUFFICES DOMAIN h.state = DOMAIN s /\ \E t \in Proto : Runs(r, h.out, t) /\ Reindexes(h.state, u, t)
  OBVIOUS
<1> HIDE DEF h
<1>1. /\ DOMAIN e = {"type", "index", "kind", "text"}
      /\ q.begun /\ ~q.ended /\ i \in Nat /\ (\A j \in q.started : j < i) /\ u = Opened(q, i)
  BY DEF Goes
<1>2. /\ u.begun = q.begun /\ u.ended = q.ended /\ u.over = q.over
      /\ u.started = q.started \cup {i} /\ u.stopped = q.stopped
  BY <1>1, MovedIs
<1>3. i \notin q.started /\ i \notin q.stopped
  BY <1>1, ProtoIs
<1>4. OpenIn(u) = OpenIn(q) \cup {i}
  BY <1>2, <1>3 DEF OpenIn
<1>5. /\ r.begun = q.begun /\ r.ended = q.ended /\ r.over = q.over
      /\ s.next \in Nat /\ (\A j \in r.started : j < s.next)
      /\ DOMAIN s.open \subseteq OpenIn(q) /\ DOMAIN s.mapped \subseteq q.started
      /\ OpenIn(q) \subseteq DOMAIN s.open \cup DOMAIN s.mapped
      /\ DOMAIN s.open \cap DOMAIN s.mapped = {}
      /\ (\A j \in DOMAIN s.mapped : s.mapped[j] \in r.started /\ (s.mapped[j] \in r.stopped <=> j \in q.stopped))
      /\ (\A j, k \in DOMAIN s.mapped : s.mapped[j] = s.mapped[k] => j = k)
      /\ OpenIn(r) \subseteq {s.mapped[j] : j \in DOMAIN s.mapped}
      /\ \E S : s.queued \in Seq(S)
  BY <1>1 DEF Reindexes
<1> HIDE DEF i
<1>6. CASE e.kind \in Chain!Tools
  <2> DEFINE z == [s EXCEPT !.open = Chain!With(@, i, e.kind)]
  <2>1. h = Chain!Hook(z, <<>>)
    BY <1>6 DEF Chain!Judging, h, i
  <2>2. /\ DOMAIN z = DOMAIN s /\ z.open = Chain!With(s.open, i, e.kind)
        /\ z.mapped = s.mapped /\ z.next = s.next /\ z.queued = s.queued
    BY DEF Chain!FreshState
  <2> HIDE DEF z
  <2>3. DOMAIN z.open = DOMAIN s.open \cup {i}
    BY <2>2 DEF Chain!With
  <2>4. Reindexes(z, u, r)
    BY <1>1, <1>2, <1>3, <1>4, <1>5, <2>2, <2>3 DEF Reindexes
  <2>5. QED
    BY <2>1, <2>2, <2>4, RunsNone, HookIs
<1>7. CASE e.kind \notin Chain!Tools
  <2> DEFINE m == s.next
             z == [s EXCEPT !.mapped = Chain!With(@, i, m), !.next = @ + 1]
             d == [e EXCEPT !.index = m]
             t == Opened(r, m)
  <2>1. h = Chain!Hook(z, <<d>>)
    BY <1>7 DEF Chain!Judging, h, i
  <2>2. /\ DOMAIN z = DOMAIN s /\ z.open = s.open /\ z.mapped = Chain!With(s.mapped, i, m)
        /\ z.next = m + 1 /\ z.queued = s.queued
    BY DEF Chain!FreshState
  <2>3. DOMAIN d = {"type", "index", "kind", "text"} /\ d.type = "start" /\ d.index = m
    BY <1>1
  <2> HIDE DEF z, d
  <2>4. Goes(r, d, t)
    BY <1>1, <1>5, <2>3 DEF Goes
  <2>5. t \in Proto /\ Runs(r, <<d>>, t)
    BY <2>4, RunsOne
  <2>6. /\ t.begun = r.begun /\ t.ended = r.ended /\ t.over = r.over
        /\ t.started = r.started \cup {m} /\ t.stopped = r.stopped
    BY MovedIs
  <2> HIDE DEF t
  <2>7. m \notin r.started /\ m \notin r.stopped /\ m \in Nat
    BY <1>5, ProtoIs
  <2>8. OpenIn(t) = OpenIn(r) \cup {m}
    BY <2>6, <2>7 DEF OpenIn
  <2>9. /\ DOMAIN z.mapped = DOMAIN s.mapped \cup {i} /\ z.mapped[i] = m
        /\ \A j \in DOMAIN s.mapped : z.mapped[j] = s.mapped[j]
    BY <1>3, <1>5, <2>2 DEF Chain!With
  <2>10. Reindexes(z, u, t)
    <3>1. z.next \in Nat /\ \A j \in t.started : j < z.next
      <4>1. r.started \subseteq Nat
        BY ProtoIs
      <4>2. QED
        BY <1>5, <2>2, <2>6, <2>7, <4>1
    <3>2. /\ DOMAIN z.open \subseteq OpenIn(u) /\ DOMAIN z.mapped \subseteq u.started
          /\ OpenIn(u) \subseteq DOMAIN z.open \cup DOMAIN z.mapped
          /\ DOMAIN z.open \cap DOMAIN z.mapped = {}
      <4>1. i \notin DOMAIN s.open
        BY <1>3, <1>5 DEF OpenIn
      <4>2. QED
        BY <1>2, <1>4, <1>5, <2>2, <2>9, <4>1
    <3>3. \A j \in DOMAIN z.mapped : z.mapped[j] \in t.started /\ (z.mapped[j] \in t.stopped <=> j \in u.stopped)
      BY <1>2, <1>3, <1>5, <2>6, <2>7, <2>9
    <3>4. \A j, k \in DOMAIN z.mapped : z.mapped[j] = z.mapped[k] => j = k
      BY <1>5, <2>7, <2>9
    <3>5. OpenIn(t) \subseteq {z.mapped[j] : j \in DOMAIN z.mapped}
      BY <1>5, <2>8, <2>9
    <3>6. \E S : z.queued \in Seq(S)
      BY <1>5, <2>2
    <3>7. t.begun = u.begun /\ t.ended = u.ended /\ t.over = u.over
      BY <1>2, <1>5, <2>6
    <3>8. QED
      BY <3>1, <3>2, <3>3, <3>4, <3>5, <3>6, <3>7 DEF Reindexes
  <2>11. QED
    BY <2>1, <2>2, <2>5, <2>10, HookIs
<1>8. QED
  BY <1>6, <1>7

LEMMA ClosesJudged ==
  ASSUME NEW s, DOMAIN s = DOMAIN Chain!FreshState, NEW q \in Proto, NEW r \in Proto, Reindexes(s, q, r),
         NEW e, e.type \in {"delta", "stop"}, NEW u, Goes(q, e, u)
  PROVE  LET h == Chain!Judging(s, e) IN
         DOMAIN h.state = DOMAIN s /\ \E t \in Proto : Runs(r, h.out, t) /\ Reindexes(h.state, u, t)
<1> DEFINE h == Chain!Judging(s, e)
           i == e.index
<1> SUFFICES DOMAIN h.state = DOMAIN s /\ \E t \in Proto : Runs(r, h.out, t) /\ Reindexes(h.state, u, t)
  OBVIOUS
<1> HIDE DEF h
<1>1. /\ DOMAIN e = {"type", "index", "kind", "text"} /\ i \in OpenIn(q)
      /\ e.type = "delta" => u = q
      /\ e.type = "stop" => u = Closed(q, i)
  BY DEF Goes
<1>2. i \in Nat /\ i \in q.started /\ i \notin q.stopped /\ q.begun /\ ~q.ended
  BY <1>1, ProtoIs DEF OpenIn
<1>3. /\ r.begun = q.begun /\ r.ended = q.ended /\ r.over = q.over
      /\ s.next \in Nat /\ (\A j \in r.started : j < s.next)
      /\ DOMAIN s.open \subseteq OpenIn(q) /\ DOMAIN s.mapped \subseteq q.started
      /\ OpenIn(q) \subseteq DOMAIN s.open \cup DOMAIN s.mapped
      /\ DOMAIN s.open \cap DOMAIN s.mapped = {}
      /\ (\A j \in DOMAIN s.mapped : s.mapped[j] \in r.started /\ (s.mapped[j] \in r.stopped <=> j \in q.stopped))
      /\ (\A j, k \in DOMAIN s.mapped : s.mapped[j] = s.mapped[k] => j = k)
      /\ OpenIn(r) \subseteq {s.mapped[j] : j \in DOMAIN s.mapped}
      /\ \E S : s.queued \in Seq(S)
  BY <1>2 DEF Reindexes
<1>4. e.type = "stop" => /\ u.begun = q.begun /\ u.ended = q.ended /\ u.over = q.over
                         /\ u.started = q.started /\ u.stopped = q.stopped \cup {i}
                         /\ OpenIn(u) = OpenIn(q) \ {i}
  <2>1. /\ Closed(q, i).begun = q.begun /\ Closed(q, i).ended = q.ended /\ Closed(q, i).over = q.over
        /\ Closed(q, i).started = q.started /\ Closed(q, i).stopped = q.stopped \cup {i}
    BY MovedIs
  <2> HIDE DEF i
  <2>2. QED
    BY <1>1, <2>1 DEF OpenIn
<1> HIDE DEF i
<1>5. CASE i \notin DOMAIN s.open
  <2> DEFINE m == s.mapped[i]
             d == [e EXCEPT !.index = m]
             t == IF e.type = "delta" THEN r ELSE Closed(r, m)
  <2>1. i \in DOMAIN s.mapped
    BY <1>1, <1>3, <1>5
  <2>2. h = Chain!Hook(s, <<d>>)
    <3>1. h = Chain!Hook(s, IF i \in DOMAIN s.mapped THEN <<d>> ELSE <<>>)
      BY <1>5 DEF Chain!Judging, h, i
    <3> HIDE DEF d
    <3>2. QED
      BY <2>1, <3>1
  <2>3. DOMAIN d = {"type", "index", "kind", "text"} /\ d.type = e.type /\ d.index = m
    BY <1>1
  <2> HIDE DEF d
  <2>4. m \in OpenIn(r)
    BY <1>2, <1>3, <2>1 DEF OpenIn
  <2>5. Goes(r, d, t)
    BY <2>3, <2>4 DEF Goes
  <2>6. t \in Proto /\ Runs(r, <<d>>, t)
    BY <2>5, RunsOne
  <2>7. Reindexes(s, u, t)
    <3>1. CASE e.type = "delta"
      BY <1>1, <3>1
    <3>2. CASE e.type = "stop"
      <4>1. /\ t.begun = r.begun /\ t.ended = r.ended /\ t.over = r.over
            /\ t.started = r.started /\ t.stopped = r.stopped \cup {m}
        BY <3>2, MovedIs
      <4> HIDE DEF t
      <4>2. OpenIn(t) \subseteq OpenIn(r)
        BY <4>1 DEF OpenIn
      <4>3. DOMAIN s.open \subseteq OpenIn(u) /\ OpenIn(u) \subseteq DOMAIN s.open \cup DOMAIN s.mapped
        BY <1>3, <1>4, <1>5, <3>2
      <4>4. \A j \in DOMAIN s.mapped : s.mapped[j] \in t.started /\ (s.mapped[j] \in t.stopped <=> j \in u.stopped)
        <5> TAKE j \in DOMAIN s.mapped
        <5>1. s.mapped[j] = m <=> j = i
          BY <1>3, <2>1
        <5>2. QED
          BY <1>3, <1>4, <3>2, <4>1, <5>1
      <4>5. QED
        BY <1>3, <1>4, <3>2, <4>1, <4>2, <4>3, <4>4 DEF Reindexes
    <3>3. QED
      BY <3>1, <3>2
  <2>8. QED
    BY <2>2, <2>6, <2>7, HookIs
<1>6. CASE i \in DOMAIN s.open /\ e.type = "delta"
  <2>1. h = Chain!Hook(s, <<>>)
    BY <1>6 DEF Chain!Judging, h, i
  <2>2. QED
    BY <1>1, <1>6, <2>1, RunsNone, HookIs
<1>7. CASE i \in DOMAIN s.open /\ e.type = "stop"
  <2> DEFINE name == s.open[i]
             rest == [s EXCEPT !.open = Chain!Drop(@, i)]
             noted == [rest EXCEPT !.next = @ + 1]
             queues == [rest EXCEPT !.queued = Append(@, name)]
  <2>1. IF Chain!Judged(name) = "denied"
          THEN h = Chain!Hook(noted, Chain!BlockEvents(s.next, "text", Chain!Notice))
          ELSE h = Chain!Hook(queues, <<>>)
    BY <1>7 DEF Chain!Judging, h, i
  <2>2. /\ DOMAIN rest = DOMAIN s /\ rest.open = Chain!Drop(s.open, i)
        /\ rest.mapped = s.mapped /\ rest.next = s.next /\ rest.queued = s.queued
    BY DEF Chain!FreshState
  <2> HIDE DEF rest
  <2>3. /\ DOMAIN noted = DOMAIN s /\ noted.open = rest.open
        /\ noted.mapped = rest.mapped /\ noted.next = rest.next + 1 /\ noted.queued = rest.queued
        /\ DOMAIN queues = DOMAIN s /\ queues.open = rest.open
        /\ queues.mapped = rest.mapped /\ queues.next = rest.next /\ queues.queued = Append(rest.queued, name)
    BY <2>2 DEF Chain!FreshState
  <2>4. DOMAIN rest.open = DOMAIN s.open \ {i} /\ i \notin DOMAIN s.mapped
    BY <1>3, <1>7, <2>2 DEF Chain!Drop
  <2> HIDE DEF noted, queues, name
  <2>5. /\ DOMAIN rest.open \subseteq OpenIn(u) /\ DOMAIN s.mapped \subseteq u.started
        /\ OpenIn(u) \subseteq DOMAIN rest.open \cup DOMAIN s.mapped
        /\ DOMAIN rest.open \cap DOMAIN s.mapped = {}
        /\ \A j \in DOMAIN s.mapped : s.mapped[j] \in r.started /\ (s.mapped[j] \in r.stopped <=> j \in u.stopped)
    BY <1>3, <1>4, <1>7, <2>4
  <2>6. CASE Chain!Judged(name) = "denied"
    <3> DEFINE m == s.next
               t == Closed(Opened(r, m), m)
    <3>1. h = Chain!Hook(noted, Chain!BlockEvents(m, "text", Chain!Notice))
      BY <2>1, <2>6
    <3>2. /\ t \in Proto
          /\ Runs(r, Chain!BlockEvents(m, "text", Chain!Notice), t)
          /\ t.begun = r.begun /\ t.ended = r.ended /\ t.over = r.over
          /\ t.started = r.started \cup {m} /\ t.stopped = r.stopped \cup {m}
      BY <1>2, <1>3, BlockGoes
    <3> HIDE DEF t
    <3>3. m \notin r.started /\ r.started \subseteq Nat /\ m \in Nat
      BY <1>3, ProtoIs
    <3>4. OpenIn(t) \subseteq OpenIn(r)
      BY <3>2 DEF OpenIn
    <3>5. noted.next \in Nat /\ \A j \in t.started : j < noted.next
      BY <1>3, <2>2, <2>3, <3>2, <3>3
    <3>6. \A j \in DOMAIN s.mapped : s.mapped[j] \in t.started /\ (s.mapped[j] \in t.stopped <=> j \in u.stopped)
      BY <2>5, <3>2, <3>3
    <3>7. Reindexes(noted, u, t)
      BY <1>3, <1>4, <1>7, <2>2, <2>3, <2>5, <3>2, <3>4, <3>5, <3>6 DEF Reindexes
    <3>8. QED
      BY <2>3, <3>1, <3>2, <3>7, HookIs
  <2>7. CASE Chain!Judged(name) # "denied"
    <3>1. h = Chain!Hook(queues, <<>>)
      BY <2>1, <2>7
    <3>2. \E S : queues.queued \in Seq(S)
      <4>1. PICK S : s.queued \in Seq(S)
        BY <1>3
      <4>2. s.queued \in Seq(S \cup {name}) /\ name \in S \cup {name}
        BY <4>1
      <4>3. Append(s.queued, name) \in Seq(S \cup {name})
        BY <4>2
      <4>4. QED
        BY <2>2, <2>3, <4>3
    <3>3. Reindexes(queues, u, r)
      BY <1>3, <1>4, <1>7, <2>2, <2>3, <2>5, <3>2 DEF Reindexes
    <3>4. QED
      BY <2>3, <3>1, <3>3, RunsNone, HookIs
  <2>8. QED
    BY <2>6, <2>7
<1>8. QED
  BY <1>5, <1>6, <1>7

LEMMA JudgingFollows ==
  ASSUME NEW s, DOMAIN s = DOMAIN Chain!FreshState, NEW q \in Proto, NEW r \in Proto, Reindexes(s, q, r),
         NEW e, NEW u, Goes(q, e, u)
  PROVE  LET h == Chain!Judging(s, e) IN
         DOMAIN h.state = DOMAIN s /\ \E t \in Proto : Runs(r, h.out, t) /\ Reindexes(h.state, u, t)
<1> DEFINE h == Chain!Judging(s, e)
<1> SUFFICES DOMAIN h.state = DOMAIN s /\ \E t \in Proto : Runs(r, h.out, t) /\ Reindexes(h.state, u, t)
  OBVIOUS
<1>1. CASE e.type = "start"
  BY <1>1, OpensJudged
<1>2. CASE e.type \in {"delta", "stop"}
  BY <1>2, ClosesJudged
<1> HIDE DEF h
<1>3. r.begun = q.begun /\ r.ended = q.ended /\ r.over = q.over
  BY DEF Reindexes
<1>4. CASE e.type = "message_delta"
  <2> DEFINE calls == Chain!FlattenSeq([i \in DOMAIN s.queued |-> Chain!BlockEvents(s.next + i - 1, s.queued[i], <<>>)])
             last == Chain!MessageDelta(Chain!Corrected(e.kind, s.queued))
  <2>1. h = Chain!Hook(s, calls \o <<last>>)
    BY <1>4 DEF Chain!Judging, h
  <2>2. q.begun /\ ~q.ended /\ q.started = q.stopped /\ u = [q EXCEPT !.ended = TRUE]
    BY <1>4 DEF Goes
  <2>3. r.started = r.stopped
    <3>1. OpenIn(r) = {}
      <4> SUFFICES ASSUME NEW j \in OpenIn(r) PROVE FALSE
        OBVIOUS
      <4>1. PICK i \in DOMAIN s.mapped : j = s.mapped[i]
        BY DEF Reindexes
      <4>2. j \in r.stopped
        BY <2>2, <4>1 DEF Reindexes
      <4>3. QED
        BY <4>2 DEF OpenIn
    <3>2. QED
      BY <3>1, ProtoIs DEF OpenIn
  <2>4. PICK T : s.queued \in Seq(T)
    BY DEF Reindexes
  <2>5. s.next \in Nat /\ \A i \in r.started : i < s.next
    BY <2>2 DEF Reindexes
  <2>6. PICK v \in Proto : /\ Runs(r, calls, v) /\ v.begun /\ ~v.ended /\ v.over = r.over
                           /\ v.started = v.stopped /\ r.started \subseteq v.started
    <3> DEFINE queued == s.queued
               next == s.next
    <3>1. r.begun /\ ~r.ended
      BY <1>3, <2>2
    <3>2. queued \in Seq(T) /\ next \in Nat /\ \A i \in r.started : i < next
      BY <2>4, <2>5
    <3>3. calls = Chain!FlattenSeq([i \in DOMAIN queued |-> Chain!BlockEvents(next + i - 1, queued[i], <<>>)])
      OBVIOUS
    <3> HIDE DEF queued, next, calls
    <3>4. QED
      BY <2>3, <3>1, <3>2, <3>3, QueueRuns
  <2> HIDE DEF calls
  <2> DEFINE t == [v EXCEPT !.ended = TRUE]
  <2>7. Goes(v, last, t)
    <3>1. DOMAIN last = {"type", "index", "kind", "text"} /\ last.type = "message_delta"
      BY DEF Chain!MessageDelta, Chain!Event
    <3> HIDE DEF last
    <3>2. QED
      BY <2>6, <3>1 DEF Goes
  <2> HIDE DEF last
  <2>8. t \in Proto /\ Runs(v, <<last>>, t)
    BY <2>6, <2>7, RunsOne
  <2>9. Runs(r, calls \o <<last>>, t)
    BY <2>6, <2>8, RunsOn
  <2>10. /\ t.begun = v.begun /\ t.ended /\ t.over = v.over /\ t.started = v.started /\ t.stopped = v.stopped
         /\ u.begun = q.begun /\ u.ended /\ u.over = q.over /\ u.started = q.started /\ u.stopped = q.stopped
    BY <2>2 DEF Proto
  <2>11. OpenIn(t) = {} /\ OpenIn(u) = {} /\ OpenIn(q) = {}
    BY <2>2, <2>6, <2>10 DEF OpenIn
  <2>12. t.begun = u.begun /\ t.ended = u.ended
    BY <1>3, <2>2, <2>6, <2>10, <2>8, GoesOn DEF Proto
  <2> HIDE DEF t
  <2>13. \A i \in DOMAIN s.mapped : s.mapped[i] \in t.started /\ (s.mapped[i] \in t.stopped <=> i \in u.stopped)
    BY <2>2, <2>3, <2>6, <2>10 DEF Reindexes
  <2>14. Reindexes(s, u, t)
    BY <1>3, <2>6, <2>10, <2>11, <2>12, <2>13 DEF Reindexes
  <2>15. QED
    BY <2>1, <2>8, <2>9, <2>14, HookIs
<1>5. CASE e.type \in {"message_start", "message_stop"}
  <2>1. h = Chain!Hook(s, <<e>>)
    BY <1>5 DEF Chain!Judging, h
  <2>2. DOMAIN e = {"type", "index", "kind", "text"}
    BY DEF Goes
  <2>3. CASE e.type = "message_start"
    <3> DEFINE t == [r EXCEPT !.begun = TRUE]
    <3>1. ~q.begun /\ u = [q EXCEPT !.begun = TRUE]
      BY <2>3 DEF Goes
    <3>2. Goes(r, e, t)
      BY <1>3, <2>2, <2>3, <3>1 DEF Goes
    <3>3. t \in Proto /\ Runs(r, <<e>>, t)
      BY <3>2, RunsOne
    <3>4. /\ t.begun /\ t.ended = r.ended /\ t.over = r.over /\ t.started = r.started /\ t.stopped = r.stopped
          /\ u.begun /\ u.ended = q.ended /\ u.over = q.over /\ u.started = q.started /\ u.stopped = q.stopped
      BY <3>1 DEF Proto
    <3>5. t.begun = u.begun
      BY <3>1 DEF Proto
    <3> HIDE DEF t
    <3>6. OpenIn(t) = OpenIn(r) /\ OpenIn(u) = OpenIn(q)
      BY <3>4 DEF OpenIn
    <3>7. Reindexes(s, u, t)
      BY <3>4, <3>5, <3>6 DEF Reindexes
    <3>8. QED
      BY <2>1, <3>3, <3>7, HookIs
  <2>4. CASE e.type = "message_stop"
    <3> DEFINE t == [r EXCEPT !.over = TRUE]
    <3>1. q.ended /\ ~q.over /\ u = [q EXCEPT !.over = TRUE]
      BY <2>4 DEF Goes
    <3>2. Goes(r, e, t)
      BY <1>3, <2>2, <2>4, <3>1 DEF Goes
    <3>3. t \in Proto /\ Runs(r, <<e>>, t)
      BY <3>2, RunsOne
    <3>4. /\ t.begun = r.begun /\ t.ended = r.ended /\ t.started = r.started /\ t.stopped = r.stopped
          /\ u.begun = q.begun /\ u.ended = q.ended /\ u.started = q.started /\ u.stopped = q.stopped
      BY <3>1 DEF Proto
    <3>5. t.over = u.over
      BY <3>1 DEF Proto
    <3> HIDE DEF t
    <3>6. OpenIn(t) = OpenIn(r) /\ OpenIn(u) = OpenIn(q)
      BY <3>4 DEF OpenIn
    <3>7. Reindexes(s, u, t)
      BY <3>4, <3>5, <3>6 DEF Reindexes
    <3>8. QED
      BY <2>1, <3>3, <3>7, HookIs
  <2>5. QED
    BY <1>5, <2>3, <2>4
<1>6. QED
  BY <1>1, <1>2, <1>4, <1>5 DEF h, Goes

(* The hooks of a policy keep it in step with the stream.                   *)
LEMMA EventFollowed ==
  ASSUME NEW p, NEW s, NEW q \in Proto, NEW r \in Proto, Tracks(p, s, q, r), NEW e, NEW u, Goes(q, e, u)
  PROVE  Follows(p, Chain!OnEvent(p, s, e), u, r)
<1> DEFINE h == Chain!OnEvent(p, s, e)
<1> SUFFICES Follows(p, h, u, r)
  OBVIOUS
<1>0. DOMAIN s = DOMAIN Chain!FreshState /\ u \in Proto /\ Runs(q, <<e>>, u)
  BY GoesOn, RunsOne DEF Tracks
<1>1. CASE Adds(p, s)
  <2>1. h = Chain!TextModifier(p, s, e)
    BY <1>1 DEF Chain!OnEvent, Adds
  <2> HIDE DEF h
  <2>2. QED
    BY <1>1, <2>1, ModifierFollows
<1>2. CASE p = "judge"
  <2>1. h = Chain!Judging(s, e)
    BY <1>2 DEF Chain!OnEvent
  <2> HIDE DEF h
  <2>2. Reindexes(s, q, r)
    BY <1>2 DEF Tracks
  <2>3. DOMAIN h.state = DOMAIN s /\ \E t \in Proto : Runs(r, h.out, t) /\ Reindexes(h.state, u, t)
    BY <1>0, <2>1, <2>2, JudgingFollows
  <2>4. \A t : Reindexes(h.state, u, t) => Tracks(p, h.state, u, t)
    BY <1>0, <1>2, <2>3 DEF Tracks, Adds
  <2>5. QED
    BY <2>3, <2>4 DEF Follows
<1>3. CASE p = "force"
  <2>1. h = Chain!Hook(s, <<>>)
    BY <1>3 DEF Chain!OnEvent
  <2> HIDE DEF h
  <2>2. r = Unsaid
    BY <1>3 DEF Tracks
  <2>3. Tracks(p, s, u, r)
    BY <1>0, <1>3, <2>2 DEF Tracks, Adds
  <2>4. QED
    BY <2>1, <2>3, RunsNone, HookIs DEF Follows
<1>4. CASE p \in {"replace", "recase"}
  <2>1. h = Chain!Replacing(p, s, e)
    BY <1>4 DEF Chain!OnEvent
  <2> HIDE DEF h
  <2>2. (s.buffer # <<>> => s.at \in OpenIn(q)) /\ r = q
    BY <1>4 DEF Tracks, Adds
  <2>3. /\ DOMAIN h.state = DOMAIN s /\ Runs(q, h.out, u)
        /\ h.state.buffer # <<>> => h.state.at \in OpenIn(u)
    <3> DEFINE z == Chain!Replacing(p, s, e)
    <3>1. /\ DOMAIN z.state = DOMAIN s /\ Runs(q, z.out, u)
          /\ z.state.buffer # <<>> => z.state.at \in OpenIn(u)
      BY <1>0, <2>2, ReplacingFollows
    <3>2. h = z
      BY <2>1
    <3> HIDE DEF z
    <3>3. QED
      BY <3>1, <3>2
  <2>4. Tracks(p, h.state, u, u)
    BY <1>0, <1>4, <2>3 DEF Tracks, Adds
  <2>5. QED
    BY <1>0, <2>2, <2>3, <2>4 DEF Follows
<1>5. CASE ~Adds(p, s) /\ p \notin {"judge", "force", "replace", "recase"}
  <2>1. r = q
    BY <1>5 DEF Tracks
  <2>2. DOMAIN h.state = DOMAIN s /\ Runs(q, h.out, u) /\ (h.state = s \/ p = "link")
    <3>1. CASE p = "link"
      <4>1. h = Chain!Simple(s, e)
        BY <1>5, <3>1 DEF Chain!OnEvent, Adds
      <4> HIDE DEF h
      <4>2. QED
        BY <1>0, <3>1, <4>1, SimpleFollows
    <3>2. CASE p # "link"
      <4>1. h = Chain!Hook(s, <<e>>)
        BY <1>5, <3>2 DEF Chain!OnEvent, Adds
      <4> HIDE DEF h
      <4>2. QED
        BY <1>0, <4>1, HookIs
    <3>3. QED
      BY <3>1, <3>2
  <2> HIDE DEF h
  <2>3. Tracks(p, h.state, u, u)
    BY <1>0, <1>5, <2>2 DEF Tracks, Adds
  <2>4. QED
    BY <1>0, <2>1, <2>2, <2>3 DEF Follows
<1>6. QED
  BY <1>1, <1>2, <1>3, <1>4, <1>5 DEF Adds

(* When the stream is over, only a policy that makes a response up has       *)
(* something to say, and says all of it.                                    *)
LEMMA CompletionFollowed ==
  ASSUME NEW p, NEW s, NEW q \in Proto, NEW r \in Proto, Tracks(p, s, q, r), q.over
  PROVE  \E t \in Proto : t.over /\ Runs(r, Chain!OnComplete(p, s).out, t)
<1> DEFINE h == Chain!OnComplete(p, s)
<1>0. q.ended /\ q.started = q.stopped /\ OpenIn(q) = {}
  BY ProtoIs DEF OpenIn
<1>1. CASE p = "force"
  <2>1. h.out = Chain!FabricatedEvents
    BY <1>1, HookIs DEF Chain!OnComplete
  <2>2. r = Unsaid
    BY <1>1 DEF Tracks
  <2> DEFINE first == Chain!Plain("message_start")
             told == Chain!MessageDelta("tool_use")
             last == Chain!Plain("message_stop")
             a == [r EXCEPT !.begun = TRUE]
             b == Closed(Opened(a, 0), 0)
             c == [b EXCEPT !.ended = TRUE]
             d == [c EXCEPT !.over = TRUE]
  <2>3. /\ DOMAIN first = {"type", "index", "kind", "text"} /\ first.type = "message_start"
        /\ DOMAIN told = {"type", "index", "kind", "text"} /\ told.type = "message_delta"
        /\ DOMAIN last = {"type", "index", "kind", "text"} /\ last.type = "message_stop"
    BY DEF Chain!Plain, Chain!MessageDelta, Chain!Event
  <2>4. Goes(r, first, a)
    BY <2>2, <2>3 DEF Goes, Unsaid
  <2>5. a \in Proto /\ Runs(r, <<first>>, a)
    BY <2>4, RunsOne
  <2>6. a.begun /\ ~a.ended /\ ~a.over /\ a.started = {} /\ a.stopped = {}
    BY <2>2 DEF Unsaid
  <2> HIDE DEF a, first
  <2>7. /\ b \in Proto /\ Runs(a, Chain!BlockEvents(0, "forced", <<>>), b)
        /\ b.begun = a.begun /\ b.ended = a.ended /\ b.over = a.over
        /\ b.started = a.started \cup {0} /\ b.stopped = a.stopped \cup {0}
    BY <2>5, <2>6, BlockGoes
  <2> HIDE DEF b, told, last
  <2>8. Goes(b, told, c)
    BY <2>3, <2>6, <2>7 DEF Goes
  <2>9. c \in Proto /\ c.ended /\ ~c.over
    BY <2>6, <2>7, <2>8, GoesOn DEF Proto
  <2> HIDE DEF c
  <2>10. Goes(c, last, d)
    BY <2>3, <2>9 DEF Goes
  <2>11. d \in Proto /\ d.over
    BY <2>9, <2>10, GoesOn DEF Proto
  <2> HIDE DEF d
  <2>12. Runs(b, <<told, last>>, d)
    BY <2>7, <2>8, <2>10, RunsTwo
  <2>13. Runs(r, <<first>> \o Chain!BlockEvents(0, "forced", <<>>), b)
    BY <2>5, <2>7, RunsOn
  <2>14. Runs(r, (<<first>> \o Chain!BlockEvents(0, "forced", <<>>)) \o <<told, last>>, d)
    BY <2>12, <2>13, RunsOn
  <2>15. Chain!FabricatedEvents = (<<first>> \o Chain!BlockEvents(0, "forced", <<>>)) \o <<told, last>>
    BY DEF Chain!FabricatedEvents, first, told, last
  <2>16. QED
    BY <2>1, <2>11, <2>14, <2>15
<1>2. CASE p # "force"
  <2>1. h.out = <<>>
    <3>1. CASE p = "welcome" /\ s.first
      <4>1. ~(s.held >= 0)
        BY <1>0, <3>1 DEF Tracks, Adds, HoldsBack
      <4>2. h = Chain!Hook(s, <<>>)
        BY <3>1, <4>1 DEF Chain!OnComplete
      <4>3. QED
        BY <4>2, HookIs
    <3>2. CASE p \in {"replace", "recase"}
      <4>1. s.buffer = <<>>
        BY <1>0, <3>2 DEF Tracks
      <4>2. h = Chain!Hook([s EXCEPT !.buffer = <<>>], <<>> \o <<>>)
        BY <3>2, <4>1 DEF Chain!OnComplete, Chain!Flush
      <4>3. <<>> \o <<>> = <<>>
        OBVIOUS
      <4>4. QED
        BY <4>2, <4>3, HookIs
    <3>3. CASE ~(p = "welcome" /\ s.first) /\ p \notin {"replace", "recase"}
      BY <1>2, <3>3, HookIs DEF Chain!OnComplete
    <3>4. QED
      BY <3>1, <3>2, <3>3
  <2> HIDE DEF h
  <2>2. r.over
    <3>1. CASE Adds(p, s)
      BY <1>0, <3>1 DEF Tracks, HoldsBack
    <3>2. CASE ~Adds(p, s)
      BY <1>2, <3>2 DEF Tracks, Reindexes
    <3>3. QED
      BY <3>1, <3>2
  <2>3. QED
    BY <2>1, <2>2, RunsNone DEF h
<1>3. QED
  BY <1>1, <1>2

(* A stretch leads from the protocol to the protocol.                       *)
LEMMA RunsEnd ==
  ASSUME NEW q, NEW events, NEW u, Runs(q, events, u)
  PROVE  u \in Proto
<1>1. PICK S, f : events \in Seq(S) /\ Path(q, events, u, f)
  BY DEF Runs
<1>2. Len(events) \in Nat
  BY <1>1
<1>3. QED
  BY <1>1, <1>2 DEF Path

(* All the events that a policy sees, ...                                   *)
LEMMA FeedFollowed ==
  ASSUME NEW p, NEW s, NEW q \in Proto, NEW r \in Proto, Tracks(p, s, q, r),
         NEW events, NEW u, Runs(q, events, u)
  PROVE  Follows(p, Chain!FeedAll(p, s, events), u, r)
<1> DEFINE n == Len(events)
           fed == Feeding(p, s, events, n)
<1>0. PICK S, f : events \in Seq(S) /\ Path(q, events, u, f)
  BY DEF Runs
<1>1. /\ n \in Nat /\ f[0] = q /\ f[n] = u
      /\ \A i \in 0..n : f[i] \in Proto
      /\ \A i \in 1..n : Goes(f[i - 1], events[i], f[i])
  BY <1>0 DEF Path
<1> DEFINE bad == {i \in 0..n : ~Follows(p, fed[i], f[i], r)}
<1>2. Chain!FeedAll(p, s, events) = fed[n]
  BY DEF Chain!FeedAll, Feeding
<1> HIDE DEF n
<1>3. \A i \in 0..n : fed[i] = IF i = 0 THEN Chain!Hook(s, <<>>) ELSE Chain!Fed(p, fed[i - 1], events[i])
  BY <1>1, FeedingIs
<1> HIDE DEF fed
<1>4. Follows(p, fed[0], f[0], r)
  <2>1. fed[0] = Chain!Hook(s, <<>>)
    BY <1>1, <1>3
  <2>2. fed[0].state = s /\ fed[0].out = <<>>
    BY <2>1, HookIs
  <2>3. QED
    BY <1>1, <2>2, RunsNone DEF Follows
<1>5. ASSUME NEW i \in 1..n, Follows(p, fed[i - 1], f[i - 1], r) PROVE Follows(p, fed[i], f[i], r)
  <2> DEFINE prev == fed[i - 1]
             a == f[i - 1]
             b == f[i]
             e == events[i]
             h == Chain!OnEvent(p, prev.state, e)
  <2>1. fed[i].state = h.state /\ fed[i].out = prev.out \o h.out
    <3>1. fed[i] = Chain!Fed(p, fed[i - 1], events[i])
      BY <1>1, <1>3
    <3>2. fed[i] = Chain!Hook(h.state, prev.out \o h.out)
      BY <3>1 DEF Chain!Fed, Chain!Adding
    <3> DEFINE z == h.state
               told == prev.out \o h.out
    <3>3. fed[i] = Chain!Hook(z, told)
      BY <3>2
    <3> HIDE DEF z, told
    <3>4. fed[i].state = z /\ fed[i].out = told
      BY <3>3, HookIs
    <3>5. QED
      BY <3>4 DEF z, told
  <2>2. a \in Proto /\ b \in Proto /\ Goes(a, e, b) /\ Follows(p, prev, a, r)
    BY <1>1, <1>5
  <2> HIDE DEF prev, a, b, e
  <2>3. PICK t \in Proto : Runs(r, prev.out, t) /\ Tracks(p, prev.state, a, t)
    BY <2>2 DEF Follows
  <2>4. Follows(p, h, b, t)
    BY <2>2, <2>3, EventFollowed
  <2> HIDE DEF h
  <2>5. PICK w \in Proto : Runs(t, h.out, w) /\ Tracks(p, h.state, b, w)
    BY <2>4 DEF Follows
  <2>6. Runs(r, prev.out \o h.out, w)
    BY <2>3, <2>5, RunsOn
  <2>7. QED
    BY <2>1, <2>5, <2>6 DEF Follows, b
<1>6. bad = {}
  <2> SUFFICES ASSUME bad # {} PROVE FALSE
    OBVIOUS
  <2>1. bad \in SUBSET Nat
    BY <1>1
  <2>2. PICK i \in bad : \A d \in bad : i <= d
    BY <2>1, LeastElement
  <2>3. i # 0
    BY <1>4, <2>2
  <2>4. i \in 1..n /\ i - 1 \in 0..n /\ i - 1 \notin bad
    BY <1>1, <2>2, <2>3
  <2>5. QED
    BY <1>5, <2>2, <2>4
<1>7. QED
  BY <1>1, <1>2, <1>6

(* ... events through the policies from one on, where Q[k] is the stream that *)
(* policy k has seen, ...                                                   *)
Sequenced == Len(chain) \in Nat /\ DOMAIN chain = 1..Len(chain)
Stations  == [1..(Len(chain) + 1) -> Proto]
Aligned(all, Q, from) ==
  /\ DOMAIN all = DOMAIN chain
  /\ \A k \in from..Len(chain) : Tracks(chain[k], all[k], Q[k], Q[k + 1])

LEMMA ThroughFollowed ==
  ASSUME Sequenced, NEW from \in 1..(Len(chain) + 1), NEW all, NEW Q \in Stations, Aligned(all, Q, from),
         NEW events, NEW u, Runs(Q[from], events, u)
  PROVE  \E R \in Stations :
           /\ R[from] = u
           /\ Aligned(Chain!Through(all, from, events).state, R, from)
           /\ Runs(Q[Len(chain) + 1], Chain!Through(all, from, events).out, R[Len(chain) + 1])
<1> DEFINE n == Len(chain)
           base == from - 1
           past == Passing(all, base, events, n)
           Reached(i, R) ==
             /\ R[from] = u /\ DOMAIN past[i].state = DOMAIN chain
             /\ \A k \in from..i : Tracks(chain[k], past[i].state[k], R[k], R[k + 1])
             /\ \A k \in (i + 1)..n : past[i].state[k] = all[k]
             /\ Runs(Q[i + 1], past[i].out, R[i + 1])
           Good(i) == \E R \in Stations : Reached(i, R)
           bad == {i \in base..n : ~Good(i)}
<1>1. /\ n \in Nat /\ DOMAIN chain = 1..n /\ from \in 1..(n + 1) /\ from \in Nat \ {0}
      /\ base \in Nat /\ base <= n /\ from = base + 1
      /\ Stations = [1..(n + 1) -> Proto]
  BY DEF Sequenced, Stations
<1>2. Chain!Through(all, from, events) = past[n]
  BY DEF Chain!Through, Passing
<1>0. /\ DOMAIN all = DOMAIN chain
      /\ \A k \in from..n : Tracks(chain[k], all[k], Q[k], Q[k + 1])
  BY DEF Aligned
<1> HIDE DEF n, base
<1>3. \A i \in base..n : past[i] = IF i = base THEN Chain!Hook(all, events) ELSE Chain!Passed(past[i - 1], i)
  BY <1>1, PassingIs
<1> HIDE DEF past
<1>4. past[base].state = all /\ past[base].out = events
  BY <1>1, <1>3, HookIs
<1>5. Good(base)
  <2> DEFINE R == [Q EXCEPT ![from] = u]
  <2>1. R \in Stations /\ R[from] = u
    BY <1>1, RunsEnd
  <2> HIDE DEF R
  <2>2. from..base = {}
    BY <1>1
  <2>3. Reached(base, R)
    BY <1>0, <1>1, <1>4, <2>1, <2>2
  <2>4. QED
    BY <2>1, <2>3
<1>6. ASSUME NEW i \in from..n, Good(i - 1) PROVE Good(i)
  <2> DEFINE prev == past[i - 1]
             p == chain[i]
             s == prev.state[i]
             h == Chain!FeedAll(p, s, prev.out)
  <2>1. past[i].state = [prev.state EXCEPT ![i] = h.state] /\ past[i].out = h.out
    <3>1. past[i] = Chain!Passed(past[i - 1], i)
      BY <1>1, <1>3
    <3>2. past[i] = Chain!Hook([prev.state EXCEPT ![i] = h.state], h.out)
      BY <3>1 DEF Chain!Passed, Chain!PassedOn, Chain!Leaving
    <3> DEFINE z == [prev.state EXCEPT ![i] = h.state]
               told == h.out
    <3>3. past[i] = Chain!Hook(z, told)
      BY <3>2
    <3> HIDE DEF z, told
    <3>4. past[i].state = z /\ past[i].out = told
      BY <3>3, HookIs
    <3>5. QED
      BY <3>4 DEF z, told
  <2>2. i \in DOMAIN chain /\ (i - 1) + 1 = i /\ i \in 1..(n + 1) /\ i + 1 \in 1..(n + 1) /\ i \in i..n
    BY <1>1
  <2>3. PICK R \in Stations : Reached(i - 1, R)
    BY <1>6
  <2>4. /\ R[from] = u /\ DOMAIN prev.state = DOMAIN chain
        /\ \A k \in from..(i - 1) : Tracks(chain[k], prev.state[k], R[k], R[k + 1])
        /\ \A k \in i..n : prev.state[k] = all[k]
        /\ Runs(Q[i], prev.out, R[i])
    BY <2>2, <2>3
  <2> DEFINE a == Q[i]
             b == Q[i + 1]
             c == R[i]
  <2>5. a \in Proto /\ b \in Proto /\ Tracks(p, s, a, b) /\ Runs(a, prev.out, c)
    BY <1>0, <1>1, <2>2, <2>4
  <2> HIDE DEF a, b, c, p, s, prev
  <2>6. Follows(p, h, c, b)
    BY <2>5, FeedFollowed
  <2> HIDE DEF h
  <2>7. PICK t \in Proto : Runs(b, h.out, t) /\ Tracks(p, h.state, c, t)
    BY <2>6 DEF Follows
  <2> DEFINE T == [R EXCEPT ![i + 1] = t]
  <2>8. /\ T \in Stations /\ T[i + 1] = t
        /\ \A k \in 1..(n + 1) : k # i + 1 => T[k] = R[k]
    BY <1>1, <2>2
  <2> HIDE DEF T
  <2>9. T[from] = u /\ T[i] = R[i]
    BY <1>1, <2>2, <2>4, <2>8
  <2>10. DOMAIN past[i].state = DOMAIN chain /\ past[i].state[i] = h.state
         /\ \A k : k \in DOMAIN chain /\ k # i => past[i].state[k] = prev.state[k]
    BY <2>1, <2>2, <2>4
  <2>11. ASSUME NEW k \in from..i PROVE Tracks(chain[k], past[i].state[k], T[k], T[k + 1])
    <3>1. CASE k = i
      BY <2>7, <2>8, <2>9, <2>10, <3>1 DEF p, c
    <3>2. CASE k # i
      <4>1. k \in from..(i - 1) /\ k \in DOMAIN chain /\ k \in 1..(n + 1) /\ k # i + 1
            /\ k + 1 \in 1..(n + 1) /\ k + 1 # i + 1
        BY <1>1, <3>2
      <4>2. QED
        BY <2>4, <2>8, <2>10, <3>2, <4>1
    <3>3. QED
      BY <3>1, <3>2
  <2>12. \A k \in (i + 1)..n : past[i].state[k] = all[k]
    BY <1>1, <2>4, <2>10
  <2>13. Runs(Q[i + 1], past[i].out, T[i + 1])
    BY <2>1, <2>7, <2>8 DEF b
  <2>14. QED
    BY <2>8, <2>9, <2>10, <2>11, <2>12, <2>13
<1>8. Good(n)
  <2> HIDE DEF Good
  <2> SUFFICES bad = {}
    BY <1>1
  <2> SUFFICES ASSUME bad # {} PROVE FALSE
    OBVIOUS
  <2>1. bad \in SUBSET Nat
    BY <1>1
  <2>2. PICK i \in bad : \A d \in bad : i <= d
    BY <2>1, LeastElement
  <2>3. i # base
    BY <1>5, <2>2
  <2>4. i \in from..n /\ i - 1 \in base..n /\ i - 1 \notin bad
    BY <1>1, <2>2, <2>3
  <2>5. QED
    BY <1>6, <2>2, <2>4
<1>9. QED
  BY <1>2, <1>8 DEF Aligned, n

(* ... and what the policies add when the stream is complete: it is over     *)
(* then for the client, too.                                                *)
LEMMA CompletedFollowed ==
  ASSUME Sequenced, NEW all, NEW Q \in Stations, Aligned(all, Q, 1), Q[1].over
  PROVE  \E t \in Proto : t.over /\ Runs(Q[Len(chain) + 1], Chain!Completed(all).out, t)
<1> DEFINE n == Len(chain)
           done == Ending(all, n)
           Reached(i, R) ==
             /\ R[i + 1].over
             /\ Aligned(done[i].state, R, i + 1)
             /\ Runs(Q[n + 1], done[i].out, R[n + 1])
           Good(i) == \E R \in Stations : Reached(i, R)
           bad == {i \in 0..n : ~Good(i)}
<1>1. n \in Nat /\ DOMAIN chain = 1..n /\ Stations = [1..(n + 1) -> Proto]
  BY DEF Sequenced, Stations
<1>2. Chain!Completed(all) = done[n]
  BY DEF Chain!Completed, Ending
<1>0. \A s, R, i : Aligned(s, R, i) <=> /\ DOMAIN s = DOMAIN chain
                                        /\ \A k \in i..n : Tracks(chain[k], s[k], R[k], R[k + 1])
  BY DEF Aligned
<1> HIDE DEF n
<1>3. \A i \in 0..n : done[i] = IF i = 0 THEN Chain!Hook(all, <<>>) ELSE Chain!Ended(done[i - 1], i)
  BY <1>1, EndingIs
<1> HIDE DEF done
<1>4. done[0].state = all /\ done[0].out = <<>>
  BY <1>1, <1>3, HookIs
<1>5. Good(0)
  <2>1. Q[n + 1] \in Proto /\ 0 + 1 = 1
    BY <1>1
  <2>2. Runs(Q[n + 1], <<>>, Q[n + 1])
    BY <2>1, RunsNone
  <2>3. QED
    BY <1>4, <2>1, <2>2
<1>6. ASSUME NEW i \in 1..n, Good(i - 1) PROVE Good(i)
  <2> DEFINE prev == done[i - 1]
             p == chain[i]
             s == prev.state[i]
             h == Chain!OnComplete(p, s)
             after == [prev.state EXCEPT ![i] = h.state]
             w == Chain!Through(after, i + 1, h.out)
  <2>1. done[i].state = w.state /\ done[i].out = prev.out \o w.out
    <3>1. done[i] = Chain!Ended(done[i - 1], i)
      BY <1>1, <1>3
    <3>2. done[i] = Chain!Hook(w.state, prev.out \o w.out)
      BY <3>1 DEF Chain!Ended, Chain!EndedWith, Chain!Adding, Chain!Leaving
    <3> DEFINE z == w.state
               told == prev.out \o w.out
    <3>3. done[i] = Chain!Hook(z, told)
      BY <3>2
    <3> HIDE DEF z, told
    <3>4. done[i].state = z /\ done[i].out = told
      BY <3>3, HookIs
    <3>5. QED
      BY <3>4 DEF z, told
  <2>2. i \in DOMAIN chain /\ (i - 1) + 1 = i /\ i \in 1..(n + 1) /\ i + 1 \in 1..(n + 1) /\ i \in i..n
    BY <1>1
  <2>3. PICK R \in Stations : Reached(i - 1, R)
    BY <1>6
  <2>4. R[i].over /\ Aligned(prev.state, R, i) /\ Runs(Q[n + 1], prev.out, R[n + 1])
    BY <2>2, <2>3
  <2> DEFINE a == R[i]
             b == R[i + 1]
  <2>5. a \in Proto /\ b \in Proto /\ a.over /\ Tracks(p, s, a, b)
    BY <1>0, <1>1, <2>2, <2>4
  <2> HIDE DEF a, b, p, s, prev
  <2>6. PICK t \in Proto : t.over /\ Runs(b, h.out, t)
    BY <2>5, CompletionFollowed
  <2> HIDE DEF h
  <2>7. Aligned(after, R, i + 1)
    <3>1. DOMAIN prev.state = DOMAIN chain
      BY <1>0, <2>4
    <3>2. DOMAIN after = DOMAIN chain /\ \A k \in (i + 1)..n : after[k] = prev.state[k] /\ k \in i..n
      BY <1>1, <2>2, <3>1
    <3> HIDE DEF after
    <3>3. QED
      BY <1>0, <2>4, <3>2
  <2> HIDE DEF after
  <2>8. \E T \in Stations : T[i + 1] = t /\ Aligned(w.state, T, i + 1) /\ Runs(R[n + 1], w.out, T[n + 1])
    <3>1. i + 1 \in 1..(Len(chain) + 1) /\ Runs(R[i + 1], h.out, t)
      BY <2>2, <2>6 DEF n, b
    <3> DEFINE j == i + 1
               last == h.out
    <3>2. j \in 1..(Len(chain) + 1) /\ Runs(R[j], last, t) /\ Aligned(after, R, j)
      BY <2>7, <3>1
    <3> HIDE DEF j, last
    <3>3. \E T \in Stations :
           /\ T[j] = t
           /\ Aligned(Chain!Through(after, j, last).state, T, j)
           /\ Runs(R[Len(chain) + 1], Chain!Through(after, j, last).out, T[Len(chain) + 1])
      BY <3>2, ThroughFollowed
    <3>4. QED
      BY <3>3 DEF j, last, n
  <2> HIDE DEF w
  <2>9. PICK T \in Stations : T[i + 1] = t /\ Aligned(w.state, T, i + 1) /\ Runs(R[n + 1], w.out, T[n + 1])
    BY <2>8
  <2>10. Runs(Q[n + 1], prev.out \o w.out, T[n + 1])
    BY <2>4, <2>9, RunsOn
  <2>11. Reached(i, T)
    BY <2>1, <2>6, <2>9, <2>10
  <2>12. QED
    BY <2>11
<1>8. Good(n)
  <2> HIDE DEF Good
  <2> SUFFICES bad = {}
    BY <1>1
  <2> SUFFICES ASSUME bad # {} PROVE FALSE
    OBVIOUS
  <2>1. bad \in SUBSET Nat
    BY <1>1
  <2>2. PICK i \in bad : \A d \in bad : i <= d
    BY <2>1, LeastElement
  <2>3. i # 0
    BY <1>5, <2>2
  <2>4. i \in 1..n /\ i - 1 \in 0..n /\ i - 1 \notin bad
    BY <1>1, <2>2, <2>3
  <2>5. QED
    BY <1>6, <2>2, <2>4
<1>9. PICK R \in Stations : Reached(n, R)
  BY <1>8
<1>10. R[n + 1] \in Proto
  BY <1>1
<1>11. QED
  BY <1>2, <1>9, <1>10 DEF n

(* What the protocol knows after an event, ...                              *)
LEMMA GoesTells ==
  ASSUME NEW q \in Proto, NEW e, NEW r, Goes(q, e, r)
  PROVE  /\ r.started = IF e.type = "start" THEN q.started \cup {e.index} ELSE q.started
         /\ r.stopped = IF e.type = "stop" THEN q.stopped \cup {e.index} ELSE q.stopped
         /\ r.begun <=> q.begun \/ e.type = "message_start"
         /\ r.ended <=> q.ended \/ e.type = "message_delta"
         /\ r.over <=> q.over \/ e.type = "message_stop"
<1>1. CASE e.type = "message_start" /\ r = [q EXCEPT !.begun = TRUE]
  BY <1>1 DEF Proto
<1>2. CASE e.type = "start" /\ r = Opened(q, e.index)
  BY <1>2, MovedIs
<1>3. CASE e.type = "delta" /\ r = q
  BY <1>3
<1>4. CASE e.type = "stop" /\ r = Closed(q, e.index)
  BY <1>4, MovedIs
<1>5. CASE e.type = "message_delta" /\ r = [q EXCEPT !.ended = TRUE]
  BY <1>5 DEF Proto
<1>6. CASE e.type = "message_stop" /\ r = [q EXCEPT !.over = TRUE]
  BY <1>6 DEF Proto
<1>7. QED
  BY <1>1, <1>2, <1>3, <1>4, <1>5, <1>6 DEF Goes

(* ... and what may follow what.                                            *)
LEMMA GoesNext ==
  ASSUME NEW q \in Proto, NEW e, NEW r, Goes(q, e, r)
  PROVE  /\ ~q.over
         /\ q.ended => e.type = "message_stop"
         /\ ~q.begun => e.type = "message_start"
         /\ e.type = "message_start" => ~q.begun
         /\ e.type = "message_delta" => ~q.ended
         /\ e.type = "message_stop" => q.ended
         /\ e.type = "start" => e.index \in Nat /\ \A i \in q.started : i < e.index
         /\ e.type \in {"delta", "stop"} => e.index \in OpenIn(q)
<1>1. /\ OpenIn(q) # {} => q.begun /\ ~q.ended
      /\ q.over => q.ended
      /\ q.ended => q.begun
  BY ProtoIs
<1>2. QED
  BY <1>1 DEF Goes

(* What the stations of a stream say of what was sent so far.               *)
Knows(q, k) ==
  /\ q.started = {Chain!At(j) : j \in {i \in Chain!Typed("start") : i <= k}}
  /\ q.stopped = {Chain!At(j) : j \in {i \in Chain!Typed("stop") : i <= k}}
  /\ q.begun <=> \E j \in Chain!Typed("message_start") : j <= k
  /\ q.ended <=> \E j \in Chain!Typed("message_delta") : j <= k
  /\ q.over <=> \E j \in Chain!Typed("message_stop") : j <= k

LEMMA KnowsAll ==
  ASSUME NEW n \in Nat, DOMAIN sent = 1..n, NEW f, f[0] = Unsaid,
         \A i \in 0..n : f[i] \in Proto,
         \A i \in 1..n : Goes(f[i - 1], sent[i], f[i])
  PROVE  \A k \in 0..n : Knows(f[k], k)
<1> DEFINE bad == {k \in 0..n : ~Knows(f[k], k)}
           Upto(type, k) == {i \in Chain!Typed(type) : i <= k}
<1>1. Knows(f[0], 0)
  <2>1. \A type : Upto(type, 0) = {}
    BY DEF Chain!Typed
  <2>2. QED
    BY <2>1 DEF Knows, Unsaid
<1>2. ASSUME NEW k \in 1..n, Knows(f[k - 1], k - 1) PROVE Knows(f[k], k)
  <2> DEFINE q == f[k - 1]
             r == f[k]
             e == sent[k]
  <2>1. q \in Proto /\ Goes(q, e, r)
    OBVIOUS
  <2>2. \A type : Upto(type, k) = IF e.type = type THEN Upto(type, k - 1) \cup {k} ELSE Upto(type, k - 1)
    BY DEF Chain!Typed
  <2>3. e.index = Chain!At(k)
    BY DEF Chain!At
  <2> HIDE DEF q, r, e
  <2>4. /\ r.started = IF e.type = "start" THEN q.started \cup {e.index} ELSE q.started
        /\ r.stopped = IF e.type = "stop" THEN q.stopped \cup {e.index} ELSE q.stopped
        /\ r.begun <=> q.begun \/ e.type = "message_start"
        /\ r.ended <=> q.ended \/ e.type = "message_delta"
        /\ r.over <=> q.over \/ e.type = "message_stop"
    BY <2>1, GoesTells
  <2>5. /\ q.started = {Chain!At(j) : j \in Upto("start", k - 1)}
        /\ q.stopped = {Chain!At(j) : j \in Upto("stop", k - 1)}
        /\ q.begun <=> Upto("message_start", k - 1) # {}
        /\ q.ended <=> Upto("message_delta", k - 1) # {}
        /\ q.over <=> Upto("message_stop", k - 1) # {}
    BY <1>2 DEF Knows, q
  <2> HIDE DEF Upto
  <2>6. /\ r.started = {Chain!At(j) : j \in Upto("start", k)}
        /\ r.stopped = {Chain!At(j) : j \in Upto("stop", k)}
    BY <2>2, <2>3, <2>4, <2>5
  <2>7. /\ r.begun <=> Upto("message_start", k) # {}
        /\ r.ended <=> Upto("message_delta", k) # {}
        /\ r.over <=> Upto("message_stop", k) # {}
    BY <2>2, <2>4, <2>5
  <2>8. QED
    BY <2>6, <2>7 DEF Knows, Upto, r
<1> HIDE DEF Upto
<1>3. bad = {}
  <2> SUFFICES ASSUME bad # {} PROVE FALSE
    OBVIOUS
  <2>0. bad \in SUBSET Nat
    OBVIOUS
  <2>1. PICK k \in bad : \A d \in bad : k <= d
    BY <2>0, LeastElement
  <2>2. k # 0
    BY <1>1, <2>1
  <2>3. k \in 1..n /\ k - 1 \in 0..n /\ k - 1 \notin bad
    BY <2>1, <2>2
  <2>4. QED
    BY <1>2, <2>1, <2>3
<1>4. QED
  BY <1>3

(* The cardinality that PolicyChain counts with is the library's.           *)
LEMMA CountedAlike ==
  ASSUME NEW S
  PROVE  Chain!Cardinality(S) = Cardinality(S)
BY DEF Chain!Cardinality, Cardinality

(* A stream that keeps the protocol until it is over is well formed.        *)
LEMMA RunsWellFormed ==
  ASSUME NEW r, r.over, Runs(Unsaid, sent, r)
  PROVE  Chain!WellFormed
<1>1. PICK S, f : sent \in Seq(S) /\ Path(Unsaid, sent, r, f)
  BY DEF Runs
<1> DEFINE n == Len(sent)
           T(type) == Chain!Typed(type)
<1>2. /\ n \in Nat /\ DOMAIN sent = 1..n /\ f[0] = Unsaid /\ f[n] = r
      /\ \A i \in 0..n : f[i] \in Proto
      /\ \A i \in 1..n : Goes(f[i - 1], sent[i], f[i])
  BY <1>1 DEF Path
<1>3. \A k \in 0..n : Knows(f[k], k)
  BY <1>2, KnowsAll
<1>4. \A type : T(type) = {i \in 1..n : sent[i].type = type}
  BY <1>2 DEF Chain!Typed
<1>5. ASSUME NEW i \in 1..n
      PROVE  /\ i - 1 \in 0..n /\ f[i - 1] \in Proto /\ f[i] \in Proto /\ Goes(f[i - 1], sent[i], f[i])
             /\ Knows(f[i - 1], i - 1) /\ Knows(f[i], i)
  BY <1>2, <1>3
<1>6. ASSUME NEW i \in 1..n
      PROVE  LET q == f[i - 1] IN
             /\ ~q.over
             /\ q.ended => i \in T("message_stop")
             /\ ~q.begun => i \in T("message_start")
             /\ i \in T("message_start") => ~q.begun
             /\ i \in T("message_delta") => ~q.ended
             /\ i \in T("message_stop") => q.ended
             /\ i \in T("start") => Chain!At(i) \in Nat /\ \A a \in q.started : a < Chain!At(i)
             /\ i \in T("delta") \cup T("stop") => Chain!At(i) \in OpenIn(q)
  <2> DEFINE q == f[i - 1]
             e == sent[i]
             u == f[i]
  <2>1. q \in Proto /\ Goes(q, e, u)
    BY <1>5
  <2>2. Chain!At(i) = e.index /\ \A type : i \in T(type) <=> e.type = type
    BY <1>4 DEF Chain!At
  <2> HIDE DEF q, e, u, T
  <2>3. /\ ~q.over
        /\ q.ended => e.type = "message_stop"
        /\ ~q.begun => e.type = "message_start"
        /\ e.type = "message_start" => ~q.begun
        /\ e.type = "message_delta" => ~q.ended
        /\ e.type = "message_stop" => q.ended
        /\ e.type = "start" => e.index \in Nat /\ \A a \in q.started : a < e.index
        /\ e.type \in {"delta", "stop"} => e.index \in OpenIn(q)
    BY <2>1, GoesNext
  <2>4. QED
    BY <2>2, <2>3 DEF q
<1>7. /\ Knows(r, n) /\ r \in Proto
  BY <1>2, <1>3
<1>8. T("message_stop") = {n} /\ n \in 1..n
  <2>1. PICK j \in T("message_stop") : j <= n
    BY <1>7 DEF Knows
  <2>2. ASSUME NEW i \in T("message_stop"), i # n PROVE FALSE
    <3>1. i \in 1..n /\ i + 1 \in 1..n /\ (i + 1) - 1 = i
      BY <1>2, <1>4, <2>2
    <3>2. f[i].over
      BY <1>5, <3>1, <2>2 DEF Knows
    <3>3. ~f[(i + 1) - 1].over
      BY <1>6, <3>1
    <3>4. QED
      BY <3>1, <3>2, <3>3
  <2>3. QED
    BY <1>4, <2>1, <2>2
<1>9. T("message_start") = {1}
  <2>1. 1 \in 1..n /\ ~f[1 - 1].begun
    BY <1>2, <1>8 DEF Unsaid
  <2>2. 1 \in T("message_start")
    BY <2>1, <1>6
  <2>3. ASSUME NEW i \in T("message_start"), i # 1 PROVE FALSE
    <3>1. i \in 1..n /\ 1 <= i - 1
      BY <1>2, <1>4, <2>3
    <3>2. f[i - 1].begun
      BY <1>5, <2>2, <3>1 DEF Knows
    <3>3. ~f[i - 1].begun
      BY <1>6, <2>3, <3>1
    <3>4. QED
      BY <3>2, <3>3
  <2>4. QED
    BY <2>2, <2>3
<1>10. T("message_delta") = {n - 1}
  <2>1. f[n - 1].ended /\ n - 1 \in Nat
    BY <1>2, <1>6, <1>8
  <2>2. PICK j \in T("message_delta") : j <= n - 1
    BY <1>5, <1>8, <2>1 DEF Knows
  <2>3. ASSUME NEW i \in T("message_delta"), i # n - 1 PROVE FALSE
    <3>1. i \in 1..n /\ i # n
      <4>1. n \notin T("message_delta")
        BY <1>4, <1>8
      <4>2. QED
        BY <1>4, <2>3, <4>1
    <3>2. i + 1 \in 1..n /\ (i + 1) - 1 = i /\ i + 1 # n
      <4>1. n \in Nat /\ i # n - 1
        BY <1>2, <2>3
      <4> HIDE DEF n
      <4>2. QED
        BY <3>1, <4>1
    <3>3. f[i].ended
      BY <1>5, <2>3, <3>1 DEF Knows
    <3>4. f[(i + 1) - 1].ended => i + 1 \in T("message_stop")
      BY <1>6, <3>2
    <3>5. QED
      BY <1>8, <3>2, <3>3, <3>4
  <2>4. QED
    BY <2>2, <2>3
<1>11. ASSUME NEW i \in T("start"), NEW j \in T("start"), i < j PROVE Chain!At(i) < Chain!At(j)
  <2>1. i \in 1..n /\ j \in 1..n /\ i <= j - 1
    BY <1>2, <1>4, <1>11
  <2>2. Chain!At(i) \in f[j - 1].started
    BY <1>5, <1>11, <2>1 DEF Knows
  <2>3. QED
    BY <1>6, <1>11, <2>1, <2>2
<1>12. ASSUME NEW i \in T("delta") \cup T("stop"), NEW j \in T("stop"), Chain!At(j) = Chain!At(i) PROVE i <= j
  <2>1. i \in 1..n /\ j \in 1..n
    BY <1>2, <1>4
  <2>2. SUFFICES ASSUME j <= i - 1 PROVE FALSE
    BY <1>2, <2>1
  <2>3. Chain!At(i) \in f[i - 1].stopped
    BY <1>5, <1>12, <2>1, <2>2 DEF Knows
  <2>4. Chain!At(i) \notin f[i - 1].stopped
    BY <1>6, <2>1 DEF OpenIn
  <2>5. QED
    BY <2>3, <2>4
<1>13. ASSUME NEW i \in T("delta") \cup T("stop") PROVE \E j \in T("start") : j < i /\ Chain!At(j) = Chain!At(i)
  <2>1. i \in 1..n
    BY <1>2, <1>4
  <2>2. Chain!At(i) \in f[i - 1].started
    BY <1>6, <2>1 DEF OpenIn
  <2>3. PICK j \in T("start") : j <= i - 1 /\ Chain!At(j) = Chain!At(i)
    BY <1>5, <2>1, <2>2 DEF Knows
  <2>4. j \in 1..n
    BY <1>4
  <2>5. QED
    BY <2>1, <2>3, <2>4
<1>14. ASSUME NEW i \in T("start") PROVE Cardinality({j \in T("stop") : Chain!At(j) = Chain!At(i)}) = 1
  <2> DEFINE stops == {j \in T("stop") : Chain!At(j) = Chain!At(i)}
  <2>1. Chain!At(i) \in r.started /\ r.started = r.stopped
    <3>1. i <= n
      BY <1>2, <1>4
    <3>2. r.started = r.stopped
      BY <1>7, ProtoIs
    <3>3. QED
      BY <1>7, <1>14, <3>1, <3>2 DEF Knows
  <2>2. PICK k \in T("stop") : Chain!At(k) = Chain!At(i)
    BY <1>7, <2>1 DEF Knows
  <2>3. ASSUME NEW j \in stops PROVE j = k
    <3>1. j <= k /\ k <= j
      BY <1>12, <2>2
    <3>2. j \in Nat /\ k \in Nat
      BY <1>4
    <3>3. QED
      BY <3>1, <3>2
  <2>4. stops = {k}
    BY <2>2, <2>3
  <2>5. QED
    BY <2>4, FS_Singleton
<1> HIDE DEF n, T
<1>15. Chain!Typed("message_start") = {1} /\ Chain!Typed("message_stop") = {Len(sent)} /\ Chain!Typed("message_delta") = {Len(sent) - 1}
  BY <1>8, <1>9, <1>10 DEF n, T
<1>16. \A i, j \in Chain!Typed("start") : i < j => Chain!At(i) < Chain!At(j)
  BY <1>11 DEF T
<1>17. \A i \in Chain!Typed("start") : Chain!Cardinality({j \in Chain!Typed("stop") : Chain!At(j) = Chain!At(i)}) = 1
  BY <1>14, CountedAlike DEF T
<1>18. \A i \in Chain!Typed("delta") \cup Chain!Typed("stop") :
         /\ \E j \in Chain!Typed("start") : j < i /\ Chain!At(j) = Chain!At(i)
         /\ \A j \in Chain!Typed("stop") : Chain!At(j) = Chain!At(i) => i <= j
  BY <1>12, <1>13 DEF T
<1>19. QED
  BY <1>15, <1>16, <1>17, <1>18 DEF Chain!WellFormed

(* The chain's stream. What upstream has sent keeps the protocol, ...        *)
Source(q, c, g) ==
  /\ q.begun /\ ~q.over /\ (q.ended <=> g = "ending")
  /\ q.started = 0..(Len(c) - 1)
  /\ q.stopped = IF g \in {"open", "told"} THEN q.started \ {Len(c) - 1} ELSE q.started

(* ... each policy is in step with what it has seen of it, and the client    *)
(* has what the last one made of it; at the end, all of it.                 *)
Streaming ==
  \E Q \in Stations :
    Source(Q[1], content, stage) /\ Aligned(state, Q, 1) /\ Runs(Unsaid, sent, Q[Len(chain) + 1])
Over == \E t \in Proto : t.over /\ Runs(Unsaid, sent, t)

StreamInv ==
  /\ stage \in {"between", "open", "told", "ending", "done"}
  /\ stage # "done" => Streaming
  /\ stage = "done" => Over

LEMMA FreshTracks ==
  ASSUME NEW p, NEW r
  PROVE  Unsaid \in Proto /\ Tracks(p, Chain!OnRequest(p, r), Unsaid, Unsaid)
<1> DEFINE s == Chain!OnRequest(p, r)
<1>1. /\ DOMAIN s = DOMAIN Chain!FreshState
      /\ s.held = -1 /\ s.buffer = <<>> /\ s.open = <<>> /\ s.mapped = <<>> /\ s.next = 0 /\ s.queued = <<>>
  BY DEF Chain!OnRequest, Chain!FreshState
<1>2. DOMAIN <<>> = {} /\ <<>> \in Seq({})
  OBVIOUS
<1> HIDE DEF s
<1>3. Unsaid \in Proto /\ Unsaid.started = {} /\ Unsaid.stopped = {} /\ OpenIn(Unsaid) = {}
  BY DEF Unsaid, Proto, OpenIn
<1>4. ~(s.held >= 0)
  BY <1>1
<1>5. HoldsBack(p, s, Unsaid, Unsaid)
  BY <1>4 DEF HoldsBack
<1>6. Reindexes(s, Unsaid, Unsaid)
  BY <1>1, <1>2, <1>3 DEF Reindexes
<1>7. Tracks(p, s, Unsaid, Unsaid)
  BY <1>1, <1>5, <1>6 DEF Tracks
<1>8. QED
  BY <1>3, <1>7 DEF s

LEMMA StreamKept ==
  ASSUME Sequenced, chain' = chain, NEW Q \in Stations, Aligned(state, Q, 1), Runs(Unsaid, sent, Q[Len(chain) + 1]),
         NEW e, NEW u, Goes(Q[1], e, u), Chain!Emit(e), Source(u, content', stage')
  PROVE  Streaming'
<1> DEFINE h == Chain!Through(state, 1, <<e>>)
<1>1. state' = h.state /\ sent' = sent \o h.out
  BY DEF Chain!Emit, Chain!Emitted
<1>2. PICK R \in Stations : R[1] = u /\ Aligned(h.state, R, 1) /\ Runs(Q[Len(chain) + 1], h.out, R[Len(chain) + 1])
  <2>0. PICK all, events : all = state /\ events = <<e>>
    OBVIOUS
  <2>1. Q[1] \in Proto /\ 1 \in 1..(Len(chain) + 1)
    BY DEF Stations, Sequenced
  <2>2. Runs(Q[1], events, u) /\ Aligned(all, Q, 1)
    BY <2>0, <2>1, RunsOne
  <2>3. \E R \in Stations :
          /\ R[1] = u
          /\ Aligned(Chain!Through(all, 1, events).state, R, 1)
          /\ Runs(Q[Len(chain) + 1], Chain!Through(all, 1, events).out, R[Len(chain) + 1])
    BY <2>1, <2>2, ThroughFollowed
  <2>4. QED
    BY <2>0, <2>3
<1> HIDE DEF h
<1>3. Runs(Unsaid, sent \o h.out, R[Len(chain) + 1])
  BY <1>2, RunsOn
<1>4. R \in Stations
  OBVIOUS
<1>5. Source(R[1], content', stage') /\ Runs(Unsaid, sent', R[Len(chain) + 1]) /\ Aligned(h.state, R, 1)
  BY <1>1, <1>2, <1>3
<1>6. Aligned(state, R, 1)'
  BY <1>1, <1>5 DEF Aligned
<1>7. Stations' = Stations
  BY DEF Stations
<1>8. QED
  BY <1>4, <1>5, <1>6, <1>7 DEF Streaming

LEMMA StreamStarts == Chain!Init => StreamInv
<1> SUFFICES ASSUME Chain!Init PROVE StreamInv
  OBVIOUS
<1>1. Sequenced
  BY ChainStarts DEF ChainInv, Sequenced
<1>2. content = <<>> /\ stage = "between"
  BY DEF Chain!Init
<1> DEFINE all == [i \in DOMAIN chain |-> Chain!OnRequest(chain[i], request)]
           e == Chain!Plain("message_start")
           h == Chain!Through(all, 1, <<e>>)
           u == [Unsaid EXCEPT !.begun = TRUE]
           n == Len(chain)
           Q == [k \in 1..(n + 1) |-> Unsaid]
<1>3. state = h.state /\ sent = h.out
  BY DEF Chain!Init, Chain!Begun
<1>4. Unsaid \in Proto /\ \A p, r : Tracks(p, Chain!OnRequest(p, r), Unsaid, Unsaid)
  BY FreshTracks
<1>5. n \in Nat /\ DOMAIN chain = 1..n /\ Stations = [1..(n + 1) -> Proto]
  BY <1>1 DEF Sequenced, Stations
<1> HIDE DEF n
<1>6. Q \in Stations /\ Q[1] = Unsaid /\ Q[n + 1] = Unsaid
  BY <1>4, <1>5
<1>7. Aligned(all, Q, 1)
  <2>1. ASSUME NEW k \in 1..n PROVE Tracks(chain[k], all[k], Q[k], Q[k + 1])
    <3>1. all[k] = Chain!OnRequest(chain[k], request) /\ Q[k] = Unsaid /\ Q[k + 1] = Unsaid
      BY <1>5
    <3>2. QED
      BY <1>4, <3>1
  <2>2. QED
    BY <2>1 DEF Aligned, n
<1> HIDE DEF Q, all, h
<1>8. Runs(Unsaid, <<>>, Q[n + 1])
  BY <1>4, <1>6, RunsNone
<1>9. Goes(Q[1], e, u)
  <2>1. DOMAIN e = {"type", "index", "kind", "text"} /\ e.type = "message_start"
    BY DEF Chain!Plain, Chain!Event
  <2> HIDE DEF e
  <2>2. QED
    BY <1>6, <2>1 DEF Goes, Unsaid
<1> HIDE DEF e, u
<1>10. PICK R \in Stations :
         R[1] = u /\ Aligned(h.state, R, 1) /\ Runs(Q[n + 1], h.out, R[n + 1])
  <2>1. 1 \in 1..(Len(chain) + 1)
    BY <1>5 DEF n
  <2>2. Runs(Q[1], <<e>>, u)
    BY <1>4, <1>6, <1>9, RunsOne
  <2>3. QED
    BY <1>1, <1>6, <1>7, <2>1, <2>2, ThroughFollowed DEF h, n
<1>11. Source(u, content, stage)
  <2>1. u.begun /\ ~u.over /\ ~u.ended /\ u.started = {} /\ u.stopped = {}
    BY DEF u, Unsaid
  <2>2. Len(content) = 0 /\ 0..(0 - 1) = {}
    BY <1>2
  <2>3. QED
    BY <1>2, <2>1, <2>2 DEF Source
<1>12. Streaming
  BY <1>3, <1>6, <1>10, <1>11 DEF Streaming, n
<1>13. QED
  BY <1>2, <1>12 DEF StreamInv

LEMMA StreamSteps == ChainInv /\ StreamInv /\ Chain!Next => StreamInv'
<1> SUFFICES ASSUME ChainInv, StreamInv, Chain!Next PROVE StreamInv'
  OBVIOUS
<1> DEFINE n == Len(content)
           last == Len(chain) + 1
<1>0. /\ Sequenced /\ n \in Nat /\ DOMAIN content = 1..n /\ Chain!Current = n - 1 /\ last \in 1..last /\ 1 \in 1..last
      /\ Stations = [1..last -> Proto]
      /\ stage \in {"open", "told"} => n # 0
  <2>1. content \in Content /\ Sequenced /\ (stage \in {"open", "told"} => content # <<>>)
    BY DEF ChainInv, Sequenced
  <2>2. n \in Nat /\ DOMAIN content = 1..n /\ (content # <<>> => n # 0)
    BY <2>1 DEF Content
  <2>3. QED
    BY <2>1, <2>2 DEF Sequenced, Stations, Chain!Current
<1>1. stage # "done"
  BY DEF Chain!Next, Chain!BlockStart, Chain!BlockDelta, Chain!OtherDelta, Chain!BlockStop,
    Chain!MessageEnds, Chain!StreamEnds
<1>2. PICK Q \in Stations :
        Source(Q[1], content, stage) /\ Aligned(state, Q, 1) /\ Runs(Unsaid, sent, Q[last])
  BY <1>1 DEF StreamInv, Streaming
<1> DEFINE q == Q[1]
<1>3. q \in Proto
  BY <1>0, <1>2
<1>4. /\ q.begun /\ ~q.over /\ (q.ended <=> stage = "ending")
      /\ q.started = 0..(n - 1)
      /\ q.stopped = IF stage \in {"open", "told"} THEN q.started \ {n - 1} ELSE q.started
  BY <1>2 DEF Source
<1>5. ASSUME chain' = chain, stage' \in {"between", "open", "told", "ending"},
             NEW e, NEW u, Goes(q, e, u), Chain!Emit(e), Source(u, content', stage')
      PROVE  StreamInv'
  <2>1. Streaming'
    BY <1>0, <1>2, <1>5, StreamKept
  <2>2. QED
    BY <1>5, <2>1 DEF StreamInv
<1>6. ASSUME stage \in {"open", "told"} PROVE n - 1 \in OpenIn(q)
  BY <1>0, <1>4, <1>6 DEF OpenIn
<1> HIDE DEF n, q, last
<1>7. CASE Chain!BlockStart
  <2>1. PICK kind \in Chain!Kinds :
          content' = Append(content, Chain!Block(kind, <<>>)) /\ Chain!Emit(Chain!Start(Chain!Current + 1, kind))
    BY <1>7 DEF Chain!BlockStart
  <2>2. chain' = chain /\ stage = "between" /\ stage' = "open"
    BY <1>7 DEF Chain!BlockStart
  <2> DEFINE e == Chain!Start(Chain!Current + 1, kind)
             u == Opened(q, n)
  <2>3. DOMAIN e = {"type", "index", "kind", "text"} /\ e.type = "start" /\ e.index = n
    BY <1>0 DEF Chain!Start, Chain!Event
  <2>4. Chain!Emit(e)
    BY <2>1
  <2>5. Len(content') = n + 1
    <3>1. content \in Content
      BY DEF ChainInv
    <3>2. QED
      BY <2>1, <3>1 DEF Content, n
  <2> HIDE DEF e
  <2>6. Goes(q, e, u)
    BY <1>0, <1>4, <2>2, <2>3 DEF Goes
  <2>7. u.begun = q.begun /\ u.ended = q.ended /\ u.over = q.over /\ u.started = q.started \cup {n} /\ u.stopped = q.stopped
    BY <1>3, MovedIs
  <2> HIDE DEF u
  <2>8. Source(u, content', stage')
    <3>1. (n + 1) - 1 = n /\ 0..n = (0..(n - 1)) \cup {n} /\ 0..(n - 1) = (0..n) \ {n}
      BY <1>0
    <3>2. QED
      BY <1>4, <2>2, <2>5, <2>7, <3>1 DEF Source
  <2>9. QED
    BY <1>5, <2>2, <2>4, <2>6, <2>8
<1>8. CASE Chain!BlockDelta
  <2>1. PICK text \in Chain!Chunks :
          /\ content' = [content EXCEPT ![Chain!Current + 1].text = @ \o text]
          /\ Chain!Emit(Chain!Delta(Chain!Current, "text", text))
    BY <1>8 DEF Chain!BlockDelta
  <2>2. chain' = chain /\ stage \in {"open", "told"} /\ stage' = "told"
    BY <1>8 DEF Chain!BlockDelta
  <2>3. Len(content') = n
    <3>1. content \in Content
      BY DEF ChainInv
    <3>2. QED
      BY <2>1, <3>1 DEF Content, n
  <2> DEFINE e == Chain!Delta(Chain!Current, "text", text)
  <2>4. Goes(q, e, q)
    BY <1>0, <1>6, <2>2, DeltaGoes
  <2>5. Chain!Emit(e)
    BY <2>1
  <2> HIDE DEF e
  <2>6. Source(q, content', stage')
    BY <1>4, <2>2, <2>3 DEF Source
  <2>7. QED
    BY <1>5, <2>2, <2>4, <2>5, <2>6
<1>9. CASE Chain!OtherDelta
  <2> DEFINE e == Chain!Delta(Chain!Current, content[Chain!Current + 1].kind, <<>>)
  <2>1. chain' = chain /\ content' = content /\ stage = "open" /\ stage' = "told" /\ Chain!Emit(e)
    BY <1>9 DEF Chain!OtherDelta
  <2>2. Goes(q, e, q)
    BY <1>0, <1>6, <2>1, DeltaGoes
  <2> HIDE DEF e
  <2>3. Source(q, content', stage')
    BY <1>4, <2>1 DEF Source, n
  <2>4. QED
    BY <1>5, <2>1, <2>2, <2>3
<1>10. CASE Chain!BlockStop
  <2> DEFINE e == Chain!Stop(Chain!Current)
             u == Closed(q, n - 1)
  <2>1. chain' = chain /\ content' = content /\ stage = "told" /\ stage' = "between" /\ Chain!Emit(e)
    BY <1>10 DEF Chain!BlockStop
  <2>2. n - 1 \in OpenIn(q)
    BY <1>6, <2>1
  <2>3. Goes(q, e, u)
    BY <1>0, <2>2, DeltaGoes
  <2>4. u.begun = q.begun /\ u.ended = q.ended /\ u.over = q.over /\ u.started = q.started /\ u.stopped = q.stopped \cup {n - 1}
    BY <1>3, MovedIs
  <2> HIDE DEF e, u
  <2>5. Source(u, content', stage')
    <3>1. u.stopped = u.started
      BY <1>4, <2>1, <2>2, <2>4 DEF OpenIn
    <3>2. QED
      BY <1>4, <2>1, <2>4, <3>1 DEF Source, n
  <2>6. QED
    BY <1>5, <2>1, <2>3, <2>5
<1>11. CASE Chain!MessageEnds
  <2> DEFINE e == Chain!MessageDelta(reason')
             u == [q EXCEPT !.ended = TRUE]
  <2>1. chain' = chain /\ content' = content /\ stage = "between" /\ stage' = "ending" /\ Chain!Emit(e)
    BY <1>11 DEF Chain!MessageEnds
  <2>2. DOMAIN e = {"type", "index", "kind", "text"} /\ e.type = "message_delta"
    BY DEF Chain!MessageDelta, Chain!Event
  <2> HIDE DEF e
  <2>3. Goes(q, e, u)
    BY <1>4, <2>1, <2>2 DEF Goes
  <2>4. u.begun = q.begun /\ u.ended /\ u.over = q.over /\ u.started = q.started /\ u.stopped = q.stopped
    BY <1>3 DEF Proto
  <2> HIDE DEF u
  <2>5. Source(u, content', stage')
    BY <1>4, <2>1, <2>4 DEF Source, n
  <2>6. QED
    BY <1>5, <2>1, <2>3, <2>5
<1>12. CASE Chain!StreamEnds
  <2>0. PICK all, told, events : all = state /\ told = sent /\ events = <<Chain!Plain("message_stop")>>
    OBVIOUS
  <2> DEFINE e == Chain!Plain("message_stop")
             h == Chain!Through(all, 1, events)
             c == Chain!Completed(h.state)
             u == [q EXCEPT !.over = TRUE]
  <2>1. stage = "ending" /\ stage' = "done" /\ sent' = told \o (h.out \o c.out)
    BY <1>12, <2>0 DEF Chain!StreamEnds, Chain!Emitted, Chain!Finished, Chain!Adding, Chain!Hook
  <2>2. DOMAIN e = {"type", "index", "kind", "text"} /\ e.type = "message_stop"
    BY DEF Chain!Plain, Chain!Event
  <2> HIDE DEF e
  <2>3. Goes(q, e, u)
    BY <1>4, <2>1, <2>2 DEF Goes
  <2>4. u.over
    BY <1>3 DEF Proto
  <2>5. Aligned(all, Q, 1) /\ Runs(Unsaid, told, Q[last])
    BY <1>2, <2>0
  <2> HIDE DEF u
  <2>6. Runs(Q[1], events, u)
    BY <1>3, <2>0, <2>3, RunsOne DEF q, e
  <2>7. PICK R \in Stations : R[1] = u /\ Aligned(h.state, R, 1) /\ Runs(Q[last], h.out, R[last])
    <3>1. Sequenced /\ 1 \in 1..(Len(chain) + 1) /\ Aligned(all, Q, 1)
      BY <1>0, <2>5 DEF last
    <3>2. \E R \in Stations :
            /\ R[1] = u
            /\ Aligned(Chain!Through(all, 1, events).state, R, 1)
            /\ Runs(Q[Len(chain) + 1], Chain!Through(all, 1, events).out, R[Len(chain) + 1])
      BY <2>6, <3>1, ThroughFollowed
    <3>3. QED
      BY <3>2 DEF last
  <2> HIDE DEF h
  <2>8. PICK t \in Proto : t.over /\ Runs(R[last], c.out, t)
    BY <1>0, <2>4, <2>7, CompletedFollowed DEF last
  <2> HIDE DEF c
  <2>9. Runs(Q[last], h.out \o c.out, t)
    BY <2>7, <2>8, RunsOn
  <2>10. Runs(Unsaid, told \o (h.out \o c.out), t)
    BY <2>5, <2>9, RunsOn
  <2>11. Over'
    BY <2>1, <2>8, <2>10 DEF Over
  <2>12. QED
    BY <2>1, <2>11 DEF StreamInv
<1>13. QED
  BY <1>7, <1>8, <1>9, <1>10, <1>11, <1>12 DEF Chain!Next

(* A whole upstream message leaves a chain of policies as a stream that the   *)
(* API's rules accept, whatever the policies hold back, re-index, swallow or  *)
(* make up, and however many there are (MultiSerialPolicy,                   *)
(* stream_protocol_validator.py).                                           *)
THEOREM StreamsWellFormed == FairSpec => []Chain!WellFormed
<1>1. Init => StreamInv
  BY StreamStarts DEF Init
<1>2. ChainInv /\ StreamInv /\ [Next]_vars => StreamInv'
  <2>1. CASE Chain!Next
    BY <2>1, StreamSteps
  <2>2. CASE UNCHANGED chainVars
    BY <2>2 DEF chainVars, StreamInv, Streaming, Over, Stations, Aligned
  <2>3. QED
    BY <2>1, <2>2 DEF Next, vars
<1>3. StreamInv => Chain!WellFormed
  <2> SUFFICES ASSUME StreamInv PROVE Chain!WellFormed
    OBVIOUS
  <2>1. CASE stage = "done"
    BY <2>1, RunsWellFormed DEF StreamInv, Over
  <2>2. CASE stage # "done"
    BY <2>2 DEF Chain!WellFormed
  <2>3. QED
    BY <2>1, <2>2
<1>4. QED
  BY <1>1, <1>2, <1>3, ChainInvariance, PTL DEF FairSpec

(* What leaves is a message the API accepts, from the judge policy and from   *)
(* a chain of policies.                                                     *)
THEOREM LeavesAcceptable == FairSpec => []Acceptable
BY JudgedIsAcceptable, StreamsWellFormed, PTL DEF Acceptable
=============================================================================
