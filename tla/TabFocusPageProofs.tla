------------------------- MODULE TabFocusPageProofs -------------------------
(***************************************************************************)
(* The page and the handler of tab focus agree, whatever the order in      *)
(* which the assistant answers: on whether there is something to undo, and *)
(* on whether topics are being loaded.                                     *)
(***************************************************************************)
EXTENDS TabFocusPage, SequenceTheorems, FiniteSetTheorems, TLAPS

AskedCall == [call : {"topics"}] \cup [call : {"focus"}, topic : Topic]

Call == AskedCall \cup [call : {"undo"}]

ReplyCall ==
    [call : {"undo"}]
        \cup [call : {"topics"}, error : Errors \cup {"none"}]
        \cup [call : {"focus"}, topic : Topic, windowCreated : BOOLEAN,
              error : Errors \cup {"none"}]

TypeOK ==
    /\ calls \in Seq(Call)
    /\ asked \in Seq(AskedCall)
    /\ replies \in Seq(ReplyCall)
    /\ undoTopic \in Topic
    /\ errorMessage \in BOOLEAN
    /\ needsPremium \in BOOLEAN
    /\ isLoadingTopics \in BOOLEAN
    /\ requests \in Nat
    /\ moves \in Seq({moves[i] : i \in DOMAIN moves})

\* A queue of calls or answers has one about topics, and no two.
AboutTopics(s) == \E i \in DOMAIN s : s[i].call = "topics"

OneAboutTopics(s) ==
    \A i, j \in DOMAIN s : s[i].call = "topics" /\ s[j].call = "topics" => i = j

\* A request for topics is in one of the three queues, once.
LoadingInv ==
    /\ OneAboutTopics(calls) /\ OneAboutTopics(asked) /\ OneAboutTopics(replies)
    /\ ~(AboutTopics(calls) /\ AboutTopics(asked))
    /\ ~(AboutTopics(calls) /\ AboutTopics(replies))
    /\ ~(AboutTopics(asked) /\ AboutTopics(replies))
    /\ isLoadingTopics
          <=> AboutTopics(calls) \/ AboutTopics(asked) \/ AboutTopics(replies)

\* A call that empties the record is on its way.
WillReset(s) == \E i \in DOMAIN s : s[i].call \in {"focus", "undo"}

\* An answer that tells the page of a new window, and one that changes what
\* the page offers.
TellsMove(r) == r.call = "focus" /\ r.error = "none" /\ r.windowCreated

Tells(r) == r.call = "undo" \/ TellsMove(r)

\* The last of the answers that change it tells of a move for the topic, or no
\* answer changes it and the page has the topic.
WillOffer(s, offered, topic) ==
    \/ \E i \in DOMAIN s :
          /\ TellsMove(s[i])
          /\ s[i].topic = topic
          /\ \A j \in DOMAIN s : j > i => ~Tells(s[j])
    \/ /\ \A i \in DOMAIN s : ~Tells(s[i])
       /\ offered = topic

\* What the handler can undo is about to be dropped, or the page offers it
\* when the answers on their way have arrived.
UndoInv ==
    record # EmptyRecord =>
        \/ WillReset(calls)
        \/ moves # <<>> /\ WillOffer(replies, undoTopic, Last(moves).topic)

IInv == TypeOK /\ LoadingInv /\ UndoInv

-----------------------------------------------------------------------------
(* Queues.                                                                 *)

\* What is left of a queue when one element is taken out of it.
LEMMA RemoveAtIs ==
    ASSUME NEW S, NEW s \in Seq(S), NEW k \in DOMAIN s
    PROVE  /\ RemoveAt(s, k) \in Seq(S)
           /\ Len(RemoveAt(s, k)) = Len(s) - 1
           /\ \A j \in 1 .. Len(s) - 1 :
                 RemoveAt(s, k)[j] = IF j < k THEN s[j] ELSE s[j + 1]
<1> DEFINE a == SubSeq(s, 1, k - 1)
           b == SubSeq(s, k + 1, Len(s))
<1>1. k \in 1 .. Len(s) /\ Len(s) \in Nat
  OBVIOUS
<1>2. a \in Seq(S) /\ Len(a) = k - 1 /\ \A j \in 1 .. k - 1 : a[j] = s[j]
  BY <1>1
<1>3. b \in Seq(S) /\ Len(b) = Len(s) - k /\ \A j \in 1 .. Len(s) - k : b[j] = s[j + k]
  BY <1>1
<1>4. RemoveAt(s, k) = a \o b
  BY DEF RemoveAt
<1> HIDE DEF a, b
<1>5. /\ a \o b \in Seq(S)
      /\ Len(a \o b) = Len(s) - 1
      /\ \A j \in 1 .. Len(s) - 1 :
            (a \o b)[j] = IF j <= k - 1 THEN a[j] ELSE b[j - (k - 1)]
  <2>1. Len(a) + Len(b) = Len(s) - 1
    BY <1>1, <1>2, <1>3
  <2>2. /\ a \o b \in Seq(S)
        /\ Len(a \o b) = Len(a) + Len(b)
        /\ \A j \in 1 .. Len(a) + Len(b) :
              (a \o b)[j] = IF j <= Len(a) THEN a[j] ELSE b[j - Len(a)]
    <3>1. a \in Seq(S) /\ b \in Seq(S)
      BY <1>2, <1>3
    <3> QED
      BY <3>1, ConcatProperties
  <2> QED
    BY <1>2, <2>1, <2>2
<1>6. ASSUME NEW j \in 1 .. Len(s) - 1
      PROVE  (a \o b)[j] = IF j < k THEN s[j] ELSE s[j + 1]
  <2>1. CASE j < k
    BY <1>1, <1>2, <1>5, <2>1
  <2>2. CASE ~(j < k)
    <3>1. j - (k - 1) \in 1 .. Len(s) - k /\ (j - (k - 1)) + k = j + 1
      BY <1>1, <2>2
    <3>2. (a \o b)[j] = b[j - (k - 1)]
      BY <1>1, <1>5, <2>2
    <3> QED
      BY <1>3, <2>2, <3>1, <3>2
  <2> QED
    BY <2>1, <2>2
<1> QED
  BY <1>4, <1>5, <1>6

\* What is said about topics of a queue that grows.
LEMMA TopicsAppend ==
    ASSUME NEW S, NEW s \in Seq(S), NEW e \in S
    PROVE  /\ AboutTopics(Append(s, e)) <=> AboutTopics(s) \/ e.call = "topics"
           /\ OneAboutTopics(s) /\ ~(AboutTopics(s) /\ e.call = "topics")
                 => OneAboutTopics(Append(s, e))
<1> DEFINE t == Append(s, e)
<1>1. Len(s) \in Nat /\ DOMAIN s = 1 .. Len(s) /\ DOMAIN t = 1 .. Len(s) + 1
  OBVIOUS
<1>2. t[Len(s) + 1] = e /\ \A i \in 1 .. Len(s) : t[i] = s[i]
  OBVIOUS
<1> HIDE DEF t
<1> QED
  <2>1. AboutTopics(t) <=> AboutTopics(s) \/ e.call = "topics"
    BY <1>1, <1>2 DEF AboutTopics
  <2>2. OneAboutTopics(s) /\ ~(AboutTopics(s) /\ e.call = "topics") => OneAboutTopics(t)
    BY <1>1, <1>2 DEF AboutTopics, OneAboutTopics
  <2> QED
    BY <2>1, <2>2 DEF t

\* What is said of one that loses an element.
LEMMA TopicsRemoveAt ==
    ASSUME NEW S, NEW s \in Seq(S), NEW k \in DOMAIN s
    PROVE  /\ AboutTopics(s) <=> AboutTopics(RemoveAt(s, k)) \/ s[k].call = "topics"
           /\ OneAboutTopics(s) =>
                 /\ OneAboutTopics(RemoveAt(s, k))
                 /\ ~(AboutTopics(RemoveAt(s, k)) /\ s[k].call = "topics")
<1> DEFINE t == RemoveAt(s, k)
<1>1. Len(s) \in Nat /\ DOMAIN s = 1 .. Len(s) /\ k \in 1 .. Len(s)
  OBVIOUS
<1>2. DOMAIN t = 1 .. Len(s) - 1
  BY RemoveAtIs
<1>3. \A j \in 1 .. Len(s) - 1 : t[j] = IF j < k THEN s[j] ELSE s[j + 1]
  BY RemoveAtIs
<1> HIDE DEF t
<1>4. AboutTopics(t) <=> \E i \in DOMAIN s : i # k /\ s[i].call = "topics"
  <2>1. ASSUME NEW i \in DOMAIN s, i # k, s[i].call = "topics"
        PROVE  AboutTopics(t)
    <3>1. CASE i < k
      <4>1. i \in DOMAIN t /\ t[i] = s[i]
        BY <1>1, <1>2, <1>3, <3>1
      <4> QED
        BY <2>1, <4>1 DEF AboutTopics
    <3>2. CASE i > k
      <4>1. i - 1 \in DOMAIN t /\ t[i - 1] = s[i]
        BY <1>1, <1>2, <1>3, <3>2
      <4> QED
        BY <2>1, <4>1 DEF AboutTopics
    <3> QED
      BY <1>1, <2>1, <3>1, <3>2
  <2>2. ASSUME NEW j \in DOMAIN t, t[j].call = "topics"
        PROVE  \E i \in DOMAIN s : i # k /\ s[i].call = "topics"
    BY <1>1, <1>2, <1>3, <2>2
  <2> QED
    BY <2>1, <2>2 DEF AboutTopics
<1>5. OneAboutTopics(s) => OneAboutTopics(t)
  <2> SUFFICES ASSUME OneAboutTopics(s), NEW i \in DOMAIN t, NEW j \in DOMAIN t,
                      t[i].call = "topics", t[j].call = "topics"
               PROVE  i = j
    BY DEF OneAboutTopics
  <2> DEFINE from(n) == IF n < k THEN n ELSE n + 1
  <2>1. from(i) \in DOMAIN s /\ t[i] = s[from(i)] /\ from(j) \in DOMAIN s /\ t[j] = s[from(j)]
    BY <1>1, <1>2, <1>3
  <2>2. from(i) = from(j)
    BY <2>1 DEF OneAboutTopics
  <2> QED
    BY <1>1, <1>2, <2>2
<1> QED
  <2>1. AboutTopics(s) <=> AboutTopics(t) \/ s[k].call = "topics"
    BY <1>4 DEF AboutTopics
  <2>2. OneAboutTopics(s) => ~(AboutTopics(t) /\ s[k].call = "topics")
    BY <1>4 DEF OneAboutTopics
  <2> QED
    BY <1>5, <2>1, <2>2 DEF t

\* To take the head is to lose the first element.
LEMMA TailIsRemoveAt ==
    ASSUME NEW S, NEW s \in Seq(S), s # <<>>
    PROVE  /\ 1 \in DOMAIN s
           /\ Head(s) = s[1]
           /\ Tail(s) = RemoveAt(s, 1)
<1>1. 1 \in DOMAIN s /\ Head(s) = s[1] /\ Len(s) \in Nat /\ Len(s) > 0
  OBVIOUS
<1>2. Tail(s) \in Seq(S) /\ Len(Tail(s)) = Len(s) - 1
  BY <1>1
<1>3. \A i \in 1 .. Len(s) - 1 : Tail(s)[i] = s[i + 1]
  BY <1>1
<1>4. /\ RemoveAt(s, 1) \in Seq(S)
      /\ Len(RemoveAt(s, 1)) = Len(s) - 1
      /\ \A j \in 1 .. Len(s) - 1 : RemoveAt(s, 1)[j] = s[j + 1]
  BY <1>1, RemoveAtIs
<1>5. Tail(s) = RemoveAt(s, 1)
  BY <1>1, <1>2, <1>3, <1>4
<1> QED
  BY <1>1, <1>5

\* How many calls of a queue are about topics, when there are no two.
LEMMA TopicsCount ==
    ASSUME NEW s, OneAboutTopics(s)
    PROVE  Cardinality({i \in DOMAIN s : s[i].call = "topics"})
              = IF AboutTopics(s) THEN 1 ELSE 0
<1> DEFINE P == {i \in DOMAIN s : s[i].call = "topics"}
<1>1. CASE AboutTopics(s)
  <2>1. PICK k \in DOMAIN s : s[k].call = "topics"
    BY <1>1 DEF AboutTopics
  <2>2. P = {k}
    BY <2>1 DEF OneAboutTopics
  <2> QED
    BY <1>1, <2>2, FS_Singleton
<1>2. CASE ~AboutTopics(s)
  <2>1. P = {}
    BY <1>2 DEF AboutTopics
  <2> QED
    BY <1>2, <2>1, FS_EmptySet
<1> QED
  BY <1>1, <1>2

-----------------------------------------------------------------------------
(* The answers on their way.                                               *)

\* An answer that changes nothing the page offers may join the others.
LEMMA OtherAnswer ==
    ASSUME NEW s \in Seq(ReplyCall), NEW e \in ReplyCall, ~Tells(e),
           NEW offered, NEW topic, WillOffer(s, offered, topic)
    PROVE  WillOffer(Append(s, e), offered, topic)
<1> DEFINE t == Append(s, e)
<1>1. Len(s) \in Nat /\ DOMAIN s = 1 .. Len(s) /\ DOMAIN t = 1 .. Len(s) + 1
  OBVIOUS
<1>2. t[Len(s) + 1] = e /\ \A i \in 1 .. Len(s) : t[i] = s[i]
  OBVIOUS
<1>3. \A j \in DOMAIN t : j = Len(s) + 1 \/ (j \in DOMAIN s /\ t[j] = s[j])
  BY <1>1, <1>2
<1> HIDE DEF t
<1>4. CASE \A i \in DOMAIN s : ~Tells(s[i])
  <2>1. offered = topic
    BY <1>4 DEF WillOffer, Tells
  <2> QED
    BY <1>2, <1>3, <1>4, <2>1 DEF WillOffer, t
<1>5. CASE \E i \in DOMAIN s : Tells(s[i])
  <2>1. PICK i \in DOMAIN s :
            /\ TellsMove(s[i])
            /\ s[i].topic = topic
            /\ \A j \in DOMAIN s : j > i => ~Tells(s[j])
    BY <1>5 DEF WillOffer
  <2>2. i \in DOMAIN t /\ t[i] = s[i]
    BY <1>1, <1>2
  <2>3. \A j \in DOMAIN t : j > i => ~Tells(t[j])
    BY <1>2, <1>3, <2>1
  <2> QED
    BY <2>1, <2>2, <2>3 DEF WillOffer, t
<1> QED
  BY <1>4, <1>5

\* An answer that tells of a move decides, behind all others.
LEMMA MoveAnswer ==
    ASSUME NEW s \in Seq(ReplyCall), NEW e \in ReplyCall, TellsMove(e),
           NEW offered
    PROVE  WillOffer(Append(s, e), offered, e.topic)
<1> DEFINE t == Append(s, e)
<1>1. Len(s) \in Nat /\ DOMAIN t = 1 .. Len(s) + 1 /\ t[Len(s) + 1] = e
  OBVIOUS
<1> HIDE DEF t
<1>2. Len(s) + 1 \in DOMAIN t /\ \A j \in DOMAIN t : ~(j > Len(s) + 1)
  BY <1>1
<1> QED
  BY <1>1, <1>2 DEF WillOffer, t

\* The first answer arrives: if it tells of a move the page has its topic, if
\* it tells nothing the page keeps what it has.
LEMMA AnswerArrives ==
    ASSUME NEW s \in Seq(ReplyCall), s # <<>>, NEW offered, NEW topic,
           WillOffer(s, offered, topic), NEW now,
           TellsMove(Head(s)) => now = Head(s).topic,
           ~Tells(Head(s)) => now = offered
    PROVE  WillOffer(Tail(s), now, topic)
<1> DEFINE t == Tail(s)
<1>1. /\ Len(s) \in Nat /\ DOMAIN s = 1 .. Len(s) /\ 1 \in DOMAIN s /\ Head(s) = s[1]
      /\ DOMAIN t = 1 .. Len(s) - 1
  OBVIOUS
<1>2. \A j \in DOMAIN t : j + 1 \in DOMAIN s /\ t[j] = s[j + 1]
  BY <1>1
<1> HIDE DEF t
<1>3. CASE \A i \in DOMAIN s : ~Tells(s[i])
  <2>1. offered = topic
    BY <1>3 DEF WillOffer, Tells
  <2>2. \A j \in DOMAIN t : ~Tells(t[j])
    BY <1>2, <1>3
  <2>3. now = offered
    BY <1>1, <1>3
  <2> QED
    BY <2>1, <2>2, <2>3 DEF WillOffer, t
<1>4. CASE \E i \in DOMAIN s : Tells(s[i])
  <2>1. PICK i \in DOMAIN s :
            /\ TellsMove(s[i])
            /\ s[i].topic = topic
            /\ \A j \in DOMAIN s : j > i => ~Tells(s[j])
    BY <1>4 DEF WillOffer
  <2>2. CASE i = 1
    <3>1. now = topic
      BY <1>1, <2>1, <2>2
    <3>2. \A j \in DOMAIN t : ~Tells(t[j])
      BY <1>1, <1>2, <2>1, <2>2
    <3> QED
      BY <3>1, <3>2 DEF WillOffer, t
  <2>3. CASE i # 1
    <3>1. i - 1 \in DOMAIN t /\ t[i - 1] = s[i]
      BY <1>1, <1>2, <2>3
    <3>2. \A j \in DOMAIN t : j > i - 1 => ~Tells(t[j])
      BY <1>1, <1>2, <2>1
    <3> QED
      BY <2>1, <3>1, <3>2 DEF WillOffer, t
  <2> QED
    BY <2>2, <2>3
<1> QED
  BY <1>3, <1>4

\* A call joins the others, or the first is taken.
LEMMA ResetAppend ==
    ASSUME NEW s \in Seq(Call), NEW e \in Call
    PROVE  WillReset(Append(s, e)) <=> WillReset(s) \/ e.call \in {"focus", "undo"}
<1> DEFINE t == Append(s, e)
<1>1. Len(s) \in Nat /\ DOMAIN s = 1 .. Len(s) /\ DOMAIN t = 1 .. Len(s) + 1
  OBVIOUS
<1>2. t[Len(s) + 1] = e /\ \A i \in 1 .. Len(s) : t[i] = s[i]
  OBVIOUS
<1> HIDE DEF t
<1>3. WillReset(t) <=> WillReset(s) \/ e.call \in {"focus", "undo"}
  BY <1>1, <1>2 DEF WillReset
<1> QED
  BY <1>3 DEF t

\* A call about topics is taken: those that empty the record are still there.
LEMMA ResetTail ==
    ASSUME NEW s \in Seq(Call), s # <<>>, Head(s).call = "topics", WillReset(s)
    PROVE  WillReset(Tail(s))
<1>1. /\ Len(s) \in Nat /\ DOMAIN s = 1 .. Len(s) /\ Head(s) = s[1]
      /\ DOMAIN Tail(s) = 1 .. Len(s) - 1
  OBVIOUS
<1>2. \A j \in DOMAIN Tail(s) : Tail(s)[j] = s[j + 1]
  BY <1>1
<1>3. PICK i \in DOMAIN s : s[i].call \in {"focus", "undo"}
  BY DEF WillReset
<1>4. i # 1
  BY <1>1, <1>3
<1>5. i - 1 \in DOMAIN Tail(s) /\ Tail(s)[i - 1] = s[i]
  BY <1>1, <1>2, <1>4
<1> QED
  BY <1>3, <1>5 DEF WillReset

-----------------------------------------------------------------------------
(* The steps.                                                              *)

\* The invariant holds when the page is opened.
LEMMA InitIInv == Init => IInv
<1> SUFFICES ASSUME Init PROVE IInv
  OBVIOUS
<1>1. TypeOK
  <2>1. errorMessage \in BOOLEAN /\ needsPremium \in BOOLEAN /\ isLoadingTopics \in BOOLEAN
    BY Zenon DEF Init
  <2>2. moves = <<>> /\ asked = <<>> /\ replies = <<>> /\ calls = <<>>
    BY DEF Init, InitHandler
  <2>3. undoTopic \in Topic /\ requests \in Nat
    BY PageAssumption DEF Init
  <2> QED
    BY <2>1, <2>2, <2>3 DEF TypeOK
<1>2. LoadingInv
  BY DEF Init, InitHandler, LoadingInv, OneAboutTopics, AboutTopics
<1>3. UndoInv
  BY DEF Init, InitHandler, UndoInv
<1> QED
  BY <1>1, <1>2, <1>3 DEF IInv

\* getFocusTabs: the call will empty the record.
LEMMA FocusClickKeepsIInv ==
    ASSUME IInv, NEW topic \in Topic, getFocusTabs(topic)
    PROVE  IInv'
<1> DEFINE c == [call |-> "focus", topic |-> topic]
<1>1. /\ calls' = Append(calls, c)
      /\ UNCHANGED <<strip, created, record, edits, moves, disturbed, asked, replies,
                     errorMessage, needsPremium, isLoadingTopics>>
      /\ undoTopic' = Blank
      /\ requests' = requests + 1
  BY DEF getFocusTabs, Send, handlerVars, tabVars
<1>2. c \in Call
  BY DEF Call, AskedCall
<1>3. TypeOK'
  BY <1>1, <1>2, PageAssumption DEF IInv, TypeOK
<1>4. calls \in Seq(Call)
  BY DEF IInv, TypeOK
<1>5. /\ AboutTopics(calls') <=> AboutTopics(calls)
      /\ OneAboutTopics(calls) => OneAboutTopics(calls')
  BY <1>1, <1>2, <1>4, TopicsAppend
<1>6. LoadingInv'
  BY <1>1, <1>5 DEF IInv, LoadingInv
<1>7. WillReset(calls')
  BY <1>1, <1>2, <1>4, ResetAppend
<1>8. UndoInv'
  BY <1>7 DEF UndoInv
<1> QED
  BY <1>3, <1>6, <1>8 DEF IInv

\* onUndoClicked: so will this one.
LEMMA UndoClickKeepsIInv ==
    ASSUME IInv, onUndoClicked
    PROVE  IInv'
<1> DEFINE c == [call |-> "undo"]
<1>1. /\ calls' = Append(calls, c)
      /\ UNCHANGED <<strip, created, record, edits, moves, disturbed, asked, replies,
                     undoTopic, errorMessage, needsPremium, isLoadingTopics, requests>>
  BY DEF onUndoClicked, Send, handlerVars, tabVars, pageVars
<1>2. c \in Call
  BY DEF Call
<1>3. TypeOK'
  BY <1>1, <1>2 DEF IInv, TypeOK
<1>4. calls \in Seq(Call)
  BY DEF IInv, TypeOK
<1>5. /\ AboutTopics(calls') <=> AboutTopics(calls)
      /\ OneAboutTopics(calls) => OneAboutTopics(calls')
  BY <1>1, <1>2, <1>4, TopicsAppend
<1>6. LoadingInv'
  BY <1>1, <1>5 DEF IInv, LoadingInv
<1>7. WillReset(calls')
  BY <1>1, <1>2, <1>4, ResetAppend
<1>8. UndoInv'
  BY <1>7 DEF UndoInv
<1> QED
  BY <1>3, <1>6, <1>8 DEF IInv

\* maybeUpdateSuggestedTopics: asked only when nothing is loading.
LEMMA TopicsKeepIInv ==
    ASSUME IInv, maybeUpdateSuggestedTopics
    PROVE  IInv'
<1> DEFINE c == [call |-> "topics"]
<1>1. /\ calls' = Append(calls, c)
      /\ UNCHANGED <<strip, created, record, edits, moves, disturbed, asked, replies,
                     undoTopic, errorMessage, needsPremium>>
      /\ ~isLoadingTopics
      /\ isLoadingTopics' = TRUE
      /\ requests' = requests + 1
  BY DEF maybeUpdateSuggestedTopics, Send, handlerVars, tabVars
<1>2. c \in Call
  BY DEF Call, AskedCall
<1>3. TypeOK'
  BY <1>1, <1>2 DEF IInv, TypeOK
<1>4. calls \in Seq(Call)
  BY DEF IInv, TypeOK
<1>5. /\ AboutTopics(calls')
      /\ OneAboutTopics(calls) /\ ~AboutTopics(calls) => OneAboutTopics(calls')
  BY <1>1, <1>2, <1>4, TopicsAppend
<1>6. LoadingInv'
  BY <1>1, <1>5 DEF IInv, LoadingInv
<1>7. WillReset(calls) => WillReset(calls')
  BY <1>1, <1>2, <1>4, ResetAppend
<1>8. UndoInv'
  BY <1>1, <1>7 DEF IInv, UndoInv
<1> QED
  BY <1>3, <1>6, <1>8 DEF IInv

\* A step that leaves the queues, the record and the page's topic alone.
LEMMA OtherStepKeepsIInv ==
    ASSUME IInv, UNCHANGED <<record, moves, asked, replies, undoTopic, isLoadingTopics, calls>>,
           requests' = requests, errorMessage' \in BOOLEAN, needsPremium' \in BOOLEAN
    PROVE  IInv'
<1>1. TypeOK'
  BY DEF IInv, TypeOK
<1>2. LoadingInv'
  BY DEF IInv, LoadingInv
<1>3. UndoInv'
  BY DEF IInv, UndoInv
<1> QED
  BY <1>1, <1>2, <1>3 DEF IInv

\* onAnswer: the first answer arrives.
LEMMA AnswerKeepsIInv ==
    ASSUME IInv, onAnswer
    PROVE  IInv'
<1> DEFINE r == Head(replies)
<1>1. /\ replies # <<>>
      /\ replies' = Tail(replies)
      /\ UNCHANGED <<strip, created, record, edits, moves, disturbed, asked, calls, requests>>
  BY DEF onAnswer, tabVars
<1>2. replies \in Seq(ReplyCall) /\ r \in ReplyCall /\ Tail(replies) \in Seq(ReplyCall)
  BY <1>1 DEF IInv, TypeOK
<1>3. \/ /\ r.call = "undo" /\ undoTopic' = Blank
         /\ UNCHANGED <<errorMessage, needsPremium, isLoadingTopics>>
      \/ /\ r.call = "focus" /\ ShowError(r.error)
         /\ undoTopic' = IF r.error = "none" /\ r.windowCreated THEN r.topic ELSE undoTopic
         /\ UNCHANGED isLoadingTopics
      \/ /\ r.call = "topics" /\ ShowError(r.error)
         /\ isLoadingTopics' = FALSE
         /\ UNCHANGED undoTopic
  BY DEF onAnswer, LoadingAfter
<1>4. ASSUME NEW e, ShowError(e)
      PROVE  errorMessage' \in BOOLEAN /\ needsPremium' \in BOOLEAN
  <2>1. needsPremium \in BOOLEAN
    BY DEF IInv, TypeOK
  <2>2. errorMessage' = (e # "none")
    BY <1>4 DEF ShowError
  <2>3. needsPremium' = TRUE \/ needsPremium' = FALSE \/ needsPremium' = needsPremium
    BY <1>4 DEF ShowError
  <2> QED
    BY <2>1, <2>2, <2>3, Zenon
<1>5. errorMessage' \in BOOLEAN /\ needsPremium' \in BOOLEAN
  <2>1. errorMessage \in BOOLEAN /\ needsPremium \in BOOLEAN
    BY DEF IInv, TypeOK
  <2> QED
    BY <1>3, <1>4, <2>1, Zenon
<1>6. isLoadingTopics' \in BOOLEAN
  <2>1. isLoadingTopics \in BOOLEAN
    BY DEF IInv, TypeOK
  <2> QED
    BY <1>3, <2>1, Zenon
<1>7. r.call = "focus" => r.topic \in Topic
  BY <1>2 DEF ReplyCall
<1>8. undoTopic' \in Topic
  BY <1>3, <1>7, PageAssumption DEF IInv, TypeOK
<1>9. TypeOK'
  BY <1>1, <1>2, <1>5, <1>6, <1>8 DEF IInv, TypeOK
<1>10. /\ AboutTopics(replies) <=> AboutTopics(replies') \/ r.call = "topics"
       /\ OneAboutTopics(replies) =>
             OneAboutTopics(replies') /\ ~(AboutTopics(replies') /\ r.call = "topics")
  <2>1. 1 \in DOMAIN replies /\ r = replies[1] /\ replies' = RemoveAt(replies, 1)
    BY <1>1, <1>2, TailIsRemoveAt
  <2> QED
    BY <1>2, <2>1, TopicsRemoveAt
<1>11. r.call = "topics" \/ isLoadingTopics' = isLoadingTopics
  BY <1>3
<1>12. r.call = "topics" => ~isLoadingTopics'
  BY <1>3
<1>13. LoadingInv'
  BY <1>1, <1>10, <1>11, <1>12 DEF IInv, LoadingInv
<1>14. /\ TellsMove(r) => undoTopic' = r.topic
       /\ ~Tells(r) => undoTopic' = undoTopic
  BY <1>3 DEF Tells, TellsMove
<1>15. ASSUME NEW topic, WillOffer(replies, undoTopic, topic)
       PROVE  WillOffer(replies', undoTopic', topic)
  BY <1>1, <1>2, <1>14, <1>15, AnswerArrives
<1>16. UndoInv'
  BY <1>1, <1>15 DEF IInv, UndoInv
<1> QED
  BY <1>9, <1>13, <1>16 DEF IInv

\* Deliver, of a request for topics: it goes from one queue to the next.
LEMMA DeliverTopicsKeepsIInv ==
    ASSUME IInv, calls # <<>>, calls' = Tail(calls), Head(calls).call = "topics",
           GetSuggestedTopics, UNCHANGED <<pageVars, requests>>
    PROVE  IInv'
<1> DEFINE c == [call |-> "topics"]
<1>1. /\ asked' = Append(asked, c)
      /\ UNCHANGED <<record, moves, replies, undoTopic, errorMessage, needsPremium,
                     isLoadingTopics, requests>>
  BY DEF GetSuggestedTopics, tabVars, pageVars
<1>2. c \in AskedCall
  BY DEF AskedCall
<1>3. calls \in Seq(Call) /\ asked \in Seq(AskedCall)
  BY DEF IInv, TypeOK
<1>4. calls' \in Seq(Call)
  BY <1>3
<1>5. TypeOK'
  BY <1>1, <1>2, <1>4 DEF IInv, TypeOK
<1>6. AboutTopics(calls) /\ ~AboutTopics(calls') /\ OneAboutTopics(calls')
  <2>1. 1 \in DOMAIN calls /\ Head(calls) = calls[1] /\ calls' = RemoveAt(calls, 1)
    BY <1>3, TailIsRemoveAt
  <2>2. /\ AboutTopics(calls) <=> AboutTopics(calls') \/ Head(calls).call = "topics"
        /\ OneAboutTopics(calls) =>
              OneAboutTopics(calls') /\ ~(AboutTopics(calls') /\ Head(calls).call = "topics")
    BY <1>3, <2>1, TopicsRemoveAt
  <2> QED
    BY <2>2 DEF IInv, LoadingInv
<1>7. /\ AboutTopics(asked')
      /\ OneAboutTopics(asked) /\ ~AboutTopics(asked) => OneAboutTopics(asked')
  BY <1>1, <1>2, <1>3, TopicsAppend
<1>8. LoadingInv'
  BY <1>1, <1>6, <1>7 DEF IInv, LoadingInv
<1>9. WillReset(calls) => WillReset(calls')
  BY <1>3, ResetTail
<1>10. UndoInv'
  BY <1>1, <1>9 DEF IInv, UndoInv
<1> QED
  BY <1>5, <1>8, <1>10 DEF IInv

\* Deliver, of a request to focus: the record is emptied before the assistant
\* is asked.
LEMMA DeliverFocusKeepsIInv ==
    ASSUME IInv, calls # <<>>, calls' = Tail(calls), Head(calls).call = "focus",
           GetFocusTabs(Head(calls).topic), UNCHANGED <<pageVars, requests>>
    PROVE  IInv'
<1> DEFINE c == [call |-> "focus", topic |-> Head(calls).topic]
<1>1. /\ asked' = Append(asked, c)
      /\ record' = EmptyRecord
      /\ moves' = <<>>
      /\ UNCHANGED <<replies, undoTopic, errorMessage, needsPremium, isLoadingTopics, requests>>
  BY DEF GetFocusTabs, pageVars
<1>2. calls \in Seq(Call) /\ asked \in Seq(AskedCall)
  BY DEF IInv, TypeOK
<1>3. Head(calls) \in Call
  BY <1>2
<1>4. c \in AskedCall
  BY <1>3 DEF Call, AskedCall
<1>5. calls' \in Seq(Call)
  BY <1>2
<1>6. TypeOK'
  BY <1>1, <1>4, <1>5 DEF IInv, TypeOK
<1>7. /\ AboutTopics(calls') <=> AboutTopics(calls)
      /\ OneAboutTopics(calls) => OneAboutTopics(calls')
  <2>1. 1 \in DOMAIN calls /\ Head(calls) = calls[1] /\ calls' = RemoveAt(calls, 1)
    BY <1>2, TailIsRemoveAt
  <2> QED
    BY <1>2, <2>1, TopicsRemoveAt
<1>8. /\ AboutTopics(asked') <=> AboutTopics(asked)
      /\ OneAboutTopics(asked) => OneAboutTopics(asked')
  BY <1>1, <1>2, <1>4, TopicsAppend
<1>9. LoadingInv'
  BY <1>1, <1>7, <1>8 DEF IInv, LoadingInv
<1>10. UndoInv'
  BY <1>1 DEF UndoInv, EmptyRecord
<1> QED
  BY <1>6, <1>9, <1>10 DEF IInv

\* Deliver, of an undo: the record is emptied, and the page will hear of it.
LEMMA DeliverUndoKeepsIInv ==
    ASSUME IInv, calls # <<>>, calls' = Tail(calls), Head(calls).call = "undo",
           UndoFocusTabs, UNCHANGED <<pageVars, requests>>
    PROVE  IInv'
<1> DEFINE r == [call |-> "undo"]
<1>1. /\ replies' = Append(replies, r)
      /\ record' = EmptyRecord
      /\ moves' = <<>>
      /\ UNCHANGED <<asked, undoTopic, errorMessage, needsPremium, isLoadingTopics, requests>>
  BY DEF UndoFocusTabs, RecordAfterUndo, Reply, pageVars
<1>2. calls \in Seq(Call) /\ replies \in Seq(ReplyCall)
  BY DEF IInv, TypeOK
<1>3. r \in ReplyCall
  BY DEF ReplyCall
<1>4. calls' \in Seq(Call)
  BY <1>2
<1>5. TypeOK'
  BY <1>1, <1>3, <1>4 DEF IInv, TypeOK
<1>6. /\ AboutTopics(calls') <=> AboutTopics(calls)
      /\ OneAboutTopics(calls) => OneAboutTopics(calls')
  <2>1. 1 \in DOMAIN calls /\ Head(calls) = calls[1] /\ calls' = RemoveAt(calls, 1)
    BY <1>2, TailIsRemoveAt
  <2> QED
    BY <1>2, <2>1, TopicsRemoveAt
<1>7. /\ AboutTopics(replies') <=> AboutTopics(replies)
      /\ OneAboutTopics(replies) => OneAboutTopics(replies')
  BY <1>1, <1>2, <1>3, TopicsAppend
<1>8. LoadingInv'
  BY <1>1, <1>6, <1>7 DEF IInv, LoadingInv
<1>9. UndoInv'
  BY <1>1 DEF UndoInv, EmptyRecord
<1> QED
  BY <1>5, <1>8, <1>9 DEF IInv

\* An answer of the assistant's moves from one queue to the next.
LEMMA AnswerMoves ==
    ASSUME TypeOK, LoadingInv, NEW i \in DOMAIN asked, NEW r \in ReplyCall,
           r.call = asked[i].call,
           asked' = RemoveAt(asked, i), replies' = Append(replies, r),
           UNCHANGED <<pageVars, calls, requests>>,
           moves' \in Seq({moves'[j] : j \in DOMAIN moves'})
    PROVE  TypeOK' /\ LoadingInv'
<1>1. asked \in Seq(AskedCall) /\ replies \in Seq(ReplyCall)
  BY DEF TypeOK
<1>2. asked' \in Seq(AskedCall)
  BY <1>1, RemoveAtIs
<1>3. UNCHANGED <<undoTopic, errorMessage, needsPremium, isLoadingTopics, calls, requests>>
  BY DEF pageVars
<1>4. TypeOK'
  BY <1>1, <1>2, <1>3 DEF TypeOK
<1>5. /\ AboutTopics(asked) <=> AboutTopics(asked') \/ asked[i].call = "topics"
      /\ OneAboutTopics(asked) =>
            OneAboutTopics(asked') /\ ~(AboutTopics(asked') /\ asked[i].call = "topics")
  BY <1>1, TopicsRemoveAt
<1>6. /\ AboutTopics(replies') <=> AboutTopics(replies) \/ r.call = "topics"
      /\ OneAboutTopics(replies) /\ ~(AboutTopics(replies) /\ r.call = "topics")
            => OneAboutTopics(replies')
  BY <1>1, TopicsAppend
<1>7. LoadingInv'
  BY <1>3, <1>5, <1>6 DEF LoadingInv
<1> QED
  BY <1>4, <1>7

\* An answer that moved no tab changes nothing the page offers.
LEMMA UneventfulAnswerKeepsIInv ==
    ASSUME IInv, NEW i \in DOMAIN asked, NEW r \in ReplyCall,
           r.call = asked[i].call, ~Tells(r),
           asked' = RemoveAt(asked, i), Reply(r),
           UNCHANGED <<tabVars, pageVars, calls, requests>>
    PROVE  IInv'
<1>1. UNCHANGED <<record, moves, undoTopic, calls>> /\ replies' = Append(replies, r)
  BY DEF tabVars, pageVars, Reply
<1>2. TypeOK' /\ LoadingInv'
  BY <1>1, AnswerMoves DEF IInv, TypeOK
<1>3. replies \in Seq(ReplyCall)
  BY DEF IInv, TypeOK
<1>4. ASSUME NEW topic, WillOffer(replies, undoTopic, topic)
      PROVE  WillOffer(replies', undoTopic', topic)
  BY <1>1, <1>3, <1>4, OtherAnswer
<1>5. UndoInv'
  BY <1>1, <1>4 DEF IInv, UndoInv
<1> QED
  BY <1>2, <1>5 DEF IInv

\* OnGetFocusTabs: a move and the answer that tells of it.
LEMMA MoveKeepsIInv ==
    ASSUME IInv, NEW i \in DOMAIN asked, NEW answer, OnGetFocusTabs(i, answer),
           UNCHANGED <<pageVars, calls, requests>>
    PROVE  IInv'
<1> DEFINE topic == asked[i].topic
           r(b) == [call |-> "focus", topic |-> topic, windowCreated |-> b, error |-> "none"]
           m == [topic |-> topic, strip |-> strip]
<1>1. /\ asked[i].call = "focus"
      /\ asked' = RemoveAt(asked, i)
      /\ \/ Reply(r(FALSE)) /\ UNCHANGED tabVars
         \/ Reply(r(TRUE)) /\ moves' = Append(moves, m)
  BY DEF OnGetFocusTabs, FocusReply
<1>2. asked \in Seq(AskedCall) /\ replies \in Seq(ReplyCall)
  BY DEF IInv, TypeOK
<1>3. topic \in Topic
  BY <1>1, <1>2 DEF AskedCall
<1>4. r(FALSE) \in ReplyCall /\ r(TRUE) \in ReplyCall
  BY <1>3 DEF ReplyCall
<1>5. CASE Reply(r(FALSE)) /\ UNCHANGED tabVars
  <2>1. ~Tells(r(FALSE))
    BY DEF Tells, TellsMove
  <2>2. r(FALSE).call = asked[i].call
    BY <1>1
  <2> HIDE DEF r
  <2> QED
    BY <1>1, <1>4, <1>5, <2>1, <2>2, UneventfulAnswerKeepsIInv
<1>6. CASE Reply(r(TRUE)) /\ moves' = Append(moves, m)
  <2>1. TellsMove(r(TRUE)) /\ r(TRUE).topic = topic /\ r(TRUE).call = asked[i].call
    BY <1>1 DEF TellsMove
  <2>2. replies' = Append(replies, r(TRUE))
    BY <1>6 DEF Reply
  <2>3. /\ moves' \in Seq({moves'[j] : j \in DOMAIN moves'})
        /\ moves' # <<>>
        /\ Last(moves').topic = topic
    <3> DEFINE T == {moves[j] : j \in DOMAIN moves} \cup {m}
    <3> HIDE DEF m
    <3>1. moves \in Seq({moves[j] : j \in DOMAIN moves})
      BY DEF IInv, TypeOK
    <3>2. moves \in Seq(T) /\ m \in T
      <4>1. \A j \in 1 .. Len(moves) : moves[j] \in T
        BY <3>1
      <4> QED
        BY <3>1, <4>1
    <3>3. /\ Len(moves) \in Nat /\ DOMAIN moves = 1 .. Len(moves)
          /\ moves' \in Seq(T) /\ Len(moves') = Len(moves) + 1
          /\ DOMAIN moves' = 1 .. Len(moves) + 1
          /\ moves'[Len(moves) + 1] = m
      BY <1>6, <3>2
    <3>4. \A j \in 1 .. Len(moves') : moves'[j] \in {moves'[k] : k \in DOMAIN moves'}
      BY <3>3
    <3>5. moves' \in Seq({moves'[j] : j \in DOMAIN moves'})
      BY <3>3, <3>4
    <3>6. moves' # <<>> /\ Last(moves') = m
      BY <3>3 DEF Last
    <3>7. m.topic = topic
      BY DEF m
    <3> QED
      BY <3>5, <3>6, <3>7
  <2>4. WillOffer(replies', undoTopic', topic)
    <3> HIDE DEF r
    <3> QED
      BY <1>2, <1>4, <2>1, <2>2, MoveAnswer
  <2>5. TypeOK' /\ LoadingInv'
    <3> HIDE DEF r
    <3> QED
      BY <1>1, <1>4, <2>1, <2>2, <2>3, AnswerMoves DEF IInv
  <2>6. UndoInv'
    BY <2>3, <2>4 DEF UndoInv
  <2> QED
    BY <2>5, <2>6 DEF IInv
<1> QED
  BY <1>1, <1>5, <1>6

\* AssistantAnswers: any request is answered, in any order.
LEMMA AssistantKeepsIInv ==
    ASSUME IInv, AssistantAnswers, UNCHANGED <<pageVars, calls, requests>>
    PROVE  IInv'
<1>1. PICK i \in DOMAIN asked :
          \/ OnGetSuggestedTopics(i)
          \/ \E answer \in Answers : OnGetFocusTabs(i, answer)
          \/ OnGetFocusTabsError(i)
  BY DEF AssistantAnswers
<1>2. asked \in Seq(AskedCall)
  BY DEF IInv, TypeOK
<1>3. CASE OnGetSuggestedTopics(i)
  <2> DEFINE r(e) == [call |-> "topics", error |-> e]
  <2>1. PICK e \in Errors \cup {"none"} : Reply(r(e))
    BY <1>3 DEF OnGetSuggestedTopics
  <2>2. asked[i].call = "topics" /\ asked' = RemoveAt(asked, i) /\ UNCHANGED tabVars
    BY <1>3 DEF OnGetSuggestedTopics
  <2>3. r(e) \in ReplyCall /\ r(e).call = asked[i].call /\ ~Tells(r(e))
    BY <2>2 DEF ReplyCall, Tells, TellsMove
  <2> HIDE DEF r
  <2> QED
    BY <2>1, <2>2, <2>3, UneventfulAnswerKeepsIInv
<1>4. CASE OnGetFocusTabsError(i)
  <2> DEFINE r(e) == [call |-> "focus", topic |-> asked[i].topic, windowCreated |-> FALSE,
                      error |-> e]
  <2>1. PICK e \in Errors : Reply(r(e))
    BY <1>4 DEF OnGetFocusTabsError, FocusReply
  <2>2. asked[i].call = "focus" /\ asked' = RemoveAt(asked, i) /\ UNCHANGED tabVars
    BY <1>4 DEF OnGetFocusTabsError
  <2>3. asked[i].topic \in Topic
    BY <1>2, <2>2 DEF AskedCall
  <2>4. r(e) \in ReplyCall /\ r(e).call = asked[i].call /\ ~Tells(r(e))
    BY <2>2, <2>3 DEF ReplyCall, Tells, TellsMove
  <2> HIDE DEF r
  <2> QED
    BY <2>1, <2>2, <2>4, UneventfulAnswerKeepsIInv
<1>5. CASE \E answer \in Answers : OnGetFocusTabs(i, answer)
  BY <1>5, MoveKeepsIInv
<1> QED
  BY <1>1, <1>3, <1>4, <1>5

\* Every step of the page, the handler, the assistant and the user keeps the
\* invariant.
THEOREM NextIInv == IInv /\ [Next]_vars => IInv'
<1> SUFFICES ASSUME IInv, [Next]_vars PROVE IInv'
  OBVIOUS
<1>1. requests' = requests /\ errorMessage' \in BOOLEAN /\ needsPremium' \in BOOLEAN
      /\ UNCHANGED <<record, moves, asked, replies, undoTopic, isLoadingTopics, calls>>
         => IInv'
  BY OtherStepKeepsIInv
<1>2. errorMessage \in BOOLEAN /\ needsPremium \in BOOLEAN
  BY DEF IInv, TypeOK
<1>3. CASE UNCHANGED vars
  <2>1. /\ requests' = requests /\ errorMessage' = errorMessage /\ needsPremium' = needsPremium
        /\ UNCHANGED <<record, moves, asked, replies, undoTopic, isLoadingTopics, calls>>
    BY <1>3 DEF vars, handlerVars, tabVars, pageVars
  <2> QED
    BY <1>1, <1>2, <2>1, Zenon
<1>4. CASE onDismissErrorClicked
  <2>1. /\ requests' = requests /\ errorMessage' = FALSE /\ needsPremium' = needsPremium
        /\ UNCHANGED <<record, moves, asked, replies, undoTopic, isLoadingTopics, calls>>
    BY <1>4 DEF onDismissErrorClicked, handlerVars, tabVars
  <2> QED
    BY <1>1, <1>2, <2>1, Zenon
<1>5. CASE Deliver
  <2>1. calls # <<>> /\ calls' = Tail(calls) /\ UNCHANGED <<pageVars, requests>>
    BY <1>5 DEF Deliver
  <2>2. \/ Head(calls).call = "topics" /\ GetSuggestedTopics
        \/ Head(calls).call = "focus" /\ GetFocusTabs(Head(calls).topic)
        \/ Head(calls).call = "undo" /\ UndoFocusTabs
    BY <1>5 DEF Deliver
  <2> QED
    BY <2>1, <2>2, DeliverTopicsKeepsIInv, DeliverFocusKeepsIInv, DeliverUndoKeepsIInv
<1>6. CASE Browser
  <2>1. UNCHANGED <<pageVars, calls, requests>>
    BY <1>6 DEF Browser
  <2>2. CASE AssistantAnswers
    BY <2>1, <2>2, AssistantKeepsIInv
  <2>3. CASE Edit
    <3>1. /\ requests' = requests /\ errorMessage' = errorMessage /\ needsPremium' = needsPremium
          /\ UNCHANGED <<record, moves, asked, replies, undoTopic, isLoadingTopics, calls>>
      BY <2>1, <2>3 DEF Edit, pageVars
    <3> QED
      BY <1>1, <1>2, <3>1, Zenon
  <2> QED
    BY <1>6, <2>2, <2>3 DEF Browser
<1> QED
  BY <1>3, <1>4, <1>5, <1>6, FocusClickKeepsIInv, UndoClickKeepsIInv, TopicsKeepIInv,
     AnswerKeepsIInv DEF Next

\* The invariant holds however calls, answers and edits are ordered.
THEOREM InvariantHolds == Spec => []IInv
  BY InitIInv, NextIInv, PTL DEF Spec

-----------------------------------------------------------------------------
(* The theorems.                                                           *)

\* The page, the pipe and the history of moves keep their types.
THEOREM TypeCorrect == Spec => []TypeOK
<1>1. IInv => TypeOK
  BY DEF IInv
<1> QED
  BY <1>1, InvariantHolds, PTL

\* Whatever the order of calls and answers, a page with no open call offers to
\* undo what the handler can undo, unless the last move was for the empty
\* topic (onAnswer, OnGetFocusTabs, UndoFocusTabs).
THEOREM PageOffersUndo == Spec => []UndoIsOffered
<1>1. IInv => UndoIsOffered
  <2> SUFFICES ASSUME IInv, Quiet, record # EmptyRecord
               PROVE  undoTopic # Blank \/ (moves # <<>> /\ Last(moves).topic = Blank)
    BY DEF UndoIsOffered
  <2>1. ~WillReset(calls)
    BY DEF Quiet, WillReset
  <2>2. moves # <<>> /\ WillOffer(replies, undoTopic, Last(moves).topic)
    BY <2>1 DEF IInv, UndoInv
  <2>3. undoTopic = Last(moves).topic
    BY <2>2 DEF Quiet, WillOffer
  <2> QED
    BY <2>2, <2>3
<1> QED
  BY <1>1, InvariantHolds, PTL

\* The page waits for topics exactly while one request for them is in one of
\* the three queues (maybeUpdateSuggestedTopics, onAnswer).
THEOREM OneRequestForTopics == Spec => []LoadingIsAsked
<1>1. IInv => LoadingIsAsked
  <2> SUFFICES ASSUME IInv PROVE LoadingIsAsked
    OBVIOUS
  <2> DEFINE Open(s) == Cardinality({i \in DOMAIN s : s[i].call = "topics"})
  <2>1. /\ Open(calls) = IF AboutTopics(calls) THEN 1 ELSE 0
        /\ Open(asked) = IF AboutTopics(asked) THEN 1 ELSE 0
        /\ Open(replies) = IF AboutTopics(replies) THEN 1 ELSE 0
    BY TopicsCount DEF IInv, LoadingInv
  <2>2. Open(calls) + Open(asked) + Open(replies) = IF isLoadingTopics THEN 1 ELSE 0
    <3> HIDE DEF Open
    <3> QED
      BY <2>1 DEF IInv, LoadingInv
  <2> QED
    BY <2>2 DEF LoadingIsAsked
<1> QED
  BY <1>1, InvariantHolds, PTL

=============================================================================
