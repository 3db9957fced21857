------------------------- MODULE ConversationProofs -------------------------
(***************************************************************************)
(* Proofs about Conversation, for any chats, history, channel and limits:   *)
(* its types, with the bound on the rounds of one answer; that the model is *)
(* asked with the message of the chat; and that every message of results    *)
(* follows the calls it answers.                                            *)
(***************************************************************************)
EXTENDS Conversation, FiniteSetTheorems, SequenceTheorems, TLAPS

ChatRows == [user : {"user", "assistant"}, of : Chats, time : 0..MaxClock, empty : BOOLEAN]
Rows == History \cup ChatRows
Messages == [user : {"user", "assistant"}, calls : Seq(Nat)]
              \cup [user : {"user", "assistant"}, results : Seq(Nat)]

(* What the handlers and the store keep, *)
HandlerType ==
  /\ clock \in 0..MaxClock /\ cleared \in BOOLEAN
  /\ rows \subseteq Rows
  /\ pc \in [Chats -> {"new", "add", "stream", "answer", "done"}]
  /\ now \in [Chats -> 0..MaxClock] /\ said \in [Chats -> 0..MaxClock]
  /\ blank \in [Chats -> BOOLEAN] /\ lost \in [Chats -> BOOLEAN]

(* and the goroutines with their channels. *)
GoroutineType ==
  /\ gpc \in [Chats -> {"none", "build", "ask", "read", "tools", "fail", "close", "ended"}]
  /\ window \in [Chats -> Seq(Rows)] /\ exchange \in [Chats -> Seq(Messages)]
  /\ calls \in [Chats -> Nat] /\ results \in [Chats -> Seq(Nat)]
  /\ buffered \in [Chats -> 0..Capacity] /\ closed \in [Chats -> BOOLEAN]

(* Two messages a round: while the model may be asked again there is a round *)
(* left, and the goroutine starts with none.                                 *)
Bounded(c) ==
  /\ Len(window[c]) <= HistoryLimit
  /\ calls[c] <= MaxCalls[c] /\ Len(results[c]) <= calls[c]
  /\ gpc[c] # "tools" => results[c] = <<>>
  /\ \E n \in 0..MaxIterations :
       /\ Len(exchange[c]) = 2 * n
       /\ gpc[c] \in {"ask", "read", "tools", "fail"} => n < MaxIterations
       /\ gpc[c] \in {"none", "build"} => n = 0
  /\ pc[c] \in {"new", "add"} => gpc[c] = "none"

TypeInv == HandlerType /\ GoroutineType /\ \A c \in Chats : Bounded(c)

LEMMA TypeInit == Init => TypeInv
<1> SUFFICES ASSUME Init PROVE TypeInv
  OBVIOUS
<1> USE ConversationAssumption
<1>1. HandlerType
  <2>1. 0 \in 0..MaxClock /\ rows \subseteq Rows
    BY DEF Init, Rows
  <2> QED
    BY <2>1 DEF Init, HandlerType
<1>2. GoroutineType
  BY DEF Init, GoroutineType
<1>3. ASSUME NEW c \in Chats PROVE Bounded(c)
  <2>1. /\ window[c] = <<>> /\ exchange[c] = <<>> /\ calls[c] = 0 /\ results[c] = <<>>
        /\ gpc[c] = "none" /\ MaxCalls[c] \in Nat
    BY DEF Init
  <2>2. 0 \in 0..MaxIterations /\ Len(exchange[c]) = 2 * 0 /\ 0 < MaxIterations
    BY <2>1
  <2> QED
    BY <2>1, <2>2 DEF Bounded
<1> QED
  BY <1>1, <1>2, <1>3 DEF TypeInv

(* A step that leaves the messages of every chat alone, and does not start   *)
(* or ask, keeps the bounds.                                                 *)
LEMMA BoundedKept ==
  ASSUME TypeInv, NEW d \in Chats, Bounded(d),
         window'[d] = window[d], exchange'[d] = exchange[d],
         calls'[d] = calls[d], results'[d] = results[d],
         \/ gpc'[d] = gpc[d] /\ (pc'[d] \in {"new", "add"} => pc[d] \in {"new", "add"})
         \/ /\ pc'[d] \notin {"new", "add"} /\ gpc[d] # "tools"
            /\ gpc'[d] \notin {"none", "build"}
            /\ gpc'[d] \in {"ask", "read", "tools", "fail"}
                 => gpc[d] \in {"ask", "read", "tools", "fail"}
         \/ gpc[d] = "none" /\ gpc'[d] = "build" /\ pc'[d] \notin {"new", "add"}
         \/ gpc[d] = "build" /\ gpc'[d] = "ask" /\ pc'[d] \notin {"new", "add"}
  PROVE  Bounded(d)'
<1>1. PICK n \in 0..MaxIterations :
        /\ Len(exchange[d]) = 2 * n
        /\ gpc[d] \in {"ask", "read", "tools", "fail"} => n < MaxIterations
        /\ gpc[d] \in {"none", "build"} => n = 0
  BY DEF Bounded
<1>2. /\ Len(exchange'[d]) = 2 * n
      /\ gpc'[d] \in {"ask", "read", "tools", "fail"} => n < MaxIterations
      /\ gpc'[d] \in {"none", "build"} => n = 0
  BY <1>1, ConversationAssumption
<1>3. pc'[d] \in {"new", "add"} => gpc'[d] = "none"
  BY DEF Bounded
<1>4. /\ Len(window'[d]) <= HistoryLimit
      /\ calls'[d] <= MaxCalls[d] /\ Len(results'[d]) <= calls'[d]
      /\ gpc'[d] # "tools" => results'[d] = <<>>
  BY DEF Bounded
<1> QED
  BY <1>2, <1>3, <1>4 DEF Bounded

LEMMA HandlerTypes ==
  ASSUME TypeInv, NEW c \in Chats, Refuse(c) \/ Receive(c) \/ Handler(c)
  PROVE  TypeInv'
<1>0. HandlerType /\ GoroutineType /\ \A d \in Chats : Bounded(d)
  BY DEF TypeInv
<1>1. Question(c) \in ChatRows
  BY <1>0 DEF HandlerType, Question, Row, ChatRows
<1>2. \A t \in 0..MaxClock : \A b \in BOOLEAN : Row("assistant", c, t, b) \in ChatRows
  BY DEF Row, ChatRows
<1>3. HandlerType'
  <2>1. CASE Refuse(c) \/ Receive(c)
    BY <1>0, <2>1 DEF HandlerType, Refuse, Receive, Goto, storeVars
  <2>2. CASE AddQuestion(c)
    BY <1>0, <1>1, <2>2 DEF HandlerType, AddQuestion, Goto, Rows
  <2>3. CASE Take(c) \/ EndOfTokens(c)
    BY <1>0, <2>3 DEF HandlerType, Take, EndOfTokens, Goto, storeVars
  <2>4. CASE AddAnswer(c)
    <3>1. now[c] \in 0..MaxClock /\ blank[c] \in BOOLEAN
      BY <1>0 DEF HandlerType
    <3>2. Row("assistant", c, now[c], blank[c]) \in Rows
      BY <1>2, <3>1 DEF Rows
    <3> QED
      BY <1>0, <2>4, <3>2, ConversationAssumption DEF HandlerType, AddAnswer, Goto
  <2> QED
    BY <2>1, <2>2, <2>3, <2>4 DEF Handler
<1>4. GoroutineType'
  <2>1. CASE AddQuestion(c)
    BY <1>0, <2>1 DEF GoroutineType, AddQuestion, Go, exchangeVars, chanVars
  <2>2. CASE Take(c)
    BY <1>0, <2>2, ConversationAssumption DEF GoroutineType, Take, exchangeVars
  <2>3. CASE Refuse(c) \/ Receive(c) \/ EndOfTokens(c) \/ AddAnswer(c)
    BY <1>0, <2>3 DEF GoroutineType, Refuse, Receive, EndOfTokens, AddAnswer, exchangeVars, chanVars
  <2> QED
    BY <2>1, <2>2, <2>3 DEF Handler
<1>5. ASSUME NEW d \in Chats PROVE Bounded(d)'
  <2>1. UNCHANGED exchangeVars
    BY DEF Refuse, Receive, Handler, AddQuestion, Take, EndOfTokens, AddAnswer
  <2>2. window' = window /\ exchange' = exchange /\ calls' = calls /\ results' = results
    BY <2>1 DEF exchangeVars
  <2>3. CASE AddQuestion(c)
    <3>1. pc[c] = "add" /\ pc' = [pc EXCEPT ![c] = "stream"] /\ gpc' = [gpc EXCEPT ![c] = "build"]
      BY <2>3 DEF AddQuestion, Goto, Go
    <3>2. gpc[c] = "none"
      BY <1>0, <3>1 DEF Bounded
    <3>3. /\ d = c => gpc'[d] = "build" /\ pc'[d] = "stream"
          /\ d # c => gpc'[d] = gpc[d] /\ pc'[d] = pc[d]
      BY <1>0, <3>1 DEF HandlerType, GoroutineType
    <3>4. CASE d = c
      BY <1>0, <2>2, <3>2, <3>3, <3>4, BoundedKept
    <3>5. CASE d # c
      BY <1>0, <2>2, <3>3, <3>5, BoundedKept
    <3> QED
      BY <3>4, <3>5
  <2>4. CASE ~AddQuestion(c)
    <3>1. gpc' = gpc
      BY <2>4 DEF Refuse, Receive, Handler, AddQuestion, Take, EndOfTokens, AddAnswer
    <3>2. pc'[d] \in {"new", "add"} => pc[d] \in {"new", "add"}
      <4>1. \/ pc' = pc
            \/ pc[c] = "new" /\ \E l \in {"done", "add"} : pc' = [pc EXCEPT ![c] = l]
            \/ \E l \in {"answer", "done"} : pc' = [pc EXCEPT ![c] = l]
        BY <2>4 DEF Refuse, Receive, Handler, Take, EndOfTokens, AddAnswer, Goto
      <4> QED
        BY <1>0, <4>1 DEF HandlerType
    <3> QED
      BY <1>0, <2>2, <3>1, <3>2, BoundedKept
  <2> QED
    BY <2>3, <2>4
<1> QED
  BY <1>3, <1>4, <1>5 DEF TypeInv

(* The chronological sequences of the latest rows, as a chat may see them.   *)
LEMMA WindowFacts ==
  ASSUME TypeInv, NEW w \in Windows, IsFiniteSet(rows)
  PROVE  /\ w \in Seq(Rows) /\ Len(w) <= HistoryLimit /\ Chronological(w)
         /\ \E S \in SUBSET rows :
              /\ Latest(S) /\ \A i \in DOMAIN w : w[i] \in S
              /\ \A r \in S : \E i \in DOMAIN w : w[i] = r
              /\ S # rows => Len(w) = HistoryLimit
<1> DEFINE n == Min({HistoryLimit, Cardinality(rows)})
<1>1. /\ Cardinality(rows) \in Nat /\ HistoryLimit \in Nat
  BY FS_CardinalityType, ConversationAssumption
<1>2. /\ n \in Nat /\ n <= HistoryLimit /\ n <= Cardinality(rows)
      /\ n = HistoryLimit \/ n = Cardinality(rows)
  <2> DEFINE T == {HistoryLimit, Cardinality(rows)}
  <2>1. \E x \in T : \A y \in T : x <= y
    BY <1>1
  <2>2. n \in T /\ \A y \in T : n <= y
    BY <2>1 DEF Min
  <2> QED
    BY <1>1, <2>2
<1> HIDE DEF n
<1>3. PICK S \in kSubset(n, rows) : Latest(S) /\ w \in SetToSeqs(S)
  BY DEF Windows, n
<1>4. Chronological(w)
  BY DEF Windows
<1>5. S \subseteq rows /\ Cardinality(S) = n
  BY <1>3 DEF kSubset
<1>6. /\ w \in [1..n -> S]
      /\ \A i, j \in 1..n : i # j => w[i] # w[j]
  BY <1>3, <1>5 DEF SetToSeqs
<1>7. w \in Seq(S) /\ Len(w) = n /\ DOMAIN w = 1..n
  BY <1>2, <1>6
<1>8. rows \subseteq Rows
  BY DEF TypeInv, HandlerType
<1>9. w \in Seq(Rows)
  BY <1>2, <1>5, <1>6, <1>8
<1>10. \A r \in S : \E i \in DOMAIN w : w[i] = r
  <2>1. IsFiniteSet(S)
    BY <1>5, FS_Subset
  <2>2. w \in Injection(1..n, S)
    BY <1>6 DEF Injection, IsInjective
  <2>3. Cardinality(1..n) = n
    BY <1>2, FS_Interval
  <2>4. w \in Surjection(1..n, S)
    BY <1>5, <2>1, <2>2, <2>3, FS_Injection
  <2> QED
    BY <1>7, <2>4 DEF Surjection
<1>11. S # rows => Len(w) = HistoryLimit
  BY <1>2, <1>5, <1>7, FS_Subset
<1> QED
  BY <1>2, <1>3, <1>4, <1>5, <1>6, <1>7, <1>9, <1>10, <1>11

LEMMA GoroutineTypes ==
  ASSUME TypeInv, IsFiniteSet(rows), NEW c \in Chats, Token(c) \/ Goroutine(c)
  PROVE  TypeInv'
<1>0. HandlerType /\ GoroutineType /\ \A d \in Chats : Bounded(d)
  BY DEF TypeInv
<1>1. UNCHANGED <<handlerVars, storeVars>>
  BY DEF Token, Goroutine, Build, Ask, Answer, AnswerFails, RunTool, Again, Fail, Close
<1>2. HandlerType'
  BY <1>0, <1>1 DEF HandlerType, handlerVars, storeVars
<1>3. pc' = pc
  BY <1>1 DEF handlerVars
<1>4. Question(c) \in Rows
  BY <1>0 DEF HandlerType, Question, Row, ChatRows, Rows
<1>5. CASE Token(c) \/ Fail(c)
  <2>1. UNCHANGED exchangeVars /\ Send(c) /\ (gpc' = gpc \/ gpc' = [gpc EXCEPT ![c] = "close"])
    BY <1>5 DEF Token, Fail, Go
  <2>2. GoroutineType'
    <3>1. buffered' = [buffered EXCEPT ![c] = buffered[c] + 1] /\ buffered[c] < Capacity /\ closed' = closed
      BY <2>1 DEF Send
    <3>2. buffered[c] + 1 \in 0..Capacity
      BY <1>0, <3>1, ConversationAssumption DEF GoroutineType
    <3>3. buffered' \in [Chats -> 0..Capacity]
      BY <1>0, <3>1, <3>2 DEF GoroutineType
    <3> QED
      BY <1>0, <2>1, <3>1, <3>3 DEF GoroutineType, exchangeVars
  <2>3. \A d \in Chats : gpc'[d] = gpc[d] \/ (gpc'[d] = "close" /\ gpc[d] = "fail")
    <3>1. gpc' = gpc \/ (gpc[c] = "fail" /\ gpc' = [gpc EXCEPT ![c] = "close"])
      BY <1>5 DEF Token, Fail, Go
    <3> QED
      BY <1>0, <3>1 DEF GoroutineType
  <2>4. ASSUME NEW d \in Chats PROVE Bounded(d)'
    <3>1. pc[d] \notin {"new", "add"} \/ gpc'[d] = gpc[d]
      BY <1>0, <2>3 DEF Bounded
    <3>2. window' = window /\ exchange' = exchange /\ calls' = calls /\ results' = results
      BY <2>1 DEF exchangeVars
    <3> QED
      BY <1>0, <1>3, <2>3, <3>1, <3>2, BoundedKept
  <2> QED
    BY <1>2, <2>2, <2>4 DEF TypeInv
<1>6. CASE Build(c)
  <2>1. PICK w \in Windows \cup {<<>>} :
          window' = [window EXCEPT ![c] = IF w = <<>> THEN <<Question(c)>> ELSE w]
    BY <1>6 DEF Build
  <2>2. PICK v : /\ v = IF w = <<>> THEN <<Question(c)>> ELSE w
                 /\ v \in Seq(Rows) /\ Len(v) <= HistoryLimit
    <3>1. /\ <<Question(c)>> \in Seq(Rows)
          /\ Len(<<Question(c)>>) <= HistoryLimit
      BY <1>4, ConversationAssumption
    <3>2. w # <<>> => w \in Seq(Rows) /\ Len(w) <= HistoryLimit
      BY WindowFacts
    <3> QED
      BY <3>1, <3>2, Zenon
  <2>3. /\ gpc[c] = "build" /\ gpc' = [gpc EXCEPT ![c] = "ask"]
        /\ exchange' = exchange /\ calls' = calls /\ results' = results
        /\ buffered' = buffered /\ closed' = closed /\ window' = [window EXCEPT ![c] = v]
    BY <1>6, <2>1, <2>2 DEF Build, Go, chanVars
  <2>4. GoroutineType'
    BY <1>0, <2>2, <2>3 DEF GoroutineType
  <2>5. ASSUME NEW d \in Chats PROVE Bounded(d)'
    <3>1. CASE d = c
      <4>1. window'[c] = v /\ gpc'[c] = "ask"
        BY <1>0, <2>3 DEF GoroutineType
      <4>2. /\ pc[c] \notin {"new", "add"} /\ Len(exchange[c]) = 2 * 0
            /\ calls[c] <= MaxCalls[c] /\ Len(results[c]) <= calls[c] /\ results[c] = <<>>
        BY <1>0, <2>3 DEF Bounded
      <4>3. 0 \in 0..MaxIterations /\ 0 < MaxIterations
        BY ConversationAssumption
      <4> QED
        BY <1>3, <2>2, <2>3, <3>1, <4>1, <4>2, <4>3 DEF Bounded
    <3>2. CASE d # c
      <4>1. window'[d] = window[d] /\ gpc'[d] = gpc[d]
        BY <1>0, <2>3, <3>2 DEF GoroutineType
      <4> QED
        BY <1>0, <1>3, <2>3, <4>1, BoundedKept
    <3> QED
      BY <3>1, <3>2
  <2> QED
    BY <1>2, <2>4, <2>5 DEF TypeInv
<1>7. CASE Ask(c) \/ AnswerFails(c)
  <2>1. UNCHANGED <<exchangeVars, chanVars>> /\ gpc[c] \in {"ask", "read"}
        /\ \E l \in {"read", "fail"} : gpc' = [gpc EXCEPT ![c] = l]
    BY <1>7 DEF Ask, AnswerFails, Go
  <2>2. GoroutineType'
    BY <1>0, <2>1 DEF GoroutineType, exchangeVars, chanVars
  <2>3. \A d \in Chats : gpc'[d] = gpc[d]
                         \/ (gpc'[d] \in {"read", "fail"} /\ gpc[d] \in {"ask", "read"})
    BY <1>0, <2>1 DEF GoroutineType
  <2>4. ASSUME NEW d \in Chats PROVE Bounded(d)'
    <3>1. pc[d] \notin {"new", "add"} \/ gpc'[d] = gpc[d]
      BY <1>0, <2>3 DEF Bounded
    <3>2. window' = window /\ exchange' = exchange /\ calls' = calls /\ results' = results
      BY <2>1 DEF exchangeVars
    <3> QED
      BY <1>0, <1>3, <2>3, <3>1, <3>2, BoundedKept
  <2> QED
    BY <1>2, <2>2, <2>4 DEF TypeInv
<1>8. CASE Answer(c) \/ RunTool(c)
  <2>1. /\ window' = window /\ exchange' = exchange /\ UNCHANGED chanVars
        /\ gpc[c] \in {"read", "tools"}
        /\ \E l \in {"close", "tools"} : gpc' = [gpc EXCEPT ![c] = l]
    <3>1. CASE Answer(c)
      BY <3>1 DEF Answer, Go
    <3>2. CASE RunTool(c)
      <4>1. gpc' = gpc /\ gpc[c] = "tools"
        BY <3>2 DEF RunTool
      <4>2. gpc' = [gpc EXCEPT ![c] = "tools"]
        BY <1>0, <4>1 DEF GoroutineType
      <4> QED
        BY <3>2, <4>1, <4>2 DEF RunTool
    <3> QED
      BY <1>8, <3>1, <3>2
  <2>2. /\ calls' \in [Chats -> Nat] /\ results' \in [Chats -> Seq(Nat)]
        /\ \A d \in Chats : calls'[d] <= MaxCalls[d] /\ Len(results'[d]) <= calls'[d]
    <3>1. \A d \in Chats : /\ calls[d] <= MaxCalls[d] /\ Len(results[d]) <= calls[d]
                           /\ MaxCalls[d] \in Nat
      BY <1>0, ConversationAssumption DEF Bounded
    <3>2. CASE RunTool(c)
      <4>1. /\ Len(results[c]) < calls[c] /\ calls' = calls
            /\ results' = [results EXCEPT ![c] = Append(results[c], Len(results[c]) + 1)]
        BY <3>2 DEF RunTool
      <4>2. PICK new : new = Append(results[c], Len(results[c]) + 1)
        OBVIOUS
      <4>3. results[c] \in Seq(Nat) /\ calls[c] \in Nat
        BY <1>0 DEF GoroutineType
      <4>4. new \in Seq(Nat) /\ Len(new) = Len(results[c]) + 1 /\ Len(results[c]) \in Nat
        BY <4>2, <4>3
      <4>5. Len(new) <= calls[c]
        BY <4>1, <4>3, <4>4
      <4> QED
        BY <1>0, <3>1, <4>1, <4>2, <4>4, <4>5 DEF GoroutineType
    <3>3. CASE Answer(c)
      <4>1. PICK n \in 0..MaxCalls[c] : calls' = [calls EXCEPT ![c] = n]
        BY <3>3 DEF Answer
      <4>2. gpc[c] = "read" /\ results' = results
        BY <3>3 DEF Answer
      <4>3. results[c] = <<>>
        BY <1>0, <4>2 DEF Bounded
      <4> QED
        BY <1>0, <3>1, <4>1, <4>2, <4>3 DEF GoroutineType
    <3> QED
      BY <1>8, <3>2, <3>3
  <2>3. GoroutineType'
    BY <1>0, <2>1, <2>2 DEF GoroutineType, chanVars
  <2>4. \/ gpc[c] = "read" /\ results' = results
        \/ gpc[c] = "tools" /\ gpc' = gpc
    BY <1>8 DEF Answer, RunTool
  <2>5. ASSUME NEW d \in Chats PROVE Bounded(d)'
    <3>1. calls'[d] <= MaxCalls[d] /\ Len(results'[d]) <= calls'[d]
      BY <2>2
    <3>2. Bounded(d) /\ pc'[d] = pc[d] /\ window'[d] = window[d] /\ exchange'[d] = exchange[d]
      BY <1>0, <1>3, <2>1
    <3>3. CASE d # c
      <4>1. gpc'[d] = gpc[d] /\ results'[d] = results[d]
        <5>1. gpc'[d] = gpc[d]
          BY <1>0, <2>1, <3>3 DEF GoroutineType
        <5>2. results' = results \/ \E r : results' = [results EXCEPT ![c] = r]
          BY <1>8 DEF Answer, RunTool
        <5> QED
          BY <1>0, <3>3, <5>1, <5>2 DEF GoroutineType
      <4> QED
        BY <3>1, <3>2, <4>1 DEF Bounded
    <3>4. CASE d = c
      <4>1. /\ gpc'[c] \in {"close", "tools"} /\ gpc[c] \in {"read", "tools"}
            /\ gpc'[c] = "close" => results'[c] = results[c] /\ gpc[c] # "tools"
        BY <1>0, <2>1, <2>4 DEF GoroutineType
      <4>2. PICK n \in 0..MaxIterations : Len(exchange[c]) = 2 * n /\ n < MaxIterations
        BY <3>2, <3>4, <4>1 DEF Bounded
      <4>3. /\ Len(exchange'[c]) = 2 * n
            /\ gpc'[c] \in {"ask", "read", "tools", "fail"} => n < MaxIterations
            /\ gpc'[c] \in {"none", "build"} => n = 0
        BY <3>2, <3>4, <4>1, <4>2
      <4>4. pc'[c] \notin {"new", "add"} /\ (gpc'[c] # "tools" => results'[c] = <<>>)
        BY <3>2, <3>4, <4>1 DEF Bounded
      <4>5. Len(window'[c]) <= HistoryLimit
        BY <3>2, <3>4 DEF Bounded
      <4> QED
        BY <3>1, <3>4, <4>3, <4>4, <4>5 DEF Bounded
    <3> QED
      BY <3>3, <3>4
  <2> QED
    BY <1>2, <2>3, <2>5 DEF TypeInv
<1>9. CASE Again(c)
  <2>1. /\ gpc[c] = "tools" /\ window' = window /\ UNCHANGED chanVars
        /\ calls' = [calls EXCEPT ![c] = 0] /\ results' = [results EXCEPT ![c] = <<>>]
        /\ gpc' = [gpc EXCEPT ![c] = IF Round(c) + 1 < MaxIterations THEN "ask" ELSE "close"]
    BY <1>9 DEF Again, Go
  <2>2. PICK round :
          /\ round = <<[user |-> "assistant", calls |-> [k \in 1..calls[c] |-> k]],
                       [user |-> "user", results |-> results[c]]>>
          /\ exchange' = [exchange EXCEPT ![c] = exchange[c] \o round]
    BY <1>9 DEF Again
  <2>3. results[c] \in Seq(Nat) /\ calls[c] \in Nat /\ exchange[c] \in Seq(Messages)
    BY <1>0 DEF GoroutineType
  <2>4. round \in Seq(Messages) /\ Len(round) = 2
    <3>1. [k \in 1..calls[c] |-> k] \in Seq(Nat)
      BY <2>3
    <3>2. /\ [user |-> "assistant", calls |-> [k \in 1..calls[c] |-> k]] \in Messages
          /\ [user |-> "user", results |-> results[c]] \in Messages
      BY <2>3, <3>1 DEF Messages
    <3> QED
      BY <2>2, <3>2
  <2>5. PICK n \in 0..MaxIterations : Len(exchange[c]) = 2 * n /\ n < MaxIterations
    BY <1>0, <2>1 DEF Bounded
  <2>6. PICK more : more = exchange[c] \o round
    OBVIOUS
  <2>7. more \in Seq(Messages) /\ Len(more) = 2 * (n + 1)
    <3>1. more \in Seq(Messages) /\ Len(more) = Len(exchange[c]) + Len(round)
      BY <2>3, <2>4, <2>6, ConcatProperties
    <3>2. n \in Nat
      BY <2>5, ConversationAssumption
    <3> QED
      BY <2>4, <2>5, <3>1, <3>2
  <2>8. Round(c) = n
    <3>1. n \in Int /\ (2 * n) \div 2 = n
      BY <2>5, ConversationAssumption
    <3> QED
      BY <2>5, <3>1 DEF Round
  <2>9. GoroutineType'
    BY <1>0, <2>1, <2>2, <2>6, <2>7 DEF GoroutineType, chanVars
  <2>10. ASSUME NEW d \in Chats PROVE Bounded(d)'
    <3>1. CASE d = c
      <4>1. /\ gpc'[c] = IF n + 1 < MaxIterations THEN "ask" ELSE "close"
            /\ exchange'[c] = more /\ calls'[c] = 0 /\ results'[c] = <<>>
        BY <1>0, <2>1, <2>2, <2>6, <2>8 DEF GoroutineType
      <4>2. /\ n + 1 \in 0..MaxIterations /\ Len(exchange'[c]) = 2 * (n + 1)
            /\ gpc'[c] \in {"ask", "read", "tools", "fail"} => n + 1 < MaxIterations
            /\ gpc'[c] \notin {"none", "build"}
        BY <2>5, <2>7, <4>1, ConversationAssumption
      <4>3. pc'[c] \notin {"new", "add"} /\ Len(window'[c]) <= HistoryLimit
        BY <1>0, <1>3, <2>1 DEF Bounded
      <4>4. calls'[c] <= MaxCalls[c] /\ Len(results'[c]) <= calls'[c]
        BY <4>1, ConversationAssumption
      <4> QED
        BY <3>1, <4>1, <4>2, <4>3, <4>4 DEF Bounded
    <3>2. CASE d # c
      <4>1. /\ window'[d] = window[d] /\ exchange'[d] = exchange[d] /\ gpc'[d] = gpc[d]
            /\ calls'[d] = calls[d] /\ results'[d] = results[d]
        BY <1>0, <2>1, <2>2, <3>2 DEF GoroutineType
      <4> QED
        BY <1>0, <1>3, <4>1, BoundedKept
    <3> QED
      BY <3>1, <3>2
  <2> QED
    BY <1>2, <2>9, <2>10 DEF TypeInv
<1>10. CASE Close(c)
  <2>1. /\ gpc[c] = "close" /\ gpc' = [gpc EXCEPT ![c] = "ended"]
        /\ closed' = [closed EXCEPT ![c] = TRUE] /\ buffered' = buffered
        /\ window' = [window EXCEPT ![c] = <<>>] /\ exchange' = [exchange EXCEPT ![c] = <<>>]
        /\ calls' = calls /\ results' = results
    BY <1>10 DEF Close, Go, Forget
  <2>2. GoroutineType'
    BY <1>0, <2>1 DEF GoroutineType
  <2>3. ASSUME NEW d \in Chats PROVE Bounded(d)'
    <3>1. CASE d = c
      <4>1. window'[c] = <<>> /\ exchange'[c] = <<>> /\ gpc'[c] = "ended"
        BY <1>0, <2>1 DEF GoroutineType
      <4>2. /\ pc'[c] \notin {"new", "add"} /\ results[c] = <<>>
            /\ calls[c] <= MaxCalls[c] /\ Len(results[c]) <= calls[c]
        BY <1>0, <1>3, <2>1 DEF Bounded
      <4>3. 0 \in 0..MaxIterations /\ Len(exchange'[c]) = 2 * 0 /\ Len(window'[c]) <= HistoryLimit
        BY <4>1, ConversationAssumption
      <4> QED
        BY <2>1, <3>1, <4>1, <4>2, <4>3 DEF Bounded
    <3>2. CASE d # c
      <4>1. window'[d] = window[d] /\ exchange'[d] = exchange[d] /\ gpc'[d] = gpc[d]
        BY <1>0, <2>1, <3>2 DEF GoroutineType
      <4> QED
        BY <1>0, <1>3, <2>1, <4>1, BoundedKept
    <3> QED
      BY <3>1, <3>2
  <2> QED
    BY <1>2, <2>2, <2>3 DEF TypeInv
<1> QED
  BY <1>5, <1>6, <1>7, <1>8, <1>9, <1>10 DEF Goroutine

-----------------------------------------------------------------------------
(* The rows: those of a chat come after its question was received, and its   *)
(* answer is not older than its question.                                    *)
OfChat(r) ==
  /\ r.of \in Chats /\ pc[r.of] \notin {"new", "add"} /\ r.time \in Nat
  /\ r.user = "user" => r.time = said[r.of]
  /\ r.user = "assistant" => said[r.of] <= r.time

(* A handler's times: when the message came, and when it was last read.      *)
OnTime(c) ==
  /\ said[c] <= clock
  /\ pc[c] = "answer" => said[c] <= now[c]
  /\ pc[c] \notin {"new", "add"} \/ gpc[c] = "none"

RowInv ==
  /\ IsFiniteSet(rows)
  /\ \A r \in rows : r \in History \/ OfChat(r)
  /\ \A c \in Chats : OnTime(c)

(* What the model is shown: the message of the chat, unless it was lost or   *)
(* is crowded out by rows of its second or later, and no answer before its   *)
(* question.                                                                 *)
Shows(w, question, gone) ==
  /\ \/ \E i \in DOMAIN w : /\ w[i] = question
                           /\ \A k \in DOMAIN w : k > i => w[k].time >= question.time
     \/ gone
     \/ Len(w) = HistoryLimit /\ \A i \in DOMAIN w : w[i].time >= question.time
  /\ \A i, k \in DOMAIN w :
       (i < k /\ w[i].of = w[k].of /\ w[i].user = "assistant" /\ w[k].user = "user")
         => w[i].time = w[k].time

Shown(c) == Shows(window[c], Question(c), lost[c])

AskedInv ==
  \A c \in Chats :
    /\ gpc[c] = "build" => Question(c) \in rows \/ lost[c]
    /\ gpc[c] \in {"ask", "read", "tools"} => Shown(c)

Inv == TypeInv /\ RowInv /\ AskedInv

LEMMA RowInit == Init => RowInv /\ AskedInv
<1> SUFFICES ASSUME Init PROVE RowInv /\ AskedInv
  OBVIOUS
<1>1. RowInv
  BY HistoryAssumption DEF Init, RowInv, OnTime
<1>2. AskedInv
  BY DEF Init, AskedInv
<1> QED
  BY <1>1, <1>2

(* Questions and answers are what their names say.                           *)
LEMMA RowFields ==
  ASSUME NEW u, NEW c, NEW t, NEW e
  PROVE  /\ Row(u, c, t, e).user = u /\ Row(u, c, t, e).of = c
         /\ Row(u, c, t, e).time = t
BY DEF Row

(* The rows keep their meaning as long as no chat starts over.               *)
LEMMA OfChatKept ==
  ASSUME TypeInv, NEW r, OfChat(r), \A c \in Chats : pc[c] \notin {"new", "add"} =>
           pc'[c] \notin {"new", "add"} /\ said'[c] = said[c]
  PROVE  OfChat(r)'
BY DEF OfChat

LEMMA RowHandler ==
  ASSUME Inv, NEW c \in Chats, Refuse(c) \/ Receive(c) \/ Handler(c)
  PROVE  RowInv'
<1>0. HandlerType /\ GoroutineType
  BY DEF Inv, TypeInv
<1>1. /\ clock' = clock /\ clock \in Nat /\ said \in [Chats -> Nat] /\ now \in [Chats -> Nat]
      /\ pc \in [Chats -> {"new", "add", "stream", "answer", "done"}]
  BY <1>0, ConversationAssumption
     DEF HandlerType, Refuse, Receive, Handler, AddQuestion, Take, EndOfTokens, AddAnswer, storeVars
<1>2. \A d \in Chats : OnTime(d)
  BY DEF Inv, RowInv
<1>3. \A d \in Chats : pc[d] \notin {"new", "add"} => pc'[d] \notin {"new", "add"} /\ said'[d] = said[d]
  <2>1. CASE Refuse(c) \/ Receive(c)
    <3>1. /\ pc[c] = "new" /\ \E l \in {"done", "add"} : pc' = [pc EXCEPT ![c] = l]
          /\ said' = said \/ said' = [said EXCEPT ![c] = clock]
      BY <2>1 DEF Refuse, Receive, Goto
    <3> QED
      BY <1>1, <3>1
  <2>2. CASE Handler(c)
    <3>1. /\ said' = said
          /\ pc' = pc \/ \E l \in {"stream", "answer", "done"} : pc' = [pc EXCEPT ![c] = l]
      BY <2>2 DEF Handler, AddQuestion, Take, EndOfTokens, AddAnswer, Goto
    <3> QED
      BY <1>1, <3>1
  <2> QED
    BY <2>1, <2>2
<1>4. \A r : OfChat(r) => OfChat(r)'
  BY <1>3, OfChatKept DEF Inv
<1>5. ASSUME NEW d \in Chats PROVE OnTime(d)'
  <2>1. CASE Refuse(c)
    BY <1>1, <1>2, <2>1 DEF Refuse, Goto, OnTime
  <2>2. CASE Receive(c)
    BY <1>1, <1>2, <2>2 DEF Receive, Goto, OnTime
  <2>3. CASE AddQuestion(c)
    BY <1>1, <1>2, <2>3 DEF AddQuestion, Goto, Go, OnTime
  <2>4. CASE Take(c)
    BY <1>1, <1>2, <2>4 DEF Take, OnTime
  <2>5. CASE EndOfTokens(c)
    BY <1>1, <1>2, <2>5 DEF EndOfTokens, Goto, OnTime
  <2>6. CASE AddAnswer(c)
    BY <1>1, <1>2, <2>6 DEF AddAnswer, Goto, OnTime
  <2> QED
    BY <2>1, <2>2, <2>3, <2>4, <2>5, <2>6 DEF Handler
<1>6. /\ IsFiniteSet(rows) /\ \A r \in rows : r \in History \/ OfChat(r)
  BY DEF Inv, RowInv
<1>7. CASE rows' = rows
  BY <1>4, <1>5, <1>6, <1>7 DEF RowInv
<1>8. ASSUME NEW new, rows' = rows \cup {new}, OfChat(new)' PROVE RowInv'
  <2>1. IsFiniteSet(rows')
    BY <1>6, <1>8, FS_AddElement
  <2> QED
    BY <1>4, <1>5, <1>6, <1>8, <2>1 DEF RowInv
<1>9. CASE AddQuestion(c) /\ rows' # rows
  <2>1. rows' = rows \cup {Question(c)} /\ pc' = [pc EXCEPT ![c] = "stream"] /\ said' = said
    BY <1>9 DEF AddQuestion, Goto
  <2>2. /\ Question(c).of = c /\ Question(c).user = "user" /\ Question(c).time = said[c]
        /\ pc'[c] = "stream" /\ said[c] \in Nat
    <3>1. /\ Question(c).of = c /\ Question(c).user = "user" /\ Question(c).time = said[c]
      BY DEF Question, Row
    <3> QED
      BY <1>1, <2>1, <3>1
  <2>3. PICK q : q = Question(c)
    OBVIOUS
  <2>4. OfChat(q)'
    BY <2>1, <2>2, <2>3 DEF OfChat
  <2> QED
    BY <1>8, <2>1, <2>3, <2>4
<1>10. CASE AddAnswer(c) /\ rows' # rows
  <2>1. /\ rows' = rows \cup {Row("assistant", c, now[c], blank[c])}
        /\ pc' = [pc EXCEPT ![c] = "done"] /\ said' = said /\ pc[c] = "answer"
    BY <1>10 DEF AddAnswer, Goto
  <2>2. PICK a : a = Row("assistant", c, now[c], blank[c])
    OBVIOUS
  <2>3. /\ a.of = c /\ a.user = "assistant" /\ a.time = now[c]
        /\ pc'[c] = "done" /\ now[c] \in Nat /\ said[c] <= now[c]
    BY <1>1, <1>2, <2>1, <2>2, RowFields DEF OnTime
  <2>4. OfChat(a)'
    BY <2>1, <2>3 DEF OfChat
  <2> QED
    BY <1>8, <2>1, <2>2, <2>4
<1> QED
  BY <1>7, <1>9, <1>10 DEF Refuse, Receive, Handler, Take, EndOfTokens, storeVars

(* The goroutines leave the rows and the handlers alone.                     *)
LEMMA RowGoroutine ==
  ASSUME Inv, NEW c \in Chats, Token(c) \/ Goroutine(c) PROVE RowInv'
<1>1. UNCHANGED <<handlerVars, storeVars>>
  BY DEF Token, Goroutine, Build, Ask, Answer, AnswerFails, RunTool, Again, Fail, Close
<1>2. UNCHANGED <<pc, now, said, clock, rows>>
  BY <1>1 DEF handlerVars, storeVars
<1>3. \A d \in Chats : gpc[d] = "none" => gpc'[d] = "none"
  <2>1. gpc' = gpc \/ (gpc[c] # "none" /\ \E l : gpc' = [gpc EXCEPT ![c] = l])
    BY DEF Token, Goroutine, Build, Ask, Answer, AnswerFails, RunTool, Again, Fail, Close, Go
  <2> QED
    BY <2>1 DEF Inv, TypeInv, GoroutineType
<1> QED
  BY <1>2, <1>3 DEF Inv, RowInv, OfChat, OnTime

LEMMA RowStore == ASSUME Inv, Tick \/ Clear PROVE RowInv' /\ TypeInv'
<1>0. HandlerType /\ GoroutineType /\ \A d \in Chats : Bounded(d)
  BY DEF Inv, TypeInv
<1>1. UNCHANGED <<handlerVars, gpc, exchangeVars, chanVars>>
  BY DEF Tick, Clear
<1>2. UNCHANGED <<pc, now, said, blank, gpc, window, exchange, calls, results, buffered, closed>>
  BY <1>1 DEF handlerVars, exchangeVars, chanVars
<1>3. GoroutineType' /\ \A d \in Chats : Bounded(d)'
  BY <1>0, <1>2 DEF GoroutineType, Bounded
<1>4. HandlerType'
  <2>1. CASE Tick
    BY <1>0, <1>2, <2>1, ConversationAssumption DEF HandlerType, Tick
  <2>2. CASE Clear
    <3>1. /\ clock' = clock /\ cleared' = TRUE /\ rows' = {}
          /\ lost' = [c \in Chats |-> lost[c] \/ Question(c) \in rows]
      BY <2>2 DEF Clear
    <3>2. lost' \in [Chats -> BOOLEAN]
      BY <3>1, Zenon
    <3> QED
      BY <1>0, <1>2, <3>1, <3>2 DEF HandlerType
  <2> QED
    BY <2>1, <2>2
<1>5. /\ clock \in Nat /\ said \in [Chats -> Nat] /\ clock' \in Nat /\ clock <= clock'
      /\ rows' \subseteq rows
  BY <1>0, ConversationAssumption DEF HandlerType, Tick, Clear
<1>6. \A d \in Chats : OnTime(d)'
  BY <1>2, <1>5 DEF Inv, RowInv, OnTime
<1>7. IsFiniteSet(rows')
  BY <1>5, FS_Subset DEF Inv, RowInv
<1>8. \A r \in rows' : r \in History \/ OfChat(r)'
  BY <1>2, <1>5 DEF Inv, RowInv, OfChat
<1> QED
  BY <1>3, <1>4, <1>6, <1>7, <1>8 DEF RowInv, TypeInv

-----------------------------------------------------------------------------
(* What a chat reads from the store is what the model should be shown.       *)
LEMMA WindowShows ==
  ASSUME Inv, NEW c \in Chats, Question(c) \in rows \/ lost[c], NEW w \in Windows
  PROVE  Shows(w, Question(c), lost[c])
<1>1. PICK S \in SUBSET rows :
        /\ Latest(S) /\ \A i \in DOMAIN w : w[i] \in S
        /\ \A r \in S : \E i \in DOMAIN w : w[i] = r
        /\ S # rows => Len(w) = HistoryLimit
  BY WindowFacts DEF Inv, RowInv
<1>2. w \in Seq(Rows) /\ Chronological(w)
  BY WindowFacts DEF Inv, RowInv
<1>3. \A r \in rows : r.time \in Int /\ (r \in History \/ OfChat(r))
  BY HistoryAssumption DEF Inv, RowInv, OfChat
<1>4. \A i, k \in DOMAIN w : i < k => w[i].time <= w[k].time
  BY <1>2 DEF Chronological
<1>5. PICK q : q = Question(c)
  OBVIOUS
<1>6. \/ \E i \in DOMAIN w : w[i] = q /\ \A k \in DOMAIN w : k > i => w[k].time >= q.time
      \/ lost[c]
      \/ Len(w) = HistoryLimit /\ \A i \in DOMAIN w : w[i].time >= q.time
  <2>1. CASE lost[c]
    BY <2>1
  <2>2. CASE q \in S
    <3>1. PICK i \in DOMAIN w : w[i] = q
      BY <1>1, <2>2
    <3>2. \A k \in DOMAIN w : w[k].time \in Int /\ i \in Int /\ k \in Int
      BY <1>1, <1>2, <1>3
    <3>3. \A k \in DOMAIN w : k > i => w[k].time >= q.time
      BY <1>4, <3>1, <3>2
    <3> QED
      BY <3>1, <3>3
  <2>3. CASE q \in rows \ S
    <3>1. \A r \in S : q.time <= r.time
      BY <1>1, <2>3 DEF Latest
    <3>2. \A i \in DOMAIN w : w[i].time >= q.time
      BY <1>1, <1>3, <2>3, <3>1
    <3> QED
      BY <1>1, <2>3, <3>2
  <2> QED
    BY <1>5, <2>1, <2>2, <2>3
<1>7. ASSUME NEW i \in DOMAIN w, NEW k \in DOMAIN w, i < k, w[i].of = w[k].of,
             w[i].user = "assistant", w[k].user = "user"
      PROVE  w[i].time = w[k].time
  <2>1. PICK a, b : a = w[i] /\ b = w[k]
    OBVIOUS
  <2>2. a \in rows /\ b \in rows /\ a.time <= b.time
    BY <1>1, <1>4, <1>7, <2>1
  <2>3. b.time <= a.time
    <3>1. CASE a \in History
      <4>1. b \in History
        BY <1>3, <1>7, <2>1, <2>2, <3>1, HistoryAssumption DEF OfChat
      <4> QED
        BY <1>7, <2>1, <3>1, <4>1, HistoryAssumption
    <3>2. CASE OfChat(a)
      <4>1. OfChat(b)
        BY <1>3, <1>7, <2>1, <2>2, <3>2, HistoryAssumption DEF OfChat
      <4> QED
        BY <1>7, <2>1, <3>2, <4>1 DEF OfChat
    <3> QED
      BY <1>3, <2>2, <3>1, <3>2
  <2> QED
    BY <1>3, <2>1, <2>2, <2>3
<1> QED
  BY <1>5, <1>6, <1>7 DEF Shows

(* A chat without history is shown its message alone.                        *)
LEMMA MessageShows ==
  ASSUME NEW c, NEW gone PROVE Shows(<<Question(c)>>, Question(c), gone)
<1>1. PICK q : q = Question(c)
  OBVIOUS
<1>2. DOMAIN <<q>> = {1} /\ <<q>>[1] = q
  OBVIOUS
<1>3. \A k \in {1} : ~(k > 1) /\ ~(k < 1)
  OBVIOUS
<1> QED
  BY <1>1, <1>2, <1>3 DEF Shows

LEMMA ShownKept ==
  ASSUME NEW d, Shown(d), window'[d] = window[d], said'[d] = said[d],
         lost[d] => lost'[d]
  PROVE  Shown(d)'
<1>1. Question(d)' = Question(d)
  BY DEF Question
<1> QED
  BY <1>1 DEF Shown, Shows

LEMMA AskedHandler ==
  ASSUME Inv, NEW c \in Chats, Refuse(c) \/ Receive(c) \/ Handler(c) PROVE AskedInv'
<1>0. HandlerType /\ GoroutineType /\ \A d \in Chats : OnTime(d)
  BY DEF Inv, TypeInv, RowInv
<1>1. /\ window' = window /\ rows \subseteq rows'
      /\ \A d \in Chats : lost[d] => lost'[d]
  BY <1>0 DEF Refuse, Receive, Handler, AddQuestion, Take, EndOfTokens, AddAnswer,
              exchangeVars, storeVars, HandlerType
<1>2. SUFFICES ASSUME NEW d \in Chats
               PROVE  /\ gpc'[d] = "build" => Question(d)' \in rows' \/ lost'[d]
                      /\ gpc'[d] \in {"ask", "read", "tools"} => Shown(d)'
  BY DEF AskedInv
<1>3. CASE Receive(c) /\ d = c
  <2>1. pc[c] = "new" /\ gpc' = gpc
    BY <1>3 DEF Receive
  <2>2. gpc'[d] = "none"
    BY <1>0, <1>3, <2>1 DEF OnTime
  <2> QED
    BY <2>2
<1>4. CASE AddQuestion(c) /\ d = c
  <2>1. /\ said' = said /\ gpc' = [gpc EXCEPT ![c] = "build"]
        /\ rows' = rows \cup {Question(c)} \/ lost' = [lost EXCEPT ![c] = TRUE]
    BY <1>4 DEF AddQuestion, Go
  <2>2. gpc'[d] = "build" /\ Question(d)' = Question(d)
    BY <1>0, <1>4, <2>1 DEF GoroutineType, Question
  <2>3. Question(c) \in rows' \/ lost'[c]
    BY <1>0, <2>1 DEF HandlerType
  <2> QED
    BY <1>4, <2>2, <2>3
<1>5. CASE ~((Receive(c) \/ AddQuestion(c)) /\ d = c)
  <2>1. said'[d] = said[d] /\ gpc'[d] = gpc[d]
    BY <1>0, <1>5 DEF HandlerType, GoroutineType, Refuse, Receive, Handler, AddQuestion, Take,
                      EndOfTokens, AddAnswer, Go
  <2>2. Question(d)' = Question(d)
    BY <2>1 DEF Question
  <2> QED
    BY <1>1, <2>1, <2>2, ShownKept DEF Inv, AskedInv
<1> QED
  BY <1>3, <1>4, <1>5

LEMMA AskedGoroutine ==
  ASSUME Inv, NEW c \in Chats, Token(c) \/ Goroutine(c) PROVE AskedInv'
<1>0. GoroutineType
  BY DEF Inv, TypeInv
<1>1. UNCHANGED <<handlerVars, storeVars>>
  BY DEF Token, Goroutine, Build, Ask, Answer, AnswerFails, RunTool, Again, Fail, Close
<1>2. said' = said /\ rows' = rows /\ lost' = lost
  BY <1>1 DEF handlerVars, storeVars
<1>3. SUFFICES ASSUME NEW d \in Chats
               PROVE  /\ gpc'[d] = "build" => Question(d)' \in rows' \/ lost'[d]
                      /\ gpc'[d] \in {"ask", "read", "tools"} => Shown(d)'
  BY DEF AskedInv
<1>4. Question(d)' = Question(d)
  BY <1>2 DEF Question
<1>5. CASE Build(c) /\ d = c
  <2>1. PICK w \in Windows \cup {<<>>} :
          window' = [window EXCEPT ![c] = IF w = <<>> THEN <<Question(c)>> ELSE w]
    BY <1>5 DEF Build
  <2>2. gpc[c] = "build" /\ gpc' = [gpc EXCEPT ![c] = "ask"]
    BY <1>5 DEF Build, Go
  <2>3. Question(c) \in rows \/ lost[c]
    BY <2>2 DEF Inv, AskedInv
  <2>4. Shows(IF w = <<>> THEN <<Question(c)>> ELSE w, Question(c), lost[c])
    <3>1. CASE w = <<>>
      BY <3>1, MessageShows
    <3>2. CASE w # <<>>
      BY <2>1, <2>3, <3>2, WindowShows
    <3> QED
      BY <3>1, <3>2
  <2>5. window'[c] = IF w = <<>> THEN <<Question(c)>> ELSE w
    BY <1>0, <2>1 DEF GoroutineType
  <2>6. Shown(d)'
    <3>1. PICK v : v = IF w = <<>> THEN <<Question(c)>> ELSE w
      OBVIOUS
    <3>2. Shows(v, Question(c), lost[c]) /\ window'[c] = v
      BY <2>4, <2>5, <3>1
    <3>3. Question(c)' = Question(c) /\ lost'[c] = lost[c]
      BY <1>2, <1>4, <1>5
    <3>4. Shown(c)'
      BY <3>2, <3>3 DEF Shown, Shows
    <3> QED
      BY <1>5, <3>4
  <2>7. gpc'[d] = "ask"
    BY <1>0, <1>5, <2>2 DEF GoroutineType
  <2> QED
    BY <2>6, <2>7
<1>6. CASE Close(c) /\ d = c
  BY <1>0, <1>6 DEF Close, Go, GoroutineType
<1>7. CASE ~((Build(c) \/ Close(c)) /\ d = c)
  <2>1. window'[d] = window[d]
    <3>1. window' = window \/ (d # c /\ \E w : window' = [window EXCEPT ![c] = w])
      BY <1>7 DEF Token, Goroutine, Build, Ask, Answer, AnswerFails, RunTool,
                  Again, Fail, Close, Forget, exchangeVars
    <3> QED
      BY <1>0, <3>1 DEF GoroutineType
  <2>2. \/ gpc'[d] = gpc[d]
        \/ gpc'[d] \in {"fail", "close", "ended"}
        \/ gpc[d] \in {"ask", "read", "tools"} /\ gpc'[d] \in {"ask", "read", "tools"}
    <3>1. \/ gpc' = gpc
          \/ \E l : gpc' = [gpc EXCEPT ![c] = l] /\ d # c
          \/ \E l \in {"fail", "close", "ended"} : gpc' = [gpc EXCEPT ![c] = l]
          \/ \E l \in {"ask", "read", "tools"} :
                gpc' = [gpc EXCEPT ![c] = l] /\ gpc[c] \in {"ask", "read", "tools"}
      BY <1>7 DEF Token, Goroutine, Build, Ask, Answer, AnswerFails, RunTool, Again, Fail, Close, Go
    <3> QED
      BY <1>0, <3>1 DEF GoroutineType
  <2>3. gpc[d] \in {"ask", "read", "tools"} => Shown(d)'
    BY <1>2, <2>1, ShownKept DEF Inv, AskedInv
  <2> QED
    BY <1>2, <1>4, <2>2, <2>3 DEF Inv, AskedInv
<1> QED
  BY <1>5, <1>6, <1>7

LEMMA AskedStore == ASSUME Inv, Tick \/ Clear PROVE AskedInv'
<1>1. UNCHANGED <<handlerVars, gpc, exchangeVars>>
  BY DEF Tick, Clear
<1>2. said' = said /\ gpc' = gpc /\ window' = window
  BY <1>1 DEF handlerVars, exchangeVars
<1>3. ASSUME NEW d \in Chats
      PROVE  /\ lost[d] => lost'[d]
             /\ Question(d) \in rows => Question(d) \in rows' \/ lost'[d]
  <2>1. CASE Tick
    BY <2>1 DEF Tick
  <2>2. CASE Clear
    BY <2>2 DEF Clear
  <2> QED
    BY <2>1, <2>2
<1>4. ASSUME NEW d \in Chats
      PROVE  /\ gpc'[d] = "build" => Question(d)' \in rows' \/ lost'[d]
             /\ gpc'[d] \in {"ask", "read", "tools"} => Shown(d)'
  <2>1. Question(d)' = Question(d)
    BY <1>2 DEF Question
  <2> QED
    BY <1>2, <1>3, <2>1, ShownKept DEF Inv, AskedInv
<1> QED
  BY <1>4 DEF AskedInv

-----------------------------------------------------------------------------
LEMMA InvStep == Inv /\ [Next]_vars => Inv'
<1> SUFFICES ASSUME Inv, [Next]_vars PROVE Inv'
  OBVIOUS
<1>1. TypeInv /\ IsFiniteSet(rows)
  BY DEF Inv, RowInv
<1>2. ASSUME NEW c \in Chats, Refuse(c) \/ Receive(c) \/ Handler(c) PROVE Inv'
  BY <1>1, <1>2, HandlerTypes, RowHandler, AskedHandler DEF Inv
<1>3. ASSUME NEW c \in Chats, Token(c) \/ Goroutine(c) PROVE Inv'
  BY <1>1, <1>3, GoroutineTypes, RowGoroutine, AskedGoroutine DEF Inv
<1>4. CASE Tick \/ Clear
  BY <1>4, RowStore, AskedStore DEF Inv
<1>5. CASE UNCHANGED vars
  <2>1. UNCHANGED <<handlerVars, gpc, exchangeVars, chanVars, storeVars>>
    BY <1>5 DEF vars
  <2>2. HandlerType' /\ GoroutineType' /\ \A d \in Chats : Bounded(d)'
    BY <2>1 DEF Inv, TypeInv, HandlerType, GoroutineType, Bounded, handlerVars, exchangeVars,
                chanVars, storeVars
  <2>3. RowInv'
    BY <2>1 DEF Inv, RowInv, OfChat, OnTime, handlerVars, storeVars
  <2>4. said' = said /\ gpc' = gpc /\ window' = window /\ rows' = rows /\ lost' = lost
    BY <2>1 DEF handlerVars, exchangeVars, storeVars
  <2>5. ASSUME NEW d \in Chats
        PROVE  /\ gpc'[d] = "build" => Question(d)' \in rows' \/ lost'[d]
               /\ gpc'[d] \in {"ask", "read", "tools"} => Shown(d)'
    <3>1. Question(d)' = Question(d)
      BY <2>4 DEF Question
    <3> QED
      BY <2>4, <3>1, ShownKept DEF Inv, AskedInv
  <2> QED
    BY <2>2, <2>3, <2>5 DEF Inv, TypeInv, AskedInv
<1> QED
  BY <1>2, <1>3, <1>4, <1>5 DEF Next

THEOREM ConversationInv == Spec => []Inv
BY TypeInit, RowInit, InvStep, PTL DEF Spec, Inv

(* Types, and the bounds of a chat: the window of its request never has more *)
(* than HistoryLimit rows, its request no more than MaxIterations rounds,    *)
(* and its channel no more than Capacity tokens (chat.go:93-160).            *)
THEOREM ConversationTypeCorrect == Spec => []TypeOK
<1>1. TypeInv => TypeOK
  <2> SUFFICES ASSUME TypeInv PROVE TypeOK
    OBVIOUS
  <2>1. HandlerType /\ GoroutineType
    BY DEF TypeInv
  <2>2. ASSUME NEW c \in Chats
        PROVE  /\ Len(window[c]) <= HistoryLimit /\ Round(c) <= MaxIterations
               /\ calls[c] \in 0..MaxCalls[c] /\ Len(results[c]) <= calls[c]
               /\ buffered[c] \in 0..Capacity
    <3>1. Bounded(c)
      BY DEF TypeInv
    <3>2. PICK n \in 0..MaxIterations : Len(exchange[c]) = 2 * n
      BY <3>1 DEF Bounded
    <3>3. n \in Int /\ (2 * n) \div 2 = n
      BY <3>2, ConversationAssumption
    <3>4. Round(c) <= MaxIterations
      BY <3>2, <3>3, ConversationAssumption DEF Round
    <3>5. calls[c] \in Nat /\ buffered[c] \in 0..Capacity /\ MaxCalls[c] \in Nat
      BY <2>1, ConversationAssumption DEF GoroutineType
    <3> QED
      BY <3>1, <3>4, <3>5 DEF Bounded
  <2> QED
    BY <2>1, <2>2 DEF TypeOK, HandlerType, GoroutineType, Rows, ChatRows
<1> QED
  BY <1>1, ConversationInv, PTL DEF Inv

(* The model is asked with the message of the chat, unless it could not be   *)
(* stored, was cleared, or is crowded out by rows of its second or later;    *)
(* and no answer comes before its question (chat.go:88).                     *)
THEOREM ConversationOwnMessage == Spec => []OwnMessageAsked
<1>1. Inv => OwnMessageAsked
  <2> SUFFICES ASSUME Inv, NEW c \in Chats, gpc[c] \in Requests
               PROVE  Shows(window[c], Question(c), lost[c])
    <3>1. \A c \in Chats : Question(c).time = said[c]
      BY DEF Question, Row
    <3> QED
      BY <3>1 DEF OwnMessageAsked, Shows
  <2> QED
    BY DEF Inv, AskedInv, Shown, Requests
<1> QED
  BY <1>1, ConversationInv, PTL

-----------------------------------------------------------------------------
(* NotBlank as the table of a fold, over the sets of positions.              *)
Joined(messages, r) == IF r.empty THEN messages ELSE Append(messages, r)
FoldAt(g, w, s) == IF s = {} THEN <<>> ELSE Joined(g[s \ {Max(s)}], w[Max(s)])
Folds(g, w, S) == g = [s \in SUBSET S |-> FoldAt(g, w, s)]

LEMMA LeastMember ==
  ASSUME NEW T \in SUBSET Nat, T # {} PROVE \E m \in T : \A k \in T : m <= k
<1>1. PICK m \in T : \A k \in T : ~(<<k, m>> \in OpToRel(<, Nat))
  BY NatLessThanWellFounded, WFMin
<1>2. \A k \in T : ~(k < m)
  BY <1>1 DEF OpToRel
<1> QED
  BY <1>2

LEMMA MaxIn ==
  ASSUME NEW n \in Nat, NEW s \in SUBSET (1..n), s # {}
  PROVE  Max(s) \in s /\ \A k \in s : k <= Max(s)
<1> DEFINE T == {n - k : k \in s}
<1>1. PICK m \in T : \A k \in T : m <= k
  <2>1. \A k \in s : k \in 1..n /\ n - k \in Nat
    OBVIOUS
  <2>2. T \in SUBSET Nat
    BY <2>1
  <2>3. T # {}
    OBVIOUS
  <2> HIDE DEF T
  <2> QED
    BY <2>2, <2>3, LeastMember
<1>2. PICK x \in s : m = n - x
  BY <1>1
<1>3. \A k \in s : x >= k
  BY <1>1, <1>2
<1>4. \E y \in s : \A k \in s : y >= k
  BY <1>3
<1>5. Max(s) \in s /\ \A k \in s : Max(s) >= k
  BY <1>4, Zenon DEF Max
<1> QED
  BY <1>5

(* The part of such a set below its last position.                           *)
LEMMA Below ==
  ASSUME NEW n \in Nat, NEW k \in 1..n, NEW s \in SUBSET (1..k), s # {}
  PROVE  /\ Max(s) \in s /\ Max(s) \in 1..n
         /\ s \ {Max(s)} \in SUBSET (1..(k - 1)) /\ s \ {Max(s)} \in SUBSET (1..n)
<1>1. k \in Nat /\ 1..k \subseteq 1..n
  OBVIOUS
<1>2. Max(s) \in s /\ \A j \in s : j <= Max(s)
  BY <1>1, MaxIn
<1>3. PICK m : m = Max(s)
  OBVIOUS
<1>4. m \in 1..k /\ \A j \in s : j \in 1..k /\ (j # m => j < m)
  <2>1. m \in s /\ \A j \in s : j <= m
    BY <1>2, <1>3
  <2>2. m \in 1..k /\ \A j \in s : j \in 1..k
    BY <2>1
  <2> QED
    BY <1>1, <2>1, <2>2
<1>5. \A j \in s \ {m} : j \in 1..(k - 1)
  BY <1>1, <1>4
<1>6. m \in 1..n /\ s \ {m} \in SUBSET (1..n)
  BY <1>1, <1>4
<1>7. s \ {m} \in SUBSET (1..(k - 1))
  BY <1>5
<1> QED
  BY <1>2, <1>3, <1>6, <1>7

LEMMA FoldsExists ==
  ASSUME NEW n \in Nat, NEW w PROVE \E g : Folds(g, w, 1..n)
<1> DEFINE S == SUBSET (1..n)
           Good(g, k) == /\ g = [s \in S |-> g[s]]
                         /\ \A s \in SUBSET (1..k) : g[s] = FoldAt(g, w, s)
           T == {k \in 0..n : ~ \E g : Good(g, k)}
<1>1. T = {}
  <2> SUFFICES ASSUME T # {} PROVE FALSE
    OBVIOUS
  <2>0. T \in SUBSET Nat
    OBVIOUS
  <2> HIDE DEF T
  <2>1. PICK k \in T : \A m \in T : k <= m
    BY <2>0, LeastMember
  <2>2. k \in 0..n /\ ~ \E g : Good(g, k)
    BY <2>1 DEF T
  <2>3. k # 0
    <3> SUFFICES ASSUME k = 0 PROVE FALSE
      OBVIOUS
    <3> DEFINE g == [s \in S |-> <<>>]
    <3>1. g = [s \in S |-> g[s]] /\ \A s \in SUBSET (1..0) : s = {} /\ s \in S /\ g[s] = <<>>
      OBVIOUS
    <3> HIDE DEF g
    <3>2. \A s \in SUBSET (1..0) : g[s] = FoldAt(g, w, s)
      BY <3>1 DEF FoldAt
    <3>3. Good(g, k)
      BY <3>1, <3>2
    <3> QED
      BY <2>2, <3>3
  <2>4. k - 1 \notin T /\ k - 1 \in 0..n /\ k \in 1..n
    BY <2>1, <2>2, <2>3
  <2>5. PICK g : Good(g, k - 1)
    BY <2>4 DEF T
  <2> DEFINE h == [s \in S |-> IF s \in SUBSET (1..(k - 1)) THEN g[s] ELSE FoldAt(g, w, s)]
  <2>6. ASSUME NEW s \in SUBSET (1..k) PROVE h[s] = FoldAt(g, w, s)
    <3>1. s \in S
      BY <2>4
    <3>2. CASE s \in SUBSET (1..(k - 1))
      <4>1. g[s] = FoldAt(g, w, s)
        BY <2>5, <3>2
      <4> QED
        BY <3>1, <3>2, <4>1
    <3>3. CASE s \notin SUBSET (1..(k - 1))
      BY <3>1, <3>3
    <3> QED
      BY <3>2, <3>3
  <2>7. ASSUME NEW s \in SUBSET (1..k) PROVE FoldAt(h, w, s) = FoldAt(g, w, s)
    <3>1. CASE s = {}
      BY <3>1 DEF FoldAt
    <3>2. CASE s # {}
      <4> DEFINE t == s \ {Max(s)}
      <4>1. t \in SUBSET (1..(k - 1)) /\ t \in S
        BY <2>4, <3>2, Below
      <4>2. h[t] = g[t]
        BY <4>1
      <4> HIDE DEF h
      <4> QED
        BY <3>2, <4>2 DEF FoldAt
    <3> QED
      BY <3>1, <3>2
  <2>8. h = [s \in S |-> h[s]]
    OBVIOUS
  <2> HIDE DEF h
  <2>9. \A s \in SUBSET (1..k) : h[s] = FoldAt(h, w, s)
    BY <2>6, <2>7
  <2>10. Good(h, k)
    BY <2>8, <2>9
  <2> QED
    BY <2>2, <2>10
<1>2. PICK g : Good(g, n)
  BY <1>1
<1>3. g = [s \in S |-> FoldAt(g, w, s)]
  BY <1>2
<1>4. Folds(g, w, 1..n)
  BY <1>3 DEF Folds
<1> QED
  BY <1>4

LEMMA FoldsAre ==
  ASSUME NEW n \in Nat, NEW w, DOMAIN w = 1..n
  PROVE  \E g : /\ \A s \in SUBSET (1..n) : g[s] = FoldAt(g, w, s)
                /\ NotBlank(w) = g[1..n]
<1> DEFINE g == CHOOSE h : Folds(h, w, DOMAIN w)
<1>1. Folds(g, w, DOMAIN w)
  BY FoldsExists, Zenon
<1>2. NotBlank(w) = g[DOMAIN w]
  BY Zenon DEF NotBlank, FoldLeft, MapThenFoldSet, Folds, FoldAt, Joined
<1> HIDE DEF g
<1>3. \A s \in SUBSET (1..n) : g[s] = FoldAt(g, w, s)
  <2> DEFINE h == [s \in SUBSET (1..n) |-> FoldAt(g, w, s)]
  <2>1. g = h
    BY <1>1 DEF Folds
  <2>2. \A s \in SUBSET (1..n) : h[s] = FoldAt(g, w, s)
    OBVIOUS
  <2> HIDE DEF h
  <2> QED
    BY <2>1, <2>2
<1> QED
  BY <1>2, <1>3

(* What constructMessages keeps of a window are rows of it.                  *)
LEMMA NotBlankRows ==
  ASSUME NEW R, NEW w \in Seq(R) PROVE NotBlank(w) \in Seq(R)
<1>1. PICK n \in Nat : n = Len(w) /\ DOMAIN w = 1..n
  OBVIOUS
<1>2. PICK g : /\ \A s \in SUBSET (1..n) : g[s] = FoldAt(g, w, s)
               /\ NotBlank(w) = g[1..n]
  BY <1>1, FoldsAre
<1> DEFINE T == {k \in 0..n : \E s \in SUBSET (1..k) : g[s] \notin Seq(R)}
<1>3. T = {}
  <2> SUFFICES ASSUME T # {} PROVE FALSE
    OBVIOUS
  <2>0. T \in SUBSET Nat
    OBVIOUS
  <2> HIDE DEF T
  <2>1. PICK k \in T : \A m \in T : k <= m
    BY <2>0, LeastMember
  <2>2. k \in 0..n /\ \E s \in SUBSET (1..k) : g[s] \notin Seq(R)
    BY <2>1 DEF T
  <2>3. PICK s \in SUBSET (1..k) : g[s] \notin Seq(R)
    BY <2>2
  <2>4. g[s] = FoldAt(g, w, s)
    <3>1. s \in SUBSET (1..n)
      BY <2>2
    <3> QED
      BY <1>2, <3>1
  <2>5. s # {}
    <3>1. s = {} => g[s] = <<>>
      BY <2>4 DEF FoldAt
    <3>2. <<>> \in Seq(R)
      OBVIOUS
    <3> QED
      BY <2>3, <3>1, <3>2
  <2>6. k \in 1..n
    <3>1. k = 0 => s = {}
      <4>1. 1..0 = {}
        OBVIOUS
      <4> QED
        BY <4>1
    <3>2. k # 0
      BY <2>5, <3>1
    <3>3. k \in 0..n
      BY <2>2
    <3> QED
      BY <3>2, <3>3
  <2>7. PICK t, m : t = s \ {Max(s)} /\ m = Max(s)
    OBVIOUS
  <2>8. m \in 1..n /\ t \in SUBSET (1..(k - 1))
    BY <2>5, <2>6, <2>7, Below
  <2>9. g[t] \in Seq(R)
    <3>1. k - 1 \in 0..n /\ k - 1 \notin T
      BY <2>1, <2>6
    <3> QED
      BY <2>8, <3>1 DEF T
  <2>10. w[m] \in R
    BY <1>1, <2>8
  <2>11. Joined(g[t], w[m]) \in Seq(R)
    BY <2>9, <2>10 DEF Joined
  <2>12. g[s] = Joined(g[t], w[m])
    BY <2>4, <2>5, <2>7 DEF FoldAt
  <2> QED
    BY <2>3, <2>11, <2>12
<1>4. g[1..n] \in Seq(R)
  <2> HIDE DEF T
  <2>1. n \in 0..n /\ n \notin T /\ 1..n \in SUBSET (1..n)
    BY <1>3
  <2>2. n \notin T => \A s \in SUBSET (1..n) : g[s] \in Seq(R)
    BY DEF T
  <2> QED
    BY <2>1, <2>2
<1> QED
  BY <1>2, <1>4

-----------------------------------------------------------------------------
(* Rows of the store are neither calls nor results.                          *)
LEMMA NoRoundRow ==
  ASSUME NEW r \in Rows PROVE "calls" \notin DOMAIN r /\ "results" \notin DOMAIN r
<1>1. CASE r \in History
  <2>1. DOMAIN r = {"user", "of", "time", "empty"}
    BY <1>1, HistoryAssumption
  <2> QED
    BY <2>1
<1>2. CASE r \in ChatRows
  <2>1. DOMAIN r = {"user", "of", "time", "empty"}
    BY <1>2 DEF ChatRows
  <2> QED
    BY <2>1
<1>3. r \in History \/ r \in ChatRows
  BY DEF Rows
<1> QED
  BY <1>1, <1>2, <1>3, Zenon

CallsOf(s) == [user |-> "assistant", calls |-> s]
ResultsOf(s) == [user |-> "user", results |-> s]

LEMMA MessageFields ==
  ASSUME NEW s
  PROVE  /\ "calls" \in DOMAIN CallsOf(s) /\ "results" \notin DOMAIN CallsOf(s) /\ CallsOf(s).calls = s
         /\ "results" \in DOMAIN ResultsOf(s) /\ "calls" \notin DOMAIN ResultsOf(s) /\ ResultsOf(s).results = s
<1>1. DOMAIN CallsOf(s) = {"user", "calls"} /\ DOMAIN ResultsOf(s) = {"user", "results"}
  BY DEF CallsOf, ResultsOf
<1>2. CallsOf(s).calls = s /\ ResultsOf(s).results = s
  BY DEF CallsOf, ResultsOf
<1> QED
  BY <1>1, <1>2

(* Every message of the exchange is one half of a round.                     *)
InPairs(x) ==
  \A i \in 1..Len(x) : \E s :
     \/ x[i] = CallsOf(s) /\ i + 1 \in 1..Len(x) /\ x[i + 1] = ResultsOf(s)
     \/ x[i] = ResultsOf(s) /\ i - 1 \in 1..Len(x) /\ x[i - 1] = CallsOf(s)

(* Each result names its call.                                               *)
Numbered(q) == \A k \in 1..Len(q) : q[k] = k

PairedInv == \A c \in Chats : InPairs(exchange[c]) /\ Numbered(results[c])

LEMMA InPairsMore ==
  ASSUME NEW x \in Seq(Messages), NEW s \in Seq(Nat), InPairs(x)
  PROVE  InPairs(x \o <<CallsOf(s), ResultsOf(s)>>)
<1> DEFINE u == <<CallsOf(s), ResultsOf(s)>>
           y == x \o u
<1>1. CallsOf(s) \in Messages /\ ResultsOf(s) \in Messages
  BY DEF CallsOf, ResultsOf, Messages
<1>2. u \in Seq(Messages) /\ Len(u) = 2 /\ u[1] = CallsOf(s) /\ u[2] = ResultsOf(s)
  BY <1>1
<1>3. PICK n \in Nat : n = Len(x)
  OBVIOUS
<1> HIDE DEF u
<1>4. /\ Len(y) = n + 2
      /\ \A i \in 1..(n + 2) : y[i] = IF i <= n THEN x[i] ELSE u[i - n]
  <2>1. /\ Len(x \o u) = Len(x) + Len(u)
        /\ \A i \in 1..(Len(x) + Len(u)) : (x \o u)[i] = IF i <= Len(x) THEN x[i] ELSE u[i - Len(x)]
    BY <1>2, ConcatProperties
  <2> QED
    BY <1>2, <1>3, <2>1
<1> HIDE DEF y
<1>5. y[n + 1] = CallsOf(s) /\ y[n + 2] = ResultsOf(s)
  <2>1. n + 1 \in 1..(n + 2) /\ n + 2 \in 1..(n + 2) /\ (n + 1) - n = 1 /\ (n + 2) - n = 2
    OBVIOUS
  <2> QED
    BY <1>2, <1>4, <2>1
<1>6. ASSUME NEW i \in 1..Len(y)
      PROVE  \E t : \/ y[i] = CallsOf(t) /\ i + 1 \in 1..Len(y) /\ y[i + 1] = ResultsOf(t)
                    \/ y[i] = ResultsOf(t) /\ i - 1 \in 1..Len(y) /\ y[i - 1] = CallsOf(t)
  <2>1. CASE i <= n
    <3>1. i \in 1..n /\ y[i] = x[i]
      BY <1>4, <2>1
    <3>2. PICK t : \/ x[i] = CallsOf(t) /\ i + 1 \in 1..n /\ x[i + 1] = ResultsOf(t)
                   \/ x[i] = ResultsOf(t) /\ i - 1 \in 1..n /\ x[i - 1] = CallsOf(t)
      BY <1>3, <3>1 DEF InPairs
    <3>3. /\ i + 1 \in 1..n => i + 1 \in 1..Len(y) /\ y[i + 1] = x[i + 1]
          /\ i - 1 \in 1..n => i - 1 \in 1..Len(y) /\ y[i - 1] = x[i - 1]
      BY <1>4
    <3> QED
      BY <3>1, <3>2, <3>3
  <2>2. CASE i = n + 1
    <3>1. i + 1 = n + 2 /\ i + 1 \in 1..Len(y)
      BY <1>4, <2>2
    <3> QED
      BY <1>5, <2>2, <3>1
  <2>3. CASE i = n + 2
    <3>1. i - 1 = n + 1 /\ i - 1 \in 1..Len(y)
      BY <1>4, <2>3
    <3> QED
      BY <1>5, <2>3, <3>1
  <2> QED
    BY <1>4, <2>1, <2>2, <2>3
<1>7. InPairs(y)
  BY <1>6 DEF InPairs
<1> QED
  BY <1>7 DEF y, u

LEMMA PairedRun ==
  ASSUME Inv, PairedInv, NEW c \in Chats, RunTool(c) PROVE PairedInv'
<1>1. GoroutineType
  BY DEF Inv, TypeInv
<1>2. PICK q : q = Append(results[c], Len(results[c]) + 1)
  OBVIOUS
<1>3. results' = [results EXCEPT ![c] = q] /\ exchange' = exchange
  BY <1>2 DEF RunTool
<1>4. results[c] \in Seq(Nat)
  BY <1>1 DEF GoroutineType
<1>5. PICK n \in Nat : n = Len(results[c])
  BY <1>4
<1>6. Len(q) = n + 1 /\ \A k \in 1..(n + 1) : q[k] = IF k = n + 1 THEN n + 1 ELSE results[c][k]
  BY <1>2, <1>4, <1>5
<1>7. Numbered(q)
  <2>1. \A k \in 1..n : results[c][k] = k
    BY <1>5 DEF PairedInv, Numbered
  <2> QED
    BY <1>6, <2>1 DEF Numbered
<1>8. ASSUME NEW d \in Chats PROVE InPairs(exchange'[d]) /\ Numbered(results'[d])
  <2>1. results'[d] = IF d = c THEN q ELSE results[d]
    BY <1>1, <1>3 DEF GoroutineType
  <2> QED
    BY <1>3, <1>7, <2>1 DEF PairedInv
<1> QED
  BY <1>8 DEF PairedInv, InPairs, Numbered

LEMMA PairedAgain ==
  ASSUME Inv, PairedInv, NEW c \in Chats, Again(c) PROVE PairedInv'
<1>1. GoroutineType
  BY DEF Inv, TypeInv
<1>2. PICK s : s = results[c]
  OBVIOUS
<1>3. s \in Seq(Nat) /\ calls[c] \in Nat /\ exchange[c] \in Seq(Messages)
  BY <1>1, <1>2 DEF GoroutineType
<1>4. [k \in 1..calls[c] |-> k] = s
  <2>1. Len(s) = calls[c] /\ \A k \in 1..calls[c] : s[k] = k
    BY <1>2 DEF Again, PairedInv, Numbered
  <2> QED
    BY <1>3, <2>1
<1>5. PICK y : y = exchange[c] \o <<CallsOf(s), ResultsOf(s)>>
  OBVIOUS
<1>6. InPairs(y)
  BY <1>3, <1>5, InPairsMore DEF PairedInv
<1>7. exchange' = [exchange EXCEPT ![c] = y] /\ results' = [results EXCEPT ![c] = <<>>]
  <2>1. exchange' = [exchange EXCEPT ![c] = exchange[c] \o
          <<[user |-> "assistant", calls |-> [k \in 1..calls[c] |-> k]], [user |-> "user", results |-> results[c]]>>]
    BY DEF Again
  <2>2. /\ [user |-> "assistant", calls |-> [k \in 1..calls[c] |-> k]] = CallsOf(s)
        /\ [user |-> "user", results |-> results[c]] = ResultsOf(s)
    BY <1>2, <1>4 DEF CallsOf, ResultsOf
  <2>3. exchange' = [exchange EXCEPT ![c] = exchange[c] \o <<CallsOf(s), ResultsOf(s)>>]
    BY <2>1, <2>2, Zenon
  <2>4. results' = [results EXCEPT ![c] = <<>>]
    BY DEF Again
  <2> QED
    BY <1>5, <2>3, <2>4, Zenon
<1>8. Numbered(<<>>)
  BY DEF Numbered
<1>9. ASSUME NEW d \in Chats PROVE InPairs(exchange'[d]) /\ Numbered(results'[d])
  <2>1. /\ exchange'[d] = IF d = c THEN y ELSE exchange[d]
        /\ results'[d] = IF d = c THEN <<>> ELSE results[d]
    BY <1>1, <1>7 DEF GoroutineType
  <2>2. CASE d = c
    BY <1>6, <1>8, <2>1, <2>2, Zenon
  <2>3. CASE d # c
    BY <2>1, <2>3, Zenon DEF PairedInv
  <2> QED
    BY <2>2, <2>3
<1> QED
  BY <1>9 DEF PairedInv, InPairs, Numbered

LEMMA PairedKept ==
  ASSUME PairedInv, UNCHANGED <<exchange, results>> PROVE PairedInv'
BY DEF PairedInv, InPairs, Numbered

LEMMA PairedStep == Inv /\ PairedInv /\ [Next]_vars => PairedInv'
<1> SUFFICES ASSUME Inv, PairedInv, [Next]_vars PROVE PairedInv'
  OBVIOUS
<1>1. ASSUME NEW c \in Chats, Again(c) PROVE PairedInv'
  BY <1>1, PairedAgain
<1>2. ASSUME NEW c \in Chats, RunTool(c) PROVE PairedInv'
  BY <1>2, PairedRun
<1>3. ASSUME NEW c \in Chats, Close(c) PROVE PairedInv'
  <2>1. exchange' = [exchange EXCEPT ![c] = <<>>] /\ results' = results
    BY <1>3 DEF Close, Forget
  <2>2. InPairs(<<>>)
    BY DEF InPairs
  <2>3. ASSUME NEW d \in Chats PROVE InPairs(exchange'[d]) /\ Numbered(results'[d])
    <3>1. exchange'[d] = IF d = c THEN <<>> ELSE exchange[d]
      BY <2>1 DEF Inv, TypeInv, GoroutineType
    <3>2. CASE d = c
      BY <2>1, <2>2, <3>1, <3>2, Zenon DEF PairedInv
    <3>3. CASE d # c
      BY <2>1, <3>1, <3>3, Zenon DEF PairedInv
    <3> QED
      BY <3>2, <3>3
  <2> QED
    BY <2>3 DEF PairedInv, InPairs, Numbered
<1>4. ASSUME NEW c \in Chats,
             Refuse(c) \/ Receive(c) \/ Token(c) \/ Handler(c)
               \/ Build(c) \/ Ask(c) \/ Answer(c) \/ AnswerFails(c) \/ Fail(c)
      PROVE  PairedInv'
  BY <1>4, PairedKept DEF Refuse, Receive, Token, Handler, AddQuestion, Take, EndOfTokens,
                          AddAnswer, Build, Ask, Answer, AnswerFails, Fail, exchangeVars
<1>5. CASE Tick \/ Clear \/ UNCHANGED vars
  BY <1>5, PairedKept DEF Tick, Clear, vars, exchangeVars
<1> QED
  BY <1>1, <1>2, <1>3, <1>4, <1>5 DEF Next, Goroutine

LEMMA PairedInit == Init => PairedInv
<1> SUFFICES ASSUME Init PROVE PairedInv
  OBVIOUS
<1>1. \A c \in Chats : exchange[c] = <<>> /\ results[c] = <<>>
  BY DEF Init
<1>2. InPairs(<<>>) /\ Numbered(<<>>)
  BY DEF InPairs, Numbered
<1> QED
  BY <1>1, <1>2, Zenon DEF PairedInv

(* What ResultsPaired asks of one message.                                   *)
PairedAt(r, i) ==
  /\ "calls" \in DOMAIN r[i] =>
       /\ i + 1 \in DOMAIN r /\ "results" \in DOMAIN r[i + 1]
       /\ r[i + 1].results = r[i].calls
  /\ "results" \in DOMAIN r[i] => i - 1 \in DOMAIN r /\ "calls" \in DOMAIN r[i - 1]

LEMMA RequestPaired ==
  ASSUME NEW f \in Seq(Rows), NEW x \in Seq(Messages), InPairs(x), NEW i \in DOMAIN (f \o x)
  PROVE  PairedAt(f \o x, i)
<1>0. PICK r : r = f \o x
  OBVIOUS
<1>1. PICK m \in Nat, n \in Nat : m = Len(f) /\ n = Len(x)
  OBVIOUS
<1>2. /\ Len(r) = m + n /\ DOMAIN r = 1..(m + n)
      /\ i \in 1..(m + n)
      /\ \A k \in 1..(m + n) : r[k] = IF k <= m THEN f[k] ELSE x[k - m]
  <2> DEFINE S == Rows \cup Messages
  <2>1. f \in Seq(S) /\ x \in Seq(S)
    OBVIOUS
  <2> HIDE DEF S
  <2>2. /\ f \o x \in Seq(S) /\ Len(f \o x) = m + n
        /\ \A k \in 1..(m + n) : (f \o x)[k] = IF k <= m THEN f[k] ELSE x[k - m]
    BY <1>1, <2>1, ConcatProperties
  <2>3. r \in Seq(S) /\ Len(r) = m + n
        /\ \A k \in 1..(m + n) : r[k] = IF k <= m THEN f[k] ELSE x[k - m]
    BY <1>0, <2>2, Zenon
  <2>4. i \in DOMAIN r
    BY <1>0, Zenon
  <2> QED
    BY <2>3, <2>4
<1>3. CASE i <= m
  <2>1. i \in 1..m /\ r[i] = f[i]
    BY <1>2, <1>3
  <2>2. f[i] \in Rows
    BY <1>1, <2>1
  <2>3. "calls" \notin DOMAIN f[i] /\ "results" \notin DOMAIN f[i]
    BY <2>2, NoRoundRow, Zenon
  <2> QED
    BY <1>0, <2>1, <2>3, Zenon DEF PairedAt
<1>4. CASE i > m
  <2>1. i - m \in 1..n /\ r[i] = x[i - m]
    BY <1>2, <1>4
  <2>2. PICK s : \/ x[i - m] = CallsOf(s) /\ (i - m) + 1 \in 1..n /\ x[(i - m) + 1] = ResultsOf(s)
                 \/ x[i - m] = ResultsOf(s) /\ (i - m) - 1 \in 1..n /\ x[(i - m) - 1] = CallsOf(s)
    BY <1>1, <2>1 DEF InPairs
  <2>3. CASE x[i - m] = CallsOf(s) /\ (i - m) + 1 \in 1..n /\ x[(i - m) + 1] = ResultsOf(s)
    <3>1. i + 1 \in 1..(m + n) /\ ~(i + 1 <= m) /\ (i + 1) - m = (i - m) + 1
      BY <1>2, <1>4, <2>3
    <3>2. r[i + 1] = ResultsOf(s)
      BY <1>2, <2>3, <3>1
    <3>3. PairedAt(r, i)
      BY <1>2, <2>1, <2>3, <3>1, <3>2, MessageFields DEF PairedAt
    <3> QED
      BY <1>0, <3>3, Zenon
  <2>4. CASE x[i - m] = ResultsOf(s) /\ (i - m) - 1 \in 1..n /\ x[(i - m) - 1] = CallsOf(s)
    <3>1. i - 1 \in 1..(m + n) /\ ~(i - 1 <= m) /\ (i - 1) - m = (i - m) - 1
      BY <1>2, <1>4, <2>4
    <3>2. r[i - 1] = CallsOf(s)
      BY <1>2, <2>4, <3>1
    <3>3. PairedAt(r, i)
      BY <1>2, <2>1, <2>4, <3>1, <3>2, MessageFields DEF PairedAt
    <3> QED
      BY <1>0, <3>3, Zenon
  <2> QED
    BY <2>2, <2>3, <2>4
<1>5. i <= m \/ i > m
  BY <1>2
<1> QED
  BY <1>3, <1>4, <1>5, Zenon

(* Whatever became of the tools and whichever rows are blank, every call in  *)
(* a request is followed by its results, for any window, number of rounds    *)
(* and tools (chat.go:143-151, client.go:97-121).                            *)
THEOREM ConversationResultsPaired == Spec => []ResultsPaired
<1>1. Inv /\ PairedInv => ResultsPaired
  <2> SUFFICES ASSUME Inv, PairedInv, NEW c \in Chats,
                      NEW i \in DOMAIN Request(c)
               PROVE  LET r == Request(c)
                      IN  /\ (i \in DOMAIN r /\ "calls" \in DOMAIN r[i]) =>
                               /\ i + 1 \in DOMAIN r /\ "results" \in DOMAIN r[i + 1]
                               /\ r[i + 1].results = r[i].calls
                          /\ (i \in DOMAIN r /\ "results" \in DOMAIN r[i]) =>
                               i - 1 \in DOMAIN r /\ "calls" \in DOMAIN r[i - 1]
    BY Zenon DEF ResultsPaired
  <2> DEFINE r == Request(c)
  <2>1. window[c] \in Seq(Rows) /\ exchange[c] \in Seq(Messages)
    BY DEF Inv, TypeInv, GoroutineType
  <2>2. NotBlank(window[c]) \in Seq(Rows)
    BY <2>1, NotBlankRows
  <2>3. r = NotBlank(window[c]) \o exchange[c]
    BY DEF Request
  <2>4. InPairs(exchange[c])
    BY DEF PairedInv
  <2>5. PairedAt(r, i)
    <3> DEFINE f == NotBlank(window[c])
               x == exchange[c]
    <3>1. f \in Seq(Rows) /\ x \in Seq(Messages) /\ InPairs(x) /\ r = f \o x
      BY <2>1, <2>2, <2>3, <2>4
    <3>2. i \in DOMAIN r
      OBVIOUS
    <3> HIDE DEF f, x, r
    <3>3. i \in DOMAIN (f \o x)
      BY <3>1, <3>2, Zenon
    <3>4. PairedAt(f \o x, i)
      BY <3>1, <3>3, RequestPaired
    <3> QED
      BY <3>1, <3>4, Zenon
  <2> QED
    BY <2>5, Zenon DEF PairedAt
<1>2. Inv /\ PairedInv /\ [Next]_vars => PairedInv'
  BY PairedStep
<1> QED
  BY <1>1, <1>2, PairedInit, ConversationInv, PTL DEF Spec
=============================================================================
