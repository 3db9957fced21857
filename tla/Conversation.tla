---------------------------- MODULE Conversation ----------------------------
(***************************************************************************)
(* Chats with the language model (server/chat.go, internal/llm/client.go).  *)
(* For each message handleChat stores a row, starts a goroutine that asks    *)
(* the model and runs the tools it calls, and reads the answer's tokens from *)
(* a bounded channel until the goroutine closes it; then it stores the       *)
(* answer.  The history that the model sees is read back from the store,     *)
(* which all chats share and which orders rows by the second they are from.   *)
(*                                                                         *)
(* A chat here is one message and its answer; its tools are in ToolCalls.    *)
(***************************************************************************)
EXTENDS Integers, Sequences, FiniteSets, FiniteSetsExt, SequencesExt

CONSTANTS
  Chats,
  History,         \* the rows of earlier chats
  HistoryLimit,    \* 10
  MaxIterations,   \* 10
  Capacity,        \* 64: of tokenChan
  MaxCalls,        \* bound on the tools one answer in a chat calls
  MaxClock         \* bound on the seconds that pass

ASSUME ConversationAssumption ==
  /\ HistoryLimit \in Nat \ {0} /\ MaxIterations \in Nat \ {0} /\ Capacity \in Nat \ {0}
  /\ MaxCalls \in [Chats -> Nat] /\ MaxClock \in Nat

(* Earlier chats were stored in seconds up to now, questions before answers.   *)
ASSUME HistoryAssumption ==
  /\ IsFiniteSet(History)
  /\ \A r \in History : /\ DOMAIN r = {"user", "of", "time", "empty"}
                        /\ r.of \notin Chats /\ r.time \in Int /\ r.time <= 0
  /\ \A q, a \in History :
       (q.of = a.of /\ q.user = "user" /\ a.user = "assistant") => q.time <= a.time

VARIABLES
  clock,      \* in seconds
  rows,       \* chat_history
  cleared,    \* was it cleared? once, here
  pc, now,    \* of each handler: where it is, and the time it last read
  gpc,        \* of each goroutine
  window,     \* the history in its request to the model
  exchange,   \* the tool calls and results after that
  calls, results,   \* of the answer in hand: how many calls, which have run
  buffered, closed, \* tokenChan
  blank,      \* is the answer blank so far?
  said,       \* history: the time of the user's row
  lost        \* history: the row was not stored, or cleared

handlerVars == <<pc, now, blank, said>>
exchangeVars == <<window, exchange, calls, results>>
chanVars == <<buffered, closed>>
storeVars == <<clock, rows, cleared, lost>>
vars == <<handlerVars, gpc, exchangeVars, chanVars, storeVars>>

Row(user, c, time, empty) == [user |-> user, of |-> c, time |-> time, empty |-> empty]
Question(c) == Row("user", c, said[c], FALSE)

Init ==
  /\ clock = 0 /\ rows = History /\ cleared = FALSE
  /\ pc = [c \in Chats |-> "new"] /\ now = [c \in Chats |-> 0]
  /\ gpc = [c \in Chats |-> "none"]
  /\ window = [c \in Chats |-> <<>>] /\ exchange = [c \in Chats |-> <<>>]
  /\ calls = [c \in Chats |-> 0] /\ results = [c \in Chats |-> <<>>]
  /\ buffered = [c \in Chats |-> 0] /\ closed = [c \in Chats |-> FALSE]
  /\ blank = [c \in Chats |-> TRUE]
  /\ said = [c \in Chats |-> 0] /\ lost = [c \in Chats |-> FALSE]

Goto(c, label) == pc' = [pc EXCEPT ![c] = label]
Go(c, label) == gpc' = [gpc EXCEPT ![c] = label]

-----------------------------------------------------------------------------
(* The handler.                                                             *)

(* A request that is malformed or blank is answered at once.                 *)
Refuse(c) ==
  /\ pc[c] = "new" /\ Goto(c, "done")
  /\ UNCHANGED <<now, blank, said, gpc, exchangeVars, chanVars, storeVars>>

Receive(c) ==
  /\ pc[c] = "new" /\ Goto(c, "add")
  /\ now' = [now EXCEPT ![c] = clock] /\ said' = [said EXCEPT ![c] = clock]
  /\ UNCHANGED <<blank, gpc, exchangeVars, chanVars, storeVars>>

(* addChatHistory, whose failure is only logged, and the goroutine starts.    *)
AddQuestion(c) ==
  /\ pc[c] = "add" /\ Goto(c, "stream") /\ Go(c, "build")
  /\ \/ rows' = rows \cup {Question(c)} /\ UNCHANGED lost
     \/ lost' = [lost EXCEPT ![c] = TRUE] /\ UNCHANGED rows
  /\ UNCHANGED <<clock, cleared, now, blank, said, exchangeVars, chanVars>>

Take(c) ==
  /\ pc[c] = "stream" /\ buffered[c] > 0
  /\ buffered' = [buffered EXCEPT ![c] = @ - 1]
  /\ blank' = [blank EXCEPT ![c] = FALSE]
  /\ UNCHANGED <<pc, now, said, closed, gpc, exchangeVars, storeVars>>

(* The range over tokenChan ends when it is closed and empty.                *)
EndOfTokens(c) ==
  /\ pc[c] = "stream" /\ closed[c] /\ buffered[c] = 0
  /\ Goto(c, "answer") /\ now' = [now EXCEPT ![c] = clock]
  /\ UNCHANGED <<blank, said, gpc, exchangeVars, chanVars, storeVars>>

AddAnswer(c) ==
  /\ pc[c] = "answer" /\ Goto(c, "done")
  /\ now' = [now EXCEPT ![c] = 0] /\ blank' = [blank EXCEPT ![c] = TRUE]
  /\ \/ rows' = rows \cup {Row("assistant", c, now[c], blank[c])}
     \/ UNCHANGED rows
  /\ UNCHANGED <<clock, cleared, lost, said, gpc, exchangeVars, chanVars>>

-----------------------------------------------------------------------------
(* The goroutine.                                                           *)

(* getChatHistory: HistoryLimit rows of the latest seconds, those of one      *)
(* second in any order, turned into chronological order.                     *)
Latest(S) == \A r \in S, other \in rows \ S : other.time <= r.time
Chronological(w) == \A i, k \in DOMAIN w : i < k => w[i].time <= w[k].time

(* Mutant: the rows stay in the order of the query.                          *)
Windows_NotReversed ==
  LET n == Min({HistoryLimit, Cardinality(rows)})
      latest == {S \in kSubset(n, rows) : Latest(S)}
  IN  {Reverse(w) : w \in {v \in UNION {SetToSeqs(S) : S \in latest} : Chronological(v)}}

Windows ==
  LET n == Min({HistoryLimit, Cardinality(rows)})
      latest == {S \in kSubset(n, rows) : Latest(S)}
  IN  {w \in UNION {SetToSeqs(S) : S \in latest} : Chronological(w)}

(* buildChatHistory: the message alone if there is no row, or no reading.      *)
Build(c) ==
  /\ gpc[c] = "build" /\ Go(c, "ask")
  /\ \E w \in Windows \cup {<<>>} :
       window' = [window EXCEPT ![c] = IF w = <<>> THEN <<Question(c)>> ELSE w]
  /\ UNCHANGED <<handlerVars, exchange, calls, results, chanVars, storeVars>>

(* constructMessages leaves blank rows out; the model begins to answer.        *)
NotBlank(w) ==
  FoldLeft(LAMBDA messages, r : IF r.empty THEN messages ELSE Append(messages, r), <<>>, w)

Request(c) == NotBlank(window[c]) \o exchange[c]

Ask(c) ==
  /\ gpc[c] = "ask" /\ Go(c, "read")
  /\ UNCHANGED <<handlerVars, exchangeVars, chanVars, storeVars>>

(* Mutant: the channel grows as needed.                                      *)
Send_Unbounded(c) ==
  /\ buffered[c] <= Capacity
  /\ buffered' = [buffered EXCEPT ![c] = @ + 1]
  /\ UNCHANGED closed

(* A send on tokenChan waits for room.                                       *)
Send(c) ==
  /\ buffered[c] < Capacity
  /\ buffered' = [buffered EXCEPT ![c] = @ + 1]
  /\ UNCHANGED closed

Token(c) ==
  /\ gpc[c] = "read" /\ Send(c)
  /\ UNCHANGED <<handlerVars, gpc, exchangeVars, storeVars>>

(* The answer ends, with the tools it calls,                                 *)
Answer(c) ==
  /\ gpc[c] = "read"
  /\ \E n \in 0..MaxCalls[c] :
       calls' = [calls EXCEPT ![c] = n] /\ Go(c, IF n = 0 THEN "close" ELSE "tools")
  /\ UNCHANGED <<handlerVars, window, exchange, results, chanVars, storeVars>>

(* or with an error, and then its tools are not run; there may be no model.    *)
AnswerFails(c) ==
  /\ gpc[c] \in {"ask", "read"} /\ Go(c, "fail")
  /\ UNCHANGED <<handlerVars, exchangeVars, chanVars, storeVars>>

(* Mutant: the result of a tool that fails does not name its call.             *)
RunTool_NoId(c) ==
  /\ gpc[c] = "tools" /\ Len(results[c]) < calls[c]
  /\ \E id \in {0, Len(results[c]) + 1} : results' = [results EXCEPT ![c] = Append(@, id)]
  /\ UNCHANGED <<handlerVars, gpc, window, exchange, calls, chanVars, storeVars>>

(* fetchToolResults: one tool after the other; an unknown tool or invalid      *)
(* arguments are a result, too.                                              *)
RunTool(c) ==
  /\ gpc[c] = "tools" /\ Len(results[c]) < calls[c]
  /\ results' = [results EXCEPT ![c] = Append(@, Len(@) + 1)]
  /\ UNCHANGED <<handlerVars, gpc, window, exchange, calls, chanVars, storeVars>>

Round(c) == Len(exchange[c]) \div 2

(* Calls and results join the messages, and the model is asked again, up to    *)
(* MaxIterations times.                                                      *)
Again(c) ==
  /\ gpc[c] = "tools" /\ Len(results[c]) = calls[c]
  /\ exchange' = [exchange EXCEPT ![c] = @ \o
       <<[user |-> "assistant", calls |-> [k \in 1..calls[c] |-> k]], [user |-> "user", results |-> results[c]]>>]
  /\ Go(c, IF Round(c) + 1 < MaxIterations THEN "ask" ELSE "close")
  /\ calls' = [calls EXCEPT ![c] = 0] /\ results' = [results EXCEPT ![c] = <<>>]
  /\ UNCHANGED <<handlerVars, window, chanVars, storeVars>>

(* The error is a token of the answer,                                       *)
Fail(c) ==
  /\ gpc[c] = "fail" /\ Send(c) /\ Go(c, "close")
  /\ UNCHANGED <<handlerVars, exchangeVars, storeVars>>

(* The goroutine's messages go with it.                                      *)
Forget(c) ==
  /\ window' = [window EXCEPT ![c] = <<>>] /\ exchange' = [exchange EXCEPT ![c] = <<>>]

(* Mutant: the channel is closed only where the error was sent to it.         *)
Close_AfterAnError(c) ==
  /\ gpc[c] = "close" /\ Go(c, "ended")
  /\ closed' = [closed EXCEPT ![c] = buffered[c] > 0]
  /\ Forget(c)
  /\ UNCHANGED <<handlerVars, buffered, calls, results, storeVars>>

(* and the deferred close ends it.                                           *)
Close(c) ==
  /\ gpc[c] = "close" /\ Go(c, "ended")
  /\ closed' = [closed EXCEPT ![c] = TRUE]
  /\ Forget(c)
  /\ UNCHANGED <<handlerVars, buffered, calls, results, storeVars>>

-----------------------------------------------------------------------------
Tick ==
  /\ clock < MaxClock /\ clock' = clock + 1
  /\ UNCHANGED <<rows, cleared, lost, handlerVars, gpc, exchangeVars, chanVars>>

(* DELETE /api/chat                                                          *)
Clear ==
  /\ ~cleared /\ cleared' = TRUE /\ rows' = {}
  /\ lost' = [c \in Chats |-> lost[c] \/ Question(c) \in rows]
  /\ UNCHANGED <<clock, handlerVars, gpc, exchangeVars, chanVars>>

Handler(c) == AddQuestion(c) \/ Take(c) \/ EndOfTokens(c) \/ AddAnswer(c)
Goroutine(c) == \/ Build(c) \/ Ask(c) \/ Answer(c) \/ AnswerFails(c)
                \/ RunTool(c) \/ Again(c) \/ Fail(c) \/ Close(c)

Next ==
  \/ \E c \in Chats : Refuse(c) \/ Receive(c) \/ Token(c) \/ Handler(c) \/ Goroutine(c)
  \/ Tick \/ Clear

Spec == Init /\ [][Next]_vars

(* Goroutines that can go on do, the store answers, and an answer of the       *)
(* model ends (its stream closes or breaks: nothing here bounds it in time).   *)
Fairness == \A c \in Chats : WF_vars(Handler(c)) /\ WF_vars(Goroutine(c))
FairSpec == Spec /\ Fairness

-----------------------------------------------------------------------------
TypeOK ==
  /\ clock \in 0..MaxClock /\ cleared \in BOOLEAN
  /\ rows \subseteq History \cup [user : {"user", "assistant"}, of : Chats,
                                  time : 0..MaxClock, empty : BOOLEAN]
  /\ pc \in [Chats -> {"new", "add", "stream", "answer", "done"}]
  /\ gpc \in [Chats -> {"none", "build", "ask", "read", "tools", "fail", "close", "ended"}]
  /\ now \in [Chats -> 0..MaxClock] /\ said \in [Chats -> 0..MaxClock]
  /\ \A c \in Chats :
       /\ Len(window[c]) <= HistoryLimit /\ Round(c) <= MaxIterations
       /\ calls[c] \in 0..MaxCalls[c] /\ Len(results[c]) <= calls[c]
       /\ buffered[c] \in 0..Capacity
  /\ closed \in [Chats -> BOOLEAN] /\ blank \in [Chats -> BOOLEAN]
  /\ lost \in [Chats -> BOOLEAN]

Requests == {"read", "tools"}

(* chat.go:88: the history the model is asked with "includes the user message  *)
(* just added", unless it could not be stored, was cleared, or HistoryLimit     *)
(* rows of other chats are of the same second or later.  What the model is      *)
(* shown after it is not older, and nobody's answer comes before its question    *)
(* unless both are of one second.                                            *)
OwnMessageAsked ==
  \A c \in Chats : gpc[c] \in Requests =>
    LET w == window[c] IN
    /\ \/ \E i \in DOMAIN w :
            w[i] = Question(c) /\ \A k \in DOMAIN w : k > i => w[k].time >= said[c]
       \/ lost[c]
       \/ Len(w) = HistoryLimit /\ \A i \in DOMAIN w : w[i].time >= said[c]
    /\ \A i, k \in DOMAIN w :
         (i < k /\ w[i].of = w[k].of /\ w[i].user = "assistant" /\ w[k].user = "user")
           => w[i].time = w[k].time

(* The model requires a result for each tool it called, in the next message:   *)
(* each round of a request has them, in order, whatever became of the tools,     *)
(* and rows come before rounds (chat.go:143-151, client.go:97-121).             *)
ResultsPaired ==
  \A c \in Chats : gpc[c] \in Requests =>
    LET r == Request(c)
        Has(i, field) == i \in DOMAIN r /\ field \in DOMAIN r[i]
    IN  \A i \in DOMAIN r :
          /\ Has(i, "calls") => Has(i + 1, "results") /\ r[i + 1].results = r[i].calls
          /\ Has(i, "results") => Has(i - 1, "calls")

(* Every chat ends, with its channel closed: the reply always comes, although   *)
(* the goroutine may wait for room in the channel and the handler for tokens.   *)
EveryChatEnds ==
  \A c \in Chats : pc[c] = "add" ~> pc[c] = "done" /\ closed[c] /\ buffered[c] = 0
=============================================================================
