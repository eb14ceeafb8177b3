---------------------------- MODULE ReadingPanel ----------------------------
(***************************************************************************)
(* The interpretation panel of one reading in one browser tab              *)
(* (components/ai/reading-ai-panel.tsx, with the chat and the streamed     *)
(* text it renders): the streamed interpretation, "Parar", the automatic   *)
(* first interpretation guarded by a key in sessionStorage, and the        *)
(* follow-up conversation that mirrors what the server keeps.              *)
(*                                                                         *)
(* A call is named by its value of reqSeqRef.  The panel may be unmounted  *)
(* and mounted again: its references start anew, the session key stays.    *)
(* sessionSeqRef is left out: "Nova pergunta", which moves it, is disabled *)
(* while an answer streams, so no answer ever finds it moved.              *)
(***************************************************************************)
EXTENDS Naturals, FiniteSets, Sequences

CONSTANTS
  MaxSeq,      \* bound on reqSeqRef in one visit
  MaxVisits,   \* bound on the number of times the panel is mounted
  MaxAsks,     \* bound on the follow-up questions of one visit
  StrictMode   \* effects run, are cleaned up and run again at every mount

PanelAssumption ==
  /\ MaxSeq \in Nat \ {0, 1} /\ MaxVisits \in Nat /\ MaxAsks \in Nat
  /\ StrictMode \in BOOLEAN

Calls == 1..MaxSeq
NoId == 0
Turn == [ask : 1..MaxAsks, by : {"user", "assistant"}, of : Calls]
Turns(ask, of, who) == {[ask |-> ask, by |-> w, of |-> of] : w \in who}

VARIABLES
  key,               \* sessionStorage: arkana-ai-autostart:<readingId>
  mounted, visits,
  seq,               \* reqSeqRef
  lock,              \* isStreamingRef
  delivered,         \* streamDeliveredRef
  call,              \* per call: "none", "sent", "reading"
  aborted,           \* the calls whose controller was aborted
  isStreaming, content, interpretationId, error, \* React state
  messages, followUp, \* the conversation shown, the question in flight
  asks,
  stored,            \* server: the turns kept
  lost,              \* an answer of the server did not reach the panel
  told               \* an interpretation was shown in some visit

text  == <<isStreaming, content, interpretationId, error>>
refs  == <<seq, lock, delivered>>
chat  == <<messages, followUp, asks, stored, lost>>
vars  == <<key, mounted, visits, refs, call, aborted, text, chat, told>>

NoAsk == [n |-> 0, of |-> NoId, shown |-> <<>>, got |-> FALSE]

TypeOK ==
  /\ key \in BOOLEAN /\ mounted \in BOOLEAN /\ visits \in 0..MaxVisits
  /\ seq \in 0..MaxSeq /\ lock \in BOOLEAN /\ delivered \in BOOLEAN
  /\ call \in [Calls -> {"none", "sent", "reading"}] /\ aborted \subseteq Calls
  /\ isStreaming \in BOOLEAN /\ content \subseteq Calls
  /\ interpretationId \in 0..MaxSeq /\ error \in {"none", "interpret", "chat"}
  /\ messages \in Seq(Turn) /\ asks \in 0..MaxAsks
  /\ followUp \in [n : 0..MaxAsks, of : 0..MaxSeq, shown : Seq(Turn), got : BOOLEAN]
  /\ stored \subseteq Turn /\ lost \in BOOLEAN /\ told \in BOOLEAN

Init ==
  /\ key = FALSE /\ mounted = FALSE /\ visits = 0
  /\ seq = 0 /\ lock = FALSE /\ delivered = FALSE
  /\ call = [i \in Calls |-> "none"] /\ aborted = {}
  /\ isStreaming = FALSE /\ content = {} /\ interpretationId = NoId
  /\ error = "none"
  /\ messages = <<>> /\ followUp = NoAsk /\ asks = 0
  /\ stored = {} /\ lost = FALSE /\ told = FALSE

-----------------------------------------------------------------------------
InFlight(i) == call[i] # "none"
IsCurrent(i) == i = seq

\* How many times the mount starts an interpretation by itself: StrictMode's
\* clean-up aborts the first one and removes the key, so the effect runs anew.
AutoStarts ==
  IF StrictMode THEN IF key THEN 1 ELSE 2
                ELSE IF key THEN 0 ELSE 1

Mount ==
  /\ ~mounted /\ visits < MaxVisits
  /\ mounted' = TRUE /\ visits' = visits + 1 /\ key' = TRUE
  /\ seq' = AutoStarts /\ lock' = (AutoStarts > 0) /\ delivered' = FALSE
  /\ call' = [i \in Calls |-> IF i <= AutoStarts THEN "sent" ELSE "none"]
  /\ aborted' = 1..(AutoStarts - 1)
  /\ isStreaming' = (AutoStarts > 0) /\ content' = {}
  /\ interpretationId' = NoId /\ error' = "none"
  /\ messages' = <<>> /\ followUp' = NoAsk /\ asks' = 0
  /\ stored' = {} /\ lost' = FALSE
  /\ UNCHANGED told

\* Mutant: the key stays, so that the next visit asks for nothing.
KeyStays == key

\* The clean-up: without a delivery the next visit may try again.
CleanUp == key /\ delivered

\* The calls are aborted; nothing they still do reaches a mounted panel.
Unmount ==
  /\ mounted
  /\ mounted' = FALSE /\ key' = CleanUp /\ lock' = FALSE
  /\ call' = [i \in Calls |-> "none"] /\ aborted' = {}
  /\ UNCHANGED <<visits, seq, delivered, text, chat, told>>

-----------------------------------------------------------------------------
(* What the panel offers: the form unless it streams; an error with "Tentar *)
(* novamente" in the place of the text, except while a question is being    *)
(* answered; "Parar" beside a text being written; the chat about an answer. *)
FollowUpStreaming == followUp.n # 0
CanRetry == error # "none" /\ ~FollowUpStreaming
CanInterpret == ~isStreaming \/ CanRetry
CanStop == isStreaming /\ ~CanRetry
CanAsk == interpretationId # NoId /\ ~FollowUpStreaming

\* handleInterpret, from the form or with the same parameters again.
Interpret ==
  /\ mounted /\ CanInterpret /\ ~lock /\ seq < MaxSeq
  /\ lock' = TRUE /\ seq' = seq + 1
  /\ call' = [call EXCEPT ![seq + 1] = "sent"]
  /\ isStreaming' = TRUE /\ content' = {} /\ interpretationId' = NoId
  /\ error' = "none"
  /\ UNCHANGED <<key, mounted, visits, delivered, aborted, chat, told>>

\* Mutant: the guard is released whoever holds it.
ReleaseAlways(i) == FALSE

\* The finally block.
Release(i) == IF IsCurrent(i) THEN FALSE ELSE lock

\* The call is over; a call that is no longer the current one changes nothing.
Over(i, outcome) ==
  LET answered == IsCurrent(i) /\ outcome \in {"cached", "done"} IN
  /\ call' = [call EXCEPT ![i] = "none"] /\ aborted' = aborted \ {i}
  /\ lock' = Release(i)
  /\ delivered' = (delivered \/ answered)
  /\ told' = (told \/ answered)
  /\ isStreaming' = (isStreaming /\ ~IsCurrent(i))
  /\ interpretationId' = IF answered THEN i ELSE interpretationId
  /\ content' = IF answered /\ outcome = "cached" THEN {i} ELSE content
  /\ error' = IF IsCurrent(i) /\ outcome = "error" THEN "interpret" ELSE error
  /\ UNCHANGED <<key, mounted, visits, seq, chat>>

\* The answer: refused or failed, from the cache, or a stream that opens.
Respond(i) ==
  /\ call[i] = "sent" /\ i \notin aborted
  /\ \/ \E outcome \in {"error", "cached"} : Over(i, outcome)
     \/ /\ call' = [call EXCEPT ![i] = "reading"]
        /\ UNCHANGED <<key, mounted, visits, refs, aborted, text, chat, told>>

\* parseSSE: a token ...
Token(i) ==
  /\ call[i] = "reading" /\ i \notin aborted /\ IsCurrent(i)
  /\ delivered' = TRUE /\ told' = TRUE /\ content' = content \cup {i}
  /\ UNCHANGED <<key, mounted, visits, seq, lock, call, aborted, isStreaming,
                 interpretationId, error, chat>>

\* ... and the final event; the server sends "done" only after a token.
StreamEnds(i) ==
  /\ call[i] = "reading" /\ i \notin aborted
  /\ \/ i \in content /\ Over(i, "done")
     \/ Over(i, "error")

\* An aborted fetch rejects, unless a 401 was being refreshed meanwhile.
AbortSettles(i) ==
  /\ InFlight(i) /\ i \in aborted
  /\ \/ Over(i, "aborted")
     \/ call[i] = "sent" /\ Over(i, "error")

\* Mutant: "Parar" leaves the guard to the aborted call.
StopKeepsLock == lock

StopLock == FALSE

\* handleStop; what was streamed so far stays.
Stop ==
  /\ mounted /\ CanStop /\ seq < MaxSeq
  /\ seq' = seq + 1 /\ lock' = StopLock /\ aborted' = aborted \cup {seq}
  /\ isStreaming' = FALSE
  /\ UNCHANGED <<key, mounted, visits, delivered, call, content,
                 interpretationId, error, chat, told>>

-----------------------------------------------------------------------------
Said(n, of, who) == [ask |-> n, by |-> who, of |-> of]

\* handleSendMessage: the question is shown at once.
SendMessage ==
  /\ mounted /\ CanAsk /\ asks < MaxAsks
  /\ asks' = asks + 1
  /\ followUp' = [n |-> asks + 1, of |-> interpretationId,
                  shown |-> messages, got |-> FALSE]
  /\ messages' = Append(messages, Said(asks + 1, interpretationId, "user"))
  /\ error' = "none"
  /\ UNCHANGED <<key, mounted, visits, refs, call, aborted, isStreaming, content,
                 interpretationId, stored, lost, told>>

FollowUpToken ==
  /\ mounted /\ FollowUpStreaming /\ ~followUp.got
  /\ followUp' = [followUp EXCEPT !.got = TRUE]
  /\ UNCHANGED <<key, mounted, visits, refs, call, aborted, text, messages, asks,
                 stored, lost, told>>

\* Mutant: every failure takes the question back.
ShownBefore(asked) == followUp.shown

\* After an "error" event: the question stays if part of its answer was read.
ShownAfterError(asked) ==
  IF followUp.got THEN Append(followUp.shown, asked) ELSE followUp.shown

(* The question is answered; or it ends with the "error" event; or it is    *)
(* refused before the stream opens; or the connection fails, and the server *)
(* may have kept the question, and even its answer.  The server deletes the *)
(* question of a stream that failed before its first token.                 *)
FollowUpOver ==
  LET n == followUp.n
      of == followUp.of
      asked == Said(n, of, "user")
      kept == Turns(n, of, {"user"})
      whole == Turns(n, of, {"user", "assistant"})
  IN
  /\ mounted /\ FollowUpStreaming
  /\ followUp' = NoAsk
  /\ \/ /\ followUp.got
        /\ messages' = followUp.shown \o <<asked, Said(n, of, "assistant")>>
        /\ stored' = stored \cup whole
        /\ UNCHANGED <<error, lost>>
     \/ /\ messages' = ShownAfterError(asked)
        /\ stored' = stored \cup (IF followUp.got THEN kept ELSE {})
        /\ error' = "chat" /\ UNCHANGED lost
     \/ /\ ~followUp.got
        /\ messages' = followUp.shown /\ error' = "chat"
        /\ UNCHANGED <<stored, lost>>
     \/ /\ messages' = followUp.shown /\ error' = "chat" /\ lost' = TRUE
        /\ \E some \in {{}, kept, whole} : stored' = stored \cup some
  /\ UNCHANGED <<key, mounted, visits, refs, call, aborted, isStreaming, content,
                 interpretationId, asks, told>>

\* handleNewSession ("Nova pergunta").
NewSession ==
  /\ mounted /\ CanAsk
  /\ messages' = <<>> /\ interpretationId' = NoId /\ content' = {}
  /\ error' = "none"
  /\ UNCHANGED <<key, mounted, visits, refs, call, aborted, isStreaming, followUp,
                 asks, stored, lost, told>>

Next ==
  \/ Mount \/ Unmount \/ Interpret \/ Stop
  \/ \E i \in Calls : Respond(i) \/ Token(i) \/ StreamEnds(i) \/ AbortSettles(i)
  \/ SendMessage \/ FollowUpToken \/ FollowUpOver \/ NewSession

Spec == Init /\ [][Next]_vars

-----------------------------------------------------------------------------
(* The guard, the spinner and the network agree: the panel refuses a new    *)
(* interpretation exactly while it shows one being written, that one is the *)
(* current call and not an aborted one, and every other call was aborted.   *)
OneStream ==
  mounted =>
    /\ lock <=> isStreaming
    /\ lock => seq > 0 /\ InFlight(seq) /\ seq \notin aborted
    /\ \A i \in Calls : InFlight(i) /\ i # seq => i \in aborted

(* The text shown comes from a single call, and the interpretation that is  *)
(* asked about is the one whose text is shown.                              *)
OneAnswer ==
  /\ Cardinality(content) <= 1
  /\ interpretationId # NoId => content = {interpretationId}

(* The conversation about an interpretation is the one the server keeps, or *)
(* was cleared: also after a refusal, a failure before the first token, one *)
(* in the middle, and an interpretation asked for meanwhile.                *)
HistoryMirrored ==
  mounted /\ ~FollowUpStreaming /\ ~lost =>
    \A i \in Calls :
      {m \in {messages[k] : k \in DOMAIN messages} : m.of = i}
        \in {{}, {t \in stored : t.of = i}}

(* A visit that showed nothing leaves no key behind: the next visit starts  *)
(* the interpretation again.                                                *)
KeyMeansTold == ~mounted /\ key => told
=============================================================================
