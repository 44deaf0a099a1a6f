----------------------------- MODULE RemoteModel -----------------------------
(***************************************************************************)
(* The engine of a tenant's own model: the adapter of its endpoint with    *)
(* its circuit breaker, and what the guardrails let through to the caller. *)
(*                                                                         *)
(* One adapter serves every call of the model, so that turns of several    *)
(* calls wait for the endpoint at once.  A phone number is a sequence of   *)
(* digits.                                                                 *)
(***************************************************************************)
EXTENDS Naturals, SequencesExt

CONSTANTS RTurns,      \* bound: turns at once
          Protocol,    \* of the model: FALAI_TURN, OPENAI_CHAT, ...
          Threshold,   \* BREAKER_FAILURE_THRESHOLD
          Digits,      \* bound: the digits numbers are made of
          National,    \* NATIONAL_DIGITS
          MaxDigits,   \* bound: digits of a number
          OwnNumbers   \* the tenant's lines and extensions

ASSUME RemoteModelAssumption ==
  /\ IsFiniteSet(RTurns) /\ IsFiniteSet(Digits)
  /\ Threshold \in Nat \ {0} /\ National \in Nat \ {0} /\ MaxDigits \in Nat
  /\ Protocol \in {"FALAI_TURN", "OPENAI_CHAT", "ANTHROPIC_MESSAGES"}
  /\ OwnNumbers \subseteq Seq(Digits)

VARIABLES
  breaker, \* the adapter's failures in a row, and whether it is open
  turns    \* what each turn waits for, and what it made the caller hear

remoteVars == <<breaker, turns>>

-----------------------------------------------------------------------------
(* What the endpoint's answer is read as (parseResponse, normalizeTurn).   *)

Actions == {"continue", "end_call", "escalate", "capture"}
Numbers == UNION {[1..n -> Digits] : n \in 0..MaxDigits}
NoNumber == <<>>

\* The bodies of an answer, by what the reading tells apart: a turn with a
\* known action or an unknown one, a reply without action, plain text, an
\* empty text, or no text where the protocol keeps it.
Bodies == {"turn", "unknown action", "no action", "text", "empty", "nothing"}
Contract == "contract"
TheirTurn == "their turn"
TextTurn == "text and continue"

\* Protocols of plain text: a JSON turn is taken as one, anything else is
\* said as it stands and the call goes on.
ParseTextTurn(body) ==
  CASE body = "turn" -> TheirTurn
    [] body \in {"unknown action", "empty", "nothing"} -> Contract
    [] OTHER -> TextTurn
ParseResponse(body) ==
  IF Protocol = "FALAI_TURN"
  THEN IF body = "turn" THEN TheirTurn ELSE Contract
  ELSE ParseTextTurn(body)

\* The action a read turn asks for.
ActionOf(read, action) == IF read = TextTurn THEN "continue" ELSE action

-----------------------------------------------------------------------------
(* The guardrails.                                                         *)

\* Mutant: one number may end with the other whatever their lengths.
EscalationAllowedBySuffix(target) ==
  /\ target # NoNumber
  /\ \E n \in OwnNumbers \ {NoNumber} : IsSuffix(target, n) \/ IsSuffix(n, target)

\* Both numbers complete, one may carry the country's prefix; a short one is
\* an extension and must be equal.
EscalationAllowed(target) ==
  /\ target # NoNumber
  /\ \E n \in OwnNumbers \ {NoNumber} :
       \/ n = target
       \/ /\ Len(n) >= National /\ Len(target) >= National
          /\ IsSuffix(target, n) \/ IsSuffix(n, target)

\* What is said and done, and whether a rule fired.
ApplyGuardrails(action, to, long, banned) ==
  LET refused == action = "escalate" /\ ~EscalationAllowed(to)
  IN  [reply |-> IF banned THEN "fallback" ELSE "theirs",
       action |-> IF refused THEN "continue" ELSE action,
       to |-> IF refused THEN NoNumber ELSE to,
       violated |-> refused \/ long \/ banned]
\* A turn whose model failed says the fallback sentence and goes on.
FallbackTurn == [reply |-> "fallback", action |-> "continue", to |-> NoNumber,
                 violated |-> FALSE]

-----------------------------------------------------------------------------
TurnSteps == {"idle", "post", "read", "failed", "spoken", "hung"}
Said == [reply: {"none", "theirs", "fallback"}, action: Actions,
         to: Numbers, violated: BOOLEAN]
Silence == [reply |-> "none", action |-> "continue", to |-> NoNumber,
            violated |-> FALSE]
NoTurn == [pc |-> "idle", body |-> "nothing", late |-> FALSE, said |-> Silence]

RemoteTypeOK ==
  /\ breaker \in [failures: 0..Threshold, open: BOOLEAN]
  /\ turns \in [RTurns -> [pc: TurnSteps, body: Bodies, late: BOOLEAN,
                           said: Said]]

RemoteInit ==
  /\ breaker = [failures |-> 0, open |-> FALSE]
  /\ turns = [t \in RTurns |-> NoTurn]

\* recordFailure; the count is only compared with the threshold, where it
\* stops here.  What a turn that is posting brings back comes late once the
\* breaker has opened.
RecordFailure(t, step) ==
  LET n == IF breaker.failures < Threshold THEN breaker.failures + 1
           ELSE Threshold
      opens == n >= Threshold
  IN  /\ breaker' = [failures |-> n, open |-> opens \/ breaker.open]
      /\ turns' = [u \in RTurns |->
           IF u = t THEN [NoTurn EXCEPT !.pc = step]
           ELSE [turns[u] EXCEPT !.late = @ \/ (opens /\ turns[u].pc = "post")]]

-----------------------------------------------------------------------------
\* Mutant: an open breaker lets turns through.
AskModelAnyway(t) ==
  /\ turns[t].pc = "idle"
  /\ turns' = [turns EXCEPT ![t].pc = "post"]
  /\ UNCHANGED breaker

\* generateTurnResponse up to its await: an open breaker and an address the
\* guard refuses fail at once, and count for nothing.
AskModel(t) ==
  /\ turns[t].pc = "idle"
  /\ \/ /\ ~breaker.open
        /\ turns' = [turns EXCEPT ![t].pc = "post"]
     \/ turns' = [turns EXCEPT ![t].pc = "failed"]
  /\ UNCHANGED breaker

\* The endpoint answers: JSON that is read, or not; what cannot be read fails.
\* A success closes the breaker, even that of a turn asked before it opened.
ReadAnswer(t, body) ==
  /\ turns[t].pc = "post"
  /\ IF ParseResponse(body) = Contract THEN RecordFailure(t, "failed")
     ELSE /\ breaker' = [failures |-> 0, open |-> FALSE]
          /\ turns' = [turns EXCEPT ![t].pc = "read", ![t].body = body]

\* An error, a redirection, a refused address, too long an answer, no JSON, or
\* no answer in time.
FailAnswer(t) ==
  /\ turns[t].pc = "post"
  /\ RecordFailure(t, "failed")
\* The connection ends in the middle of the answer: neither the end of the
\* answer nor an error of the request is heard of, and the time limit, that of
\* an idle socket, went with the socket.
LoseEndpointAnswer(t) ==
  /\ turns[t].pc = "post"
  /\ turns' = [turns EXCEPT ![t] = [NoTurn EXCEPT !.pc = "hung"]]
  /\ UNCHANGED breaker

ReopenBreaker ==
  /\ breaker.open
  /\ breaker' = [breaker EXCEPT !.open = FALSE]
  /\ turns' = [t \in RTurns |-> [turns[t] EXCEPT !.late = FALSE]]

\* TurnProcessor: the reply passes the guardrails; a failure says the fallback
\* and is not held against the model.
SpeakReply(t) ==
  /\ turns[t].pc = "read"
  /\ \E action \in Actions, to \in Numbers, long \in BOOLEAN,
        banned \in BOOLEAN :
       /\ action # "escalate" => to = NoNumber
       /\ turns' = [turns EXCEPT ![t] = [NoTurn EXCEPT
            !.pc = "spoken", !.body = turns[t].body,
            !.said = ApplyGuardrails(
              ActionOf(ParseResponse(turns[t].body), action), to, long, banned)]]
  /\ UNCHANGED breaker
SpeakFallback(t) ==
  /\ turns[t].pc = "failed"
  /\ turns' = [turns EXCEPT ![t] = [NoTurn EXCEPT !.pc = "spoken",
                                                  !.said = FallbackTurn]]
  /\ UNCHANGED breaker
\* The turn was heard; or its call ends, which frees one that hangs.
NextTurn(t) ==
  /\ turns[t].pc \in {"spoken", "hung"}
  /\ turns' = [turns EXCEPT ![t] = NoTurn]
  /\ UNCHANGED breaker

RemoteNext ==
  \/ \E t \in RTurns : \/ AskModel(t) \/ FailAnswer(t) \/ LoseEndpointAnswer(t)
                       \/ \E body \in Bodies : ReadAnswer(t, body)
                       \/ SpeakReply(t) \/ SpeakFallback(t) \/ NextTurn(t)
  \/ ReopenBreaker

RemoteSpec == RemoteInit /\ [][RemoteNext]_remoteVars

-----------------------------------------------------------------------------
\* The last digits of a number, or all of it when it is an extension.
SamePhone(n, target) ==
  \/ n = target
  \/ /\ Len(n) >= National /\ Len(target) >= National
     /\ SubSeq(n, Len(n) - National + 1, Len(n))
          = SubSeq(target, Len(target) - National + 1, Len(target))

\* Whatever the endpoint answers: a call is transferred only to a number of
\* the tenant, ends or is transferred only when a turn said so in JSON (a
\* model of plain text never hangs up by accident), and a model that failed
\* is not held to have violated anything (guardrail.service.ts, the header of
\* RemoteModelAdapter.ts).
SpokenTurnIsSafe ==
  \A t \in RTurns : turns[t].pc = "spoken" =>
    LET said == turns[t].said
    IN  /\ said.action = "escalate" =>
             \E n \in OwnNumbers : SamePhone(n, said.to)
        /\ said.action # "continue" => turns[t].body = "turn"
        /\ turns[t].body = "nothing" => said = FallbackTurn

\* While the breaker is open the endpoint gets no turn, and before its time is
\* over only the success of a turn asked earlier closes it
\* (generateTurnResponse).
BreakerClosesForACause ==
  [][breaker.open =>
       /\ \A t \in RTurns : turns'[t].pc = "post" => turns[t].pc = "post"
       /\ \/ breaker'.open
          \/ breaker'.failures = breaker.failures
          \/ \E t \in RTurns : turns[t].late /\ turns'[t].pc = "read"
      ]_remoteVars
=============================================================================
