------------------------------- MODULE Webphone -------------------------------
(***************************************************************************)
(* The webphone of the CRM (apps/crm/src/contexts/WebphoneContext.tsx and  *)
(* the buttons of WebphonePage.tsx): the line the user picks, the SIP user *)
(* agent of that line, and the one call the page holds.  The user agent    *)
(* and its sessions are JsSIP's.                                           *)
(***************************************************************************)
EXTENDS FiniteSets

CONSTANTS WLines,     \* extensions the user may pick
          Selections, \* picks, each with a user agent of its own
          WSessions   \* SIP sessions

VARIABLES shown,    \* extensionId, registration and callState of the page
          current,  \* uaRef: the selection whose user agent the page holds
          held,     \* sessionRef
          agents,   \* of each selection, its line and its user agent
          sessions, \* of each session, its user agent and its state
          raced,    \* selections that were under way together
          crowded   \* sessions that began or ended beside another live one

webphoneVars == <<shown, current, held, agents, sessions, raced, crowded>>

NoSelection == "none"
ASSUME WebphoneAssumption == NoSelection \notin Selections
NoWSession == "none"
NoWLine == "none"

InCall == shown.call \in {"calling", "ringing", "in-call"}
Incoming == shown.call = "incoming"

WebphoneInit ==
  /\ shown = [line |-> NoWLine, registration |-> "unregistered", call |-> "idle"]
  /\ current = NoSelection /\ held = NoWSession
  /\ agents = [s \in Selections |-> [line |-> NoWLine, at |-> "free"]]
  /\ sessions = [c \in WSessions |-> [agent |-> NoSelection, at |-> "free", out |-> FALSE]]
  /\ raced = {} /\ crowded = {}

Fetching == {s \in Selections : agents[s].at = "fetching"}
Running == {s \in Selections : agents[s].at \in {"starting", "registered"}}
LiveSessions == {c \in WSessions : sessions[c].at \in {"new", "up"}}
Of(s) == {c \in LiveSessions : sessions[c].agent = s}

----------------------------------------------------------------------------
(* The user agent that the page holds is stopped, and its sessions with    *)
(* it; a registered one is still to say that it unregistered.              *)
\* Mutant: the page lets the user agent go without stopping it.
ForgetUa == agents

TeardownUa == [s \in Selections |->
                 IF s = current
                   THEN [agents[s] EXCEPT !.at = IF @ = "registered" THEN "leaving" ELSE "stopped"]
                   ELSE agents[s]]

(* Picking is disabled during a call.  The library and the credentials are *)
(* fetched, then the user agent is started.                                *)
SelectExtension(s, number) ==
  /\ agents[s].at = "free" /\ ~InCall /\ ~Incoming
  /\ agents' = [TeardownUa EXCEPT ![s] = [line |-> number, at |-> "fetching"]]
  /\ sessions' = [c \in WSessions |-> IF current # NoSelection /\ c \in Of(current)
                                        THEN [sessions[c] EXCEPT !.at = "over"] ELSE sessions[c]]
  /\ current' = NoSelection /\ held' = NoWSession
  /\ shown' = [line |-> number, registration |-> "registering", call |-> "idle"]
  /\ raced' = IF Fetching = {} THEN raced ELSE raced \cup Fetching \cup {s}
  /\ UNCHANGED crowded

CredentialsArrive(s) ==
  /\ agents[s].at = "fetching"
  /\ agents' = [agents EXCEPT ![s].at = "starting"]
  /\ current' = s
  /\ UNCHANGED <<shown, held, sessions, raced, crowded>>

CredentialsFail(s) ==
  /\ agents[s].at = "fetching"
  /\ agents' = [agents EXCEPT ![s].at = "stopped"]
  /\ shown' = [shown EXCEPT !.registration = "failed"]
  /\ UNCHANGED <<current, held, sessions, raced, crowded>>

(* What any user agent reports is shown, whichever it is. *)
Registration(s, at, told) ==
  /\ agents' = [agents EXCEPT ![s].at = at]
  /\ shown' = [shown EXCEPT !.registration = told]
  /\ UNCHANGED <<current, held, sessions, raced, crowded>>

Registered(s) == agents[s].at = "starting" /\ Registration(s, "registered", "registered")
RegistrationFailed(s) == agents[s].at = "starting" /\ Registration(s, "starting", "failed")
Unregistered(s) == \/ agents[s].at = "registered" /\ Registration(s, "starting", "unregistered")
                   \/ agents[s].at = "leaving" /\ Registration(s, "stopped", "unregistered")

----------------------------------------------------------------------------
(* A session becomes the one that the buttons act on. *)
AttachSession(c, s, state) ==
  /\ sessions[c].at = "free"
  /\ sessions' = [sessions EXCEPT ![c] = [agent |-> s, at |-> "new", out |-> state = "calling"]]
  /\ held' = c /\ shown' = [shown EXCEPT !.call = state]
  /\ crowded' = IF LiveSessions = {} THEN crowded ELSE crowded \cup LiveSessions \cup {c}
  /\ UNCHANGED <<current, agents, raced>>

IncomingCall(s, c) == agents[s].at = "registered" /\ AttachSession(c, s, "incoming")

Call(c) == /\ current # NoSelection /\ shown.registration = "registered" /\ ~InCall /\ ~Incoming
           /\ AttachSession(c, current, "calling")

Progress(c) ==
  /\ sessions[c].at = "new"
  /\ shown' = [shown EXCEPT !.call = IF @ = "incoming" THEN @ ELSE "ringing"]
  /\ UNCHANGED <<current, held, agents, sessions, raced, crowded>>

(* The other side answers, or the user answers the session that is held.   *)
Up(c) == /\ sessions[c].at = "new"
         /\ sessions' = [sessions EXCEPT ![c].at = "up"]
         /\ shown' = [shown EXCEPT !.call = "in-call"]
         /\ UNCHANGED <<current, held, agents, raced, crowded>>
PeerAccepts(c) == sessions[c].out /\ Up(c)
Answer == held # NoWSession /\ ~sessions[held].out /\ Up(held)

(* The end of any session is taken for the end of the one that is held.    *)
EndSession(c) ==
  /\ c \in LiveSessions
  /\ sessions' = [sessions EXCEPT ![c].at = "over"]
  /\ held' = NoWSession /\ shown' = [shown EXCEPT !.call = "ended"]
  /\ crowded' = IF LiveSessions = {c} THEN crowded ELSE crowded \cup LiveSessions
  /\ UNCHANGED <<current, agents, raced>>

Ended(c) == EndSession(c)
Hangup == held # NoWSession /\ EndSession(held)

BecomeIdle == /\ shown.call = "ended"
              /\ shown' = [shown EXCEPT !.call = "idle"]
              /\ UNCHANGED <<current, held, agents, sessions, raced, crowded>>

WebphoneNext ==
  \/ \E s \in Selections :
       \/ \E number \in WLines : SelectExtension(s, number)
       \/ CredentialsArrive(s) \/ CredentialsFail(s)
       \/ Registered(s) \/ RegistrationFailed(s) \/ Unregistered(s)
       \/ \E c \in WSessions : IncomingCall(s, c)
  \/ \E c \in WSessions : Call(c) \/ Progress(c) \/ PeerAccepts(c) \/ Ended(c)
  \/ Answer \/ Hangup \/ BecomeIdle

WebphoneSpec == WebphoneInit /\ [][WebphoneNext]_webphoneVars

----------------------------------------------------------------------------
(* Every part of the state has its type. *)
WebphoneTypeOK ==
  /\ current \in Selections \cup {NoSelection} /\ held \in WSessions \cup {NoWSession}
  /\ shown.line \in WLines \cup {NoWLine}
  /\ shown.registration \in {"unregistered", "registering", "registered", "failed"}
  /\ shown.call \in {"idle", "calling", "ringing", "incoming", "in-call", "ended"}
  /\ \A s \in Selections : agents[s].at \in {"free", "fetching", "starting", "registered", "leaving", "stopped"}

(***************************************************************************)
(* Nothing of the webphone escapes the page: a user agent that runs is the *)
(* one the page holds, of the line it shows, unless two picks were under   *)
(* way together; and a live session is the one its buttons act on, unless  *)
(* it had another beside it or its user agent had already escaped          *)
(* (WebphoneContext.tsx:70-77, 94-104, 109-156).                           *)
(***************************************************************************)
PhoneStaysInThePage ==
  /\ \A s \in Running \ raced : s = current /\ agents[s].line = shown.line
  /\ \A c \in LiveSessions \ crowded : c = held \/ sessions[c].agent \in raced
=============================================================================
