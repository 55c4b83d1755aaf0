---------------------------- MODULE Registration ----------------------------
(***************************************************************************)
(* POST /agents/register and /missions/register: a pre-shared key is       *)
(* exchanged for a token, skills and a broker password are stored under    *)
(* locks of their own, and the answer may not reach the caller.  Requests  *)
(* overlap, are repeated, and race the edits of the collections the keys   *)
(* come from (ResetRegTokens).  ReportSkills, a gRPC call authenticated in *)
(* a step of its own, writes the same skills.                              *)
(*                                                                         *)
(* Agents and missions have tables of their own; their ids differ, so one  *)
(* table serves here.  A token or password is the number of the request it *)
(* was made for: rand never repeats one.                                   *)
(***************************************************************************)
EXTENDS Naturals, FiniteSets

CONSTANTS
  AgentIds, MissionIds, \* ids of the two collections
  BadTopic,             \* agent ids that are no topic segment
  MaxRequests,          \* bound: requests
  MaxKeyEdits           \* bound: edits of the collections

ASSUME RegistrationAssumption ==
  /\ AgentIds \cap MissionIds = {} /\ BadTopic \subseteq AgentIds
  /\ AgentIds \cup MissionIds # {} /\ MaxRequests \in Nat /\ MaxKeyEdits \in Nat

Ids == AgentIds \cup MissionIds
Requests == 1..MaxRequests
None == 0                        \* no token, no password, no skills
Refusals == {"400", "401", "500"}

VARIABLES
  keys,      \* AuthService.regTokens: the ids with a key (a key is written as its id)
  tokens,    \* AuthService.authTokens
  passwords, \* AuthService.mqttPasswords
  skills,    \* AgentRegistry.skills: the request they came with
  missions,  \* MissionRegistry.missions: id -> number of edits when its name was taken
  edits,     \* edits of the collections so far
  mqtt,      \* core's configuration: MQTT is enabled
  request,   \* request r: [id, pc]
  reporting, \* registrations whose holder is in ReportSkills, past the interceptor
  overlaps   \* history: requests that overlapped another call for their id

registrationVars == <<keys, tokens, passwords, skills, missions, edits, mqtt, request, reporting, overlaps>>

Over(r) == request[r].pc \in Refusals \cup {"none", "200"}
For(id) == {r \in Requests : request[r].pc # "none" /\ request[r].id = id}
Unanswered(id) == {r \in For(id) : ~Over(r)}
Started == Cardinality({r \in Requests : request[r].pc # "none"})

RegistrationTypeOK ==
  /\ keys \subseteq Ids
  /\ tokens \in [Ids -> 0..MaxRequests] /\ passwords \in [AgentIds -> 0..MaxRequests]
  /\ skills \in [AgentIds -> 0..MaxRequests]
  /\ DOMAIN missions \subseteq MissionIds /\ \A m \in DOMAIN missions : missions[m] \in 0..MaxKeyEdits
  /\ edits \in 0..MaxKeyEdits /\ mqtt \in BOOLEAN /\ reporting \subseteq Requests /\ overlaps \subseteq Requests
  /\ request \in [Requests -> [id : Ids, pc : Refusals \cup
                    {"none", "body", "exchange", "register", "topic", "password", "answer", "200"}]]

RegistrationInit ==
  /\ keys \in {Ids, AgentIds} /\ edits = 0
  /\ tokens = [i \in Ids |-> None] /\ passwords = [a \in AgentIds |-> None]
  /\ skills = [a \in AgentIds |-> None] /\ missions = [m \in {} |-> 0]
  /\ request = [r \in Requests |-> [id |-> CHOOSE i \in Ids : TRUE, pc |-> "none"]]
  /\ mqtt \in BOOLEAN /\ reporting = {} /\ overlaps = {}

Goes(r, pc) == request' = [request EXCEPT ![r].pc = pc]
-----------------------------------------------------------------------------
(* Plausible bugs, each a changed form of a definition below; no run uses them, the *)
(* manifest's mutants do.                                                          *)

\* A token that is still there is given out again.
ExchangeRegTokenReuses(r) ==
  /\ request[r].pc = "exchange"
  /\ IF request[r].id \notin keys THEN Goes(r, "401") /\ UNCHANGED tokens
     ELSE /\ tokens' = [tokens EXCEPT ![request[r].id] = IF @ = None THEN r ELSE @]
          /\ Goes(r, IF request[r].id \in MissionIds THEN "register" ELSE "body")
  /\ UNCHANGED <<keys, passwords, skills, missions, edits, mqtt, reporting, overlaps>>
-----------------------------------------------------------------------------
(* The requests *)

\* A request with a bearer token begins; a mission's body is decoded first, an agent's
\* after the exchange.
BeginRegister(id) ==
  /\ Started < MaxRequests
  /\ LET r == Started + 1 IN
       /\ request' = [request EXCEPT ![r] = [id |-> id, pc |-> IF id \in MissionIds THEN "body" ELSE "exchange"]]
       /\ overlaps' = overlaps \cup Unanswered(id) \cup
            (IF Unanswered(id) = {} /\ For(id) \cap reporting = {} THEN {} ELSE {r})
  /\ UNCHANGED <<keys, tokens, passwords, skills, missions, edits, mqtt, reporting>>

\* ExchangeRegToken: a new token replaces the one before, whatever becomes of the request.
ExchangeRegToken(r) ==
  /\ request[r].pc = "exchange"
  /\ IF request[r].id \notin keys THEN Goes(r, "401") /\ UNCHANGED tokens
     ELSE /\ tokens' = [tokens EXCEPT ![request[r].id] = r]
          /\ Goes(r, IF request[r].id \in MissionIds THEN "register" ELSE "body")
  /\ UNCHANGED <<keys, passwords, skills, missions, edits, mqtt, reporting, overlaps>>

DecodeBody(r) ==
  /\ request[r].pc = "body"
  /\ \/ Goes(r, IF request[r].id \in MissionIds THEN "exchange" ELSE "register")
     \/ Goes(r, "400")
  /\ UNCHANGED <<keys, tokens, passwords, skills, missions, edits, mqtt, reporting, overlaps>>

\* AgentRegistry.Register: skills and cameras are replaced, by none if the body has none.
RegisterAgent(r) ==
  /\ request[r].pc = "register" /\ request[r].id \in AgentIds
  /\ skills' = [skills EXCEPT ![request[r].id] = r]
  /\ Goes(r, IF mqtt THEN "topic" ELSE "answer")
  /\ UNCHANGED <<keys, tokens, passwords, missions, edits, mqtt, reporting, overlaps>>

\* MissionRegistry.Register: a mission that is registered stays as it is.
RegisterMission(r) ==
  /\ request[r].pc = "register" /\ request[r].id \in MissionIds
  /\ missions' = IF request[r].id \in DOMAIN missions THEN missions
                 ELSE [m \in DOMAIN missions \cup {request[r].id} |->
                         IF m = request[r].id THEN edits ELSE missions[m]]
  /\ Goes(r, "answer")
  /\ UNCHANGED <<keys, tokens, passwords, skills, edits, mqtt, reporting, overlaps>>

CheckTopic(r) ==
  /\ request[r].pc = "topic"
  /\ Goes(r, IF request[r].id \in BadTopic THEN "500" ELSE "password")
  /\ UNCHANGED <<keys, tokens, passwords, skills, missions, edits, mqtt, reporting, overlaps>>

IssueMQTTCredentials(r) ==
  /\ request[r].pc = "password"
  /\ passwords' = [passwords EXCEPT ![request[r].id] = r] /\ Goes(r, "answer")
  /\ UNCHANGED <<keys, tokens, skills, missions, edits, mqtt, reporting, overlaps>>

Answer(r) ==
  /\ request[r].pc = "answer" /\ Goes(r, "200")
  /\ UNCHANGED <<keys, tokens, passwords, skills, missions, edits, mqtt, reporting, overlaps>>

\* authenticateMetadata: the caller holds the token of request r.
Authenticates(r) == tokens[request[r].id] = r

BeginReport(r) ==
  /\ request[r].pc = "200" /\ request[r].id \in AgentIds /\ Authenticates(r)
  /\ reporting' = reporting \cup {r} /\ overlaps' = overlaps \cup Unanswered(request[r].id)
  /\ UNCHANGED <<keys, tokens, passwords, skills, missions, edits, mqtt, request>>

\* The skills are stored, or one has no valid schema and none is.
ReportSkills(r) ==
  /\ r \in reporting /\ reporting' = reporting \ {r}
  /\ \/ skills' = [skills EXCEPT ![request[r].id] = r]
     \/ UNCHANGED skills
  /\ UNCHANGED <<keys, tokens, passwords, missions, edits, mqtt, request, overlaps>>

\* An edit of the collections: the keys are replaced, tokens already issued are not.
ResetRegTokens(now) ==
  /\ edits < MaxKeyEdits /\ edits' = edits + 1 /\ keys' = now
  /\ UNCHANGED <<tokens, passwords, skills, missions, mqtt, request, reporting, overlaps>>

RegistrationNext ==
  \/ \E id \in Ids : BeginRegister(id)
  \/ \E r \in Requests :
       \/ ExchangeRegToken(r) \/ DecodeBody(r) \/ RegisterAgent(r) \/ RegisterMission(r)
       \/ CheckTopic(r) \/ IssueMQTTCredentials(r) \/ Answer(r)
       \/ BeginReport(r) \/ ReportSkills(r)
  \/ \E now \in SUBSET Ids : ResetRegTokens(now)

RegistrationSpec == RegistrationInit /\ [][RegistrationNext]_registrationVars
-----------------------------------------------------------------------------
(* Properties *)

\* Request r has taken a token: a mission's body is decoded before that, an agent's after.
Exchanged(r) ==
  request[r].pc \notin {"none", "exchange", "401"}
    /\ (request[r].id \in MissionIds => request[r].pc \notin {"body", "400"})

\* Where no other call for the id overlapped it, the last request that took a token and
\* was answered holds token, skills and, if core uses MQTT, broker password together: a
\* later request that was refused at its key has taken nothing away.
AnswersHold ==
  \A r \in Requests \ overlaps :
    (request[r].pc = "200" /\ \A q \in For(request[r].id) : q > r => ~Exchanged(q)) =>
      /\ Authenticates(r)
      /\ request[r].id \in AgentIds =>
           skills[request[r].id] = r /\ (mqtt => passwords[request[r].id] = r)

\* A token that works was made for its id, by a request that found a key of that id.
TokensAreEarned ==
  \A i \in Ids : tokens[i] # None => request[tokens[i]].id = i /\ Exchanged(tokens[i])

\* No password is given to an id that is no topic segment, or by a core without MQTT.
PasswordsAreTopics ==
  \A a \in AgentIds : passwords[a] # None => mqtt /\ a \notin BadTopic

\* A mission that was answered is registered, however often and whenever it registers.
AnsweredMissionIsListed ==
  \A r \in Requests :
    (request[r].pc = "200" /\ request[r].id \in MissionIds) => request[r].id \in DOMAIN missions

RegistrationSound ==
  RegistrationTypeOK /\ AnswersHold /\ TokensAreEarned /\ PasswordsAreTopics /\ AnsweredMissionIsListed
=============================================================================
