----------------------------- MODULE TopicLayout -----------------------------
(***************************************************************************)
(* The topics of an agent, <prefix>/agent/<id>/..., the filters core       *)
(* subscribes with, and how core reads an agent's id and a task's id back  *)
(* from a topic.  A text is a sequence of words and of the characters that *)
(* matter: ids may be words of the layout itself, empty, or hold the       *)
(* separator or a wildcard.                                                *)
(***************************************************************************)
EXTENDS Naturals, Sequences, SequencesExt, FiniteSetsExt

CONSTANTS
  Words,     \* words of ids and prefixes, "task" and "status" among them
  MaxWords   \* bound: words of an id

Texts == SeqOf(Words \cup {"/", "+"}, MaxWords)
TopicPrefixes == SeqOf(Words \cup {"/", "+"}, 1)
Slash == <<"/">>
Kinds == {"telemetry", "telemetry-schema", "event", "new", "status"}

VARIABLES
  sent,  \* the topic that is published, with its agent, task and kind, or the refusal
  heard  \* what core's subscriber makes of it

topicVars == <<sent, heard>>
Nothing == [kind |-> "none"]

HasAny(text, chars) == \E i \in 1..Len(text) : text[i] \in chars

\* validTopicSegment
ValidSegment(text) == text # <<>> /\ ~HasAny(text, {"+", "#", "/"})

\* NewTopic
ValidTopic(prefix, agent) == ValidSegment(prefix) /\ ValidSegment(agent)

Base(prefix, agent) == prefix \o <<"/", "agent", "/">> \o agent \o Slash

Topic(prefix, agent, kind, task) ==
  Base(prefix, agent) \o
    CASE kind = "new"    -> <<"task", "/", "new">>
      [] kind = "status" -> <<"task", "/">> \o task \o <<"/", "status">>
      [] OTHER           -> <<kind>>

\* Core's subscriptions: one per kind an agent publishes.
Filter(prefix, kind) ==
  Base(prefix, <<"+">>) \o IF kind = "status" THEN <<"task", "/", "+", "/", "status">> ELSE <<kind>>

\* How the broker reads both: level by level.
Levels(text) ==
  LET read[n \in 0..Len(text)] ==
        IF n = 0 THEN << <<>> >>
        ELSE LET before == read[n - 1] IN
               IF text[n] = "/" THEN Append(before, <<>>)
               ELSE [before EXCEPT ![Len(before)] = Append(@, text[n])]
  IN  read[Len(text)]
Matches(filter, topic) ==
  LET f == Levels(filter)  t == Levels(topic)
  IN  Len(f) = Len(t) /\ \A i \in 1..Len(f) : f[i] = <<"+">> \/ f[i] = t[i]

After(head, text) == SubSeq(text, Len(head) + 1, Len(text))
Invalid == <<>>

\* AgentIDFromTopic
AgentIDFromTopic(prefix, topic) ==
  LET head == prefix \o <<"/", "agent", "/">>
      rest == After(head, topic)
      cut  == {i \in 1..Len(rest) : rest[i] = "/"}
  IN  IF ~IsPrefix(head, topic) \/ cut = {} THEN Invalid ELSE SubSeq(rest, 1, Min(cut) - 1)

\* The id of a status topic, without the look at what is between its parts.
TaskIDOfLastLevel(prefix, topic) ==
  LET levels == Levels(topic) IN
    IF Len(levels) < 2 THEN Invalid ELSE levels[Len(levels) - 1]

\* TaskIDFromStatusTopic
TaskIDFromStatusTopic(prefix, topic) ==
  LET trimmed == SubSeq(topic, 1, Len(topic) - 2)
      agent   == AgentIDFromTopic(prefix, trimmed)
      want    == Base(prefix, agent) \o <<"task", "/">>
      task    == After(want, trimmed)
  IN  IF ~IsSuffix(<<"/", "status">>, topic) \/ agent = Invalid \/ ~IsPrefix(want, trimmed)
           \/ HasAny(task, {"/"})
        THEN Invalid ELSE task
-----------------------------------------------------------------------------
TopicInit == sent = Nothing /\ heard = Nothing

\* A topic is built and published, or its id is refused.
Publish(prefix, agent, kind, task) ==
  /\ kind # "status" => task = <<>>
  /\ sent' = IF ~ValidTopic(prefix, agent) \/ (kind = "status" /\ ~ValidSegment(task))
             THEN [kind |-> "refused"]
             ELSE [kind |-> kind, prefix |-> prefix, agent |-> agent, task |-> task,
                   topic |-> Topic(prefix, agent, kind, task)]
  /\ UNCHANGED heard

\* The broker delivers a topic to the handler of a filter that matches it; the handler
\* of the status topics reads both ids, the others the agent's.
Hear(kind) ==
  /\ heard = Nothing /\ sent.kind \in Kinds
  /\ Matches(Filter(sent.prefix, kind), sent.topic)
  /\ heard' = [kind |-> kind, agent |-> AgentIDFromTopic(sent.prefix, sent.topic),
               task |-> TaskIDFromStatusTopic(sent.prefix, sent.topic)]
  /\ UNCHANGED sent

\* Levels after a prefix.
Joined(prefix, levels) ==
  LET joined[n \in 0..Len(levels)] ==
        IF n = 0 THEN prefix ELSE joined[n - 1] \o Slash \o levels[n]
  IN  joined[Len(levels)]

\* Anybody may publish any topic of the right shape.
PublishText(prefix, levels) ==
  /\ ValidSegment(prefix)
  /\ sent' = [kind |-> "text", prefix |-> prefix, topic |-> Joined(prefix, levels)]
  /\ heard' = [kind |-> "text", agent |-> AgentIDFromTopic(prefix, sent'.topic),
               task |-> TaskIDFromStatusTopic(prefix, sent'.topic)]

TopicNext ==
  \/ sent = Nothing /\ \E prefix \in TopicPrefixes, agent, task \in Texts, kind \in Kinds :
                          Publish(prefix, agent, kind, task)
  \/ sent = Nothing /\ \E prefix \in TopicPrefixes,
                           levels \in SeqOf({<<>>, <<"agent">>} \cup SeqOf(Words, 1), 4) :
                          PublishText(prefix, levels)
  \/ \E kind \in Kinds \ {"new"} : Hear(kind)

TopicSpec == TopicInit /\ [][TopicNext]_topicVars
-----------------------------------------------------------------------------
(* Properties *)

\* What an agent publishes reaches the handler of its kind only and with its own ids,
\* whatever words the ids are; a task for an agent is heard by no handler of core's; and a
\* text read as a status topic is exactly the status topic of the ids it is read as.
TopicsReadBack ==
  /\ (sent.kind \in Kinds /\ heard # Nothing) =>
       /\ heard.kind = sent.kind /\ heard.agent = sent.agent
       /\ heard.task = IF sent.kind = "status" THEN sent.task ELSE Invalid
  /\ sent.kind \in Kinds \ {"new"} => Matches(Filter(sent.prefix, sent.kind), sent.topic)
  /\ (sent.kind = "text" /\ heard.task # Invalid) =>
       sent.topic = Topic(sent.prefix, heard.agent, "status", heard.task)
=============================================================================
