-------------------------- MODULE TelemetryContract --------------------------
(***************************************************************************)
(* What the ingest listener makes of one message: the verdict of Validate  *)
(* or CheckSchemaAnnouncement (telemetry/validate), the row of             *)
(* enqueueTelemetryRow with its mapped agent and time (telemetry/mapping), *)
(* the live envelope, and the violations handed to the throttler.          *)
(*                                                                         *)
(* A payload is its form, the JSON kind of its properties and what is      *)
(* found at the mapped paths.  The verdict itself is the schema library's  *)
(* (external): it may also fail on a keyword classify does not know.  Time *)
(* is in ticks of a Duration of a few bits, so its limits are near.        *)
(***************************************************************************)
EXTENDS Integers, FiniteSets, Sequences

CONSTANTS
  Props,        \* properties of payloads and schemas
  ContractHashes,       \* schema hashes
  NoHash,
  MaxDuration,  \* the largest time.Duration
  SaneWindow,   \* saneWindow
  MaxTime,      \* bound: times
  ReceivedAt    \* when the message is received

ASSUME ContractAssumption ==
  /\ NoHash \notin ContractHashes
  /\ SaneWindow \in Nat \ {0} /\ MaxDuration \in Nat /\ SaneWindow < MaxDuration
  /\ MaxTime \in Nat /\ ReceivedAt \in 0..MaxTime

JSONValues == {"integral", "fraction", "string", "null"}
Types == {{}, {"integer"}, {"number", "string"}}   \* declared types; none allows all
Schemas == [required : SUBSET Props, types : [Props -> Types],
            hash : ContractHashes]
NoContract == [required |-> {}, types |-> [p \in Props |-> {}], hash |-> NoHash]
NotFound == -1   \* no value at the path configured for the time, or none configured
Unusable == -2   \* a value that is no time
Found == {NotFound, Unusable} \cup (0..MaxTime)
Kinds == {"missing_required", "type_mismatch", "constraint", "not_json", "no_contract",
          "schema_contract_mismatch"}
Unparsable == {"not_json", "empty"}   \* forms json.Unmarshal refuses
Bad == {"missing_required", "type_mismatch", "constraint", "not_json"}
Valid == [kind |-> "none", paths |-> {}]
NoRow == [agent |-> "none", time |-> 0, valid |-> "null", hash |-> NoHash]

VARIABLES
  stage,     \* the listener's next call
  entry,     \* what the registry resolves for the agent
  payload,   \* [body, fails]; fails: it fails a keyword of the schema beyond types
  violation, \* the verdict
  row,       \* the row handed to the store, or NoRow
  envelope,  \* "valid" of the live envelope, or "none"
  events     \* violations handed to the throttler, in order

contractVars == <<stage, entry, payload, violation, row, envelope, events>>

Object(fields) == [form |-> "object", fields |-> fields]
Fieldless(form) == [form |-> form, fields |-> [p \in {} |-> "null"]]

ContractTypeOK ==
  /\ stage \in {"arrive", "validate", "announced", "persist", "live", "record", "over"}
  /\ entry \in Schemas \cup {NoContract}
  /\ violation.kind \in Kinds \cup {"none"} /\ violation.paths \subseteq Props
  /\ envelope \in {"none", "true", "false", "null"}
  /\ Len(events) <= 2 /\ \A i \in DOMAIN events : events[i].kind \in Kinds \cup {"bad_timestamp"}

ContractInit ==
  /\ stage = "arrive" /\ entry = NoContract
  /\ payload = [body |-> Fieldless("not_json"), fails |-> FALSE]
  /\ violation = Valid /\ row = NoRow /\ envelope = "none" /\ events = <<>>

JSONTypeOf(value) == IF value \in {"integral", "fraction"} THEN "number" ELSE value

TypeMatches(value, types) ==
  \/ types = {} \/ JSONTypeOf(value) \in types
  \/ "integer" \in types /\ value = "integral"

MissingRequired(schema, fields) == schema.required \ DOMAIN fields

MismatchedTypes(schema, fields) ==
  {p \in DOMAIN fields : ~TypeMatches(fields[p], schema.types[p])}

\* jsonschema-go's verdict.
Conforms(schema, body, fails) ==
  /\ ~fails
  /\ body.form = "object" =>
       MissingRequired(schema, body.fields) = {} /\ MismatchedTypes(schema, body.fields) = {}

Classify(schema, body) ==
  LET missing    == MissingRequired(schema, body.fields)
      mismatched == MismatchedTypes(schema, body.fields)
  IN  IF body.form # "object" THEN [kind |-> "constraint", paths |-> {}]
      ELSE IF missing # {}    THEN [kind |-> "missing_required", paths |-> missing]
      ELSE IF mismatched # {} THEN [kind |-> "type_mismatch", paths |-> mismatched]
      ELSE [kind |-> "constraint", paths |-> {}]

\* A payload without contract is stored as invalid (a plausible bug, for a mutant only).
ValidPtrTwoValued(v) == IF v.kind = "none" THEN "true" ELSE "false"

\* validPtr
ValidPtr(v) == CASE v.kind = "none" -> "true" [] v.kind = "no_contract" -> "null" [] OTHER -> "false"

\* A payload is a sample as it is only if it is whole and JSON; else a JSON string of it.
SampleFor(p, long) == IF ~long /\ p.body.form \notin Unparsable THEN "raw" ELSE "string"

\* time.Time.Sub: a Duration, saturated; its negation is two's complement.
Sub(t, u) == IF t - u > MaxDuration THEN MaxDuration
             ELSE IF t - u < -(MaxDuration + 1) THEN -(MaxDuration + 1) ELSE t - u
Neg(d) == IF d = -(MaxDuration + 1) THEN d ELSE -d

WithinSaneWindow(t) ==
  LET diff == Sub(t, ReceivedAt) IN (IF diff < 0 THEN Neg(diff) ELSE diff) <= SaneWindow
-----------------------------------------------------------------------------
(* The listener *)

Goes(to) == stage' = to

Arrive(kind, contract, body, fails) ==
  /\ stage = "arrive" /\ Goes(IF kind = "telemetry" THEN "validate" ELSE "announced")
  /\ entry' = contract /\ payload' = [body |-> body, fails |-> fails]
  /\ UNCHANGED <<violation, row, envelope, events>>

Validate ==
  /\ stage = "validate" /\ Goes("persist")
  /\ violation' = IF entry = NoContract THEN [kind |-> "no_contract", paths |-> {}]
                  ELSE IF payload.body.form \in Unparsable THEN [kind |-> "not_json", paths |-> {}]
                  ELSE IF Conforms(entry, payload.body, payload.fails) THEN Valid
                  ELSE Classify(entry, payload.body)
  /\ UNCHANGED <<entry, payload, row, envelope, events>>

\* The payload is decoded into a struct: JSON null leaves it empty, an object with a field
\* of the wrong type is refused like what is no object.
CheckSchemaAnnouncement(hash, decodes) ==
  /\ stage = "announced" /\ Goes("record")
  /\ payload.body.form = "null" => hash = NoHash /\ decodes
  /\ violation' = IF entry = NoContract THEN [kind |-> "no_contract", paths |-> {}]
                  ELSE IF payload.body.form \notin {"object", "null"} \/ ~decodes
                  THEN [kind |-> "not_json", paths |-> {}]
                  ELSE IF hash = entry.hash THEN Valid
                  ELSE [kind |-> "schema_contract_mismatch", paths |-> {}]
  /\ UNCHANGED <<entry, payload, row, envelope, events>>

\* mapping.Apply, with what is found at the agent's path (a usable id or none) and at the
\* time's.
Apply(agent, time) ==
  [agent     |-> IF agent = "other" THEN "other" ELSE "topic",
   time      |-> IF time \in 0..MaxTime /\ WithinSaneWindow(time) THEN time ELSE ReceivedAt,
   violation |-> time = Unusable \/ (time \in 0..MaxTime /\ ~WithinSaneWindow(time))]

\* enqueueTelemetryRow: no row for a group without persistence; a payload that is no JSON
\* has nothing at any path.
EnqueueTelemetryRow(enabled, agent, time) ==
  /\ stage = "persist" /\ Goes("live")
  /\ payload.body.form # "object" => agent = "none" /\ time = NotFound
  /\ LET result == Apply(agent, time) IN
       IF ~enabled THEN UNCHANGED <<row, events>>
       ELSE /\ row' = [agent |-> result.agent, time |-> result.time,
                       valid |-> ValidPtr(violation), hash |-> entry.hash]
            /\ events' = IF result.violation
                         THEN <<[agent |-> result.agent, kind |-> "bad_timestamp", paths |-> {"time"},
                                 sample |-> "none"]>>
                         ELSE events
  /\ UNCHANGED <<entry, payload, violation, envelope>>

\* publishLiveEnvelope: an envelope around something that is not JSON cannot be marshalled;
\* an empty payload was copied to nil (handle), which marshals as null.
PublishLiveEnvelope ==
  /\ stage = "live" /\ Goes("record")
  /\ envelope' = IF payload.body.form = "not_json" THEN "none" ELSE ValidPtr(violation)
  /\ UNCHANGED <<entry, payload, violation, row, events>>

Record(long) ==
  /\ stage = "record" /\ Goes("over")
  /\ events' = IF violation = Valid THEN events
               ELSE Append(events, [agent |-> "topic", kind |-> violation.kind,
                                    paths |-> violation.paths, sample |-> SampleFor(payload, long)])
  /\ UNCHANGED <<entry, payload, violation, row, envelope>>

Bodies == {Fieldless(form) : form \in {"not_json", "empty", "null", "scalar"}}
            \cup {Object(f) : f \in UNION {[d -> JSONValues] : d \in SUBSET Props}}

ContractNext ==
  \/ stage = "arrive" /\ \E kind \in {"telemetry", "schema"}, contract \in Schemas \cup {NoContract},
         body \in Bodies, fails \in BOOLEAN : Arrive(kind, contract, body, fails)
  \/ Validate
  \/ \E hash \in ContractHashes \cup {NoHash}, decodes \in BOOLEAN :
       CheckSchemaAnnouncement(hash, decodes)
  \/ \E enabled \in BOOLEAN, agent \in {"none", "other"}, time \in Found :
       EnqueueTelemetryRow(enabled, agent, time)
  \/ PublishLiveEnvelope \/ \E long \in BOOLEAN : Record(long)

ContractSpec == ContractInit /\ [][ContractNext]_contractVars
-----------------------------------------------------------------------------
(* Properties *)

Judged == stage \in {"persist", "live"} \/ (stage \in {"record", "over"} /\ envelope # "none")

\* The verdict names the highest fault of the payload and exactly the properties that have
\* it: those required and missing or, when none is, those present with a wrong type.
VerdictNamesFault ==
  (Judged /\ entry # NoContract /\ payload.body.form = "object") =>
    LET missing == {p \in entry.required : p \notin DOMAIN payload.body.fields}
        wrong   == {p \in DOMAIN payload.body.fields : ~TypeMatches(payload.body.fields[p], entry.types[p])}
    IN  /\ violation.paths = IF missing # {} THEN missing ELSE wrong
        /\ violation.kind \in (IF missing # {} THEN {"missing_required"}
                               ELSE IF wrong # {} THEN {"type_mismatch"} ELSE {"constraint", "none"})

\* The row and the live view never disagree on a message's validity, a message is null in
\* both if and only if there was no contract (and then the row names none), and false if and
\* only if its violation is recorded.
RowAndViewAgree ==
  /\ (row # NoRow /\ envelope # "none") => row.valid = envelope
  /\ (row # NoRow) => (row.valid = "null") = (entry = NoContract) /\ (row.hash = NoHash) = (entry = NoContract)
  /\ (stage = "over" /\ row # NoRow) =>
       (row.valid = "false") = (\E i \in DOMAIN events : events[i].kind \in Bad)

\* A stored time is the time of receipt, or one the agent gave that a Duration can tell to
\* be within the window of it; where the agent's time was refused, a violation says so.
TimeIsBelieved ==
  row # NoRow =>
    \/ row.time = ReceivedAt
    \/ row.time - ReceivedAt \in (-SaneWindow)..SaneWindow
    \/ row.time - ReceivedAt <= -(MaxDuration + 1)   \* see MappedTimeIsSane

ContractSound == ContractTypeOK /\ VerdictNamesFault /\ RowAndViewAgree /\ TimeIsBelieved

\* mapping.go: a time "outside saneWindow of receivedAt, also falls back to receivedAt
\* (never written as-is ...)".  Sub saturates at the smallest Duration for a time far enough
\* back, which negated is itself: withinSaneWindow takes it.
MappedTimeIsSane == row # NoRow => row.time - ReceivedAt \in (-SaneWindow)..SaneWindow
=============================================================================
