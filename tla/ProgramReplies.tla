--------------------------- MODULE ProgramReplies ---------------------------
(***************************************************************************)
(* What a contained program is asked for and what becomes of what it       *)
(* answers.  The authority, a closed schema with rules that tie a status   *)
(* to the rest, stays with the loop; a weaker transport copy is derived    *)
(* from it and sent.  What comes back is completed, cleared of the nulls   *)
(* the copy asked for, and judged by the authority alone.                  *)
(*                                                                         *)
(* A schema is a record of keywords, a value is tagged with its JSON type, *)
(* and a text stands for a class of texts.                                 *)
(***************************************************************************)
EXTENDS Naturals, Sequences, FiniteSets, TLC

CONSTANTS Road,     \* "implementer", "code_audit", "locked_audit"
          Changes   \* fields in which a reply differs from the expected one

ASSUME ReplyAssumption ==
    Road \subseteq {"implementer", "code_audit", "locked_audit"} /\ Changes \in Nat

VARIABLES asked,    \* the call: its road and the arguments that are wrong
          said,     \* how the program ended and what it wrote
          reply     \* what the loop has made of it

replyVars == <<asked, said, reply>>

-----------------------------------------------------------------------------
(* Values carry their JSON type first.  A schema is a record of keywords.    *)

TypeOf(value) == value[1]
Of(value) == value[2]
Text(x) == <<"string", x>>
Null == <<"null", "null">>
List(items) == <<"array", items>>
Object(fields) == <<"object", fields>>

Const(x) == [const |-> x]
Enum(xs) == [enum |-> xs]
Pattern(xs) == [type |-> "string", pattern |-> xs]
ListOf(node) == [type |-> "array", maxItems |-> 1, items |-> node]
Closed(properties, required) ==
    [type |-> "object", properties |-> properties, required |-> required,
     additionalProperties |-> FALSE]

Statuses(road) ==
    IF road = "implementer" THEN {"implemented", "blocked", "failed"}
    ELSE {"approved", "changes_requested", "blocked", "failed"}

\* _conditional_rules, as one row for each status.
Rule(status) ==
    CASE status = "changes_requested" ->
           [demands |-> {"findings", "next_action"}, least |-> 1, most |-> 1,
            action |-> "await_repair"]
      [] status = "approved" ->
           [demands |-> {}, least |-> 0, most |-> 0, action |-> "stop"]
      [] status = "implemented" ->
           [demands |-> {}, least |-> 0, most |-> 1, action |-> "await_acceptance"]
      [] OTHER ->
           [demands |-> {"stop_reason"}, least |-> 0, most |-> 1, action |-> "stop"]

\* A finding about source may name a file; one about the locked set is a class
\* and an identifier that was issued for this call.
Finding(road) ==
    IF road = "locked_audit"
    THEN Closed([finding_id |-> Enum({"issued"}), error_class |-> Enum({"wrong_row"})],
                {"finding_id", "error_class"})
    ELSE Closed([finding_id |-> Pattern({"issued", "minted"}),
                 claim |-> Pattern({"short"}), file |-> Pattern({"inside"})],
                {"finding_id", "claim"})

Root(road) ==
    LET locked == road = "locked_audit"
        common == [run_id |-> IF locked THEN Const("issued")
                              ELSE Pattern({"issued", "minted"}),
                   status |-> Enum(Statuses(road)),
                   summary |-> IF locked THEN Enum({"short"}) ELSE Pattern({"short"}),
                   findings |-> ListOf(Finding(road)),
                   next_action |-> Enum({"await_acceptance", "await_audit",
                                         "await_repair", "stop"}),
                   stop_reason |-> Enum({"completed", "timeout"})]
    IN IF road = "implementer" THEN common ELSE common @@ [audit_kind |-> Const(road)]

Authority(road) ==
    LET required == {"run_id", "status", "summary", "next_action"}
                        \cup (IF road = "implementer" THEN {} ELSE {"audit_kind"})
    IN Closed(Root(road), required) @@ [allOf |-> {<<s, Rule(s)>> : s \in Statuses(road)}]

-----------------------------------------------------------------------------
(* Judging a value: the faults jsonschema would find, each with the keyword   *)
(* that refused, the path to the value and, for `required`, what is missing. *)

Fault(keyword, path, missing) == [keyword |-> keyword, path |-> path, missing |-> missing]
If(condition, fault) == IF condition THEN {fault} ELSE {}

\* What the row of a status refuses in a document that has it.
RuleFaults(rule, doc) ==
    LET absent == rule.demands \ DOMAIN doc
        count == IF "findings" \in DOMAIN doc /\ TypeOf(doc["findings"]) = "array"
                 THEN {Len(Of(doc["findings"]))} ELSE {}
    IN If(absent # {}, Fault("required", <<>>, absent))
       \cup If(\E n \in count : n < rule.least, Fault("minItems", <<"findings">>, {}))
       \cup If(\E n \in count : n > rule.most, Fault("maxItems", <<"findings">>, {}))
       \cup If(/\ "next_action" \in DOMAIN doc
               /\ doc["next_action"] # Text(rule.action),
               Fault("const", <<"next_action">>, {}))

TextFaults(node, value, path) ==
    LET text == TypeOf(value) = "string"
        says(k) == k \in DOMAIN node
    IN If(says("const") /\ ~(text /\ Of(value) = node.const), Fault("const", path, {}))
       \cup If(says("enum") /\ ~(text /\ Of(value) \in node.enum), Fault("enum", path, {}))
       \cup If(says("pattern") /\ text /\ Of(value) \notin node.pattern,
               Fault("pattern", path, {}))

RECURSIVE Faults(_, _, _)

ListFaults(node, items, path) ==
    (IF "items" \in DOMAIN node
     THEN UNION {Faults(node.items, items[i], Append(path, "item")) : i \in DOMAIN items}
     ELSE {})
    \cup If("maxItems" \in DOMAIN node /\ Len(items) > node.maxItems,
            Fault("maxItems", path, {}))

ObjectFaults(node, doc, path) ==
    LET absent == node.required \ DOMAIN doc
        declared == DOMAIN node.properties
    IN If(absent # {}, Fault("required", path, absent))
       \cup If(~(DOMAIN doc \subseteq declared), Fault("additionalProperties", path, {}))
       \cup UNION {Faults(node.properties[n], doc[n], Append(path, n)) :
                       n \in DOMAIN doc \cap declared}
       \cup (IF "allOf" \in DOMAIN node /\ "status" \in DOMAIN doc
             THEN UNION {RuleFaults(r[2], doc) :
                             r \in {r \in node.allOf : doc["status"] = Text(r[1])}}
             ELSE {})

Faults(node, value, path) ==
    IF "null" \in DOMAIN node /\ value = Null THEN {}
    ELSE If("type" \in DOMAIN node /\ node.type # TypeOf(value), Fault("type", path, {}))
         \cup TextFaults(node, value, path)
         \cup (CASE TypeOf(value) = "array" -> ListFaults(node, Of(value), path)
                 [] TypeOf(value) = "object" /\ "properties" \in DOMAIN node ->
                      ObjectFaults(node, Of(value), path)
                 [] OTHER -> {})

-----------------------------------------------------------------------------
(* The transport copy.                                                       *)

\* The keywords a provider takes.  A rule is all `if' and `then', which none
\* takes: its branch comes out empty and goes.
Supported == {"type", "properties", "items", "required", "additionalProperties",
              "enum", "const"}

RECURSIVE Reduced(_)
Reduced(node) ==
    [k \in DOMAIN node \cap Supported |->
        CASE k = "properties" ->
               [n \in DOMAIN node.properties |-> Reduced(node.properties[n])]
          [] k = "items" -> Reduced(node.items)
          [] OTHER -> node[k]]

Without(schema, field) ==
    [schema EXCEPT
        !.properties = [n \in DOMAIN schema.properties \ {field} |-> schema.properties[n]],
        !.required = @ \ {field}]

\* Everything is asked for, and what the authority leaves open may be null.
RECURSIVE Strict(_, _)
Strict(node, optional) ==
    LET shaped ==
          CASE "properties" \in DOMAIN node ->
                 [node EXCEPT
                    !.properties = [n \in DOMAIN node.properties |->
                        Strict(node.properties[n], n \notin node.required)],
                    !.required = DOMAIN node.properties]
            [] "items" \in DOMAIN node ->
                 [node EXCEPT !.items = Strict(node.items, FALSE)]
            [] OTHER -> node
        typed == shaped @@ [type |-> "string"]
    IN IF optional THEN [null |-> TRUE] @@ typed ELSE typed

Transport(road) ==
    LET taken == Reduced(Without(Authority(road), "next_action"))
    IN IF road = "implementer" THEN taken ELSE Strict(taken, FALSE)

-----------------------------------------------------------------------------
(* What is done to a reply.                                                  *)

\* derive_next_action_table, and EVALUATOR_NEXT_ACTION.
ActionTable(road) ==
    [s \in Statuses(road) |-> (CHOOSE r \in Authority(road).allOf : r[1] = s)[2].action]

\* _project_action: the words of its refusal, or none.
ProjectionFault(road, value) ==
    LET doc == Of(value) IN
    CASE "next_action" \in DOMAIN doc -> <<"additional_properties", "next_action">>
      [] "next_action" \notin DOMAIN doc /\ "status" \notin DOMAIN doc ->
           <<"required", "status">>
      [] OTHER -> CASE TypeOf(doc["status"]) # "string" -> <<"type", "status">>
                    [] doc["status"] \notin {Text(s) : s \in DOMAIN ActionTable(road)} ->
                         <<"enum", "status">>
                    [] OTHER -> <<>>

Projected(road, value) ==
    Object(Of(value) @@ [next_action |-> Text(ActionTable(road)[Of(Of(value)["status"])])])

\* elide_optional_nulls: only a null, and only of a declared optional field.
RECURSIVE Elided(_, _)
Elided(node, value) ==
    CASE TypeOf(value) = "object" /\ "properties" \in DOMAIN node ->
           LET doc == Of(value)
               declared == DOMAIN node.properties
               elided == {n \in DOMAIN doc \cap declared :
                             n \notin node.required /\ doc[n] = Null}
           IN Object([n \in DOMAIN doc \ elided |->
                  IF n \in declared THEN Elided(node.properties[n], doc[n]) ELSE doc[n]])
      [] TypeOf(value) = "array" /\ "items" \in DOMAIN node ->
           List([i \in DOMAIN Of(value) |-> Elided(node.items, Of(value)[i])])
      [] OTHER -> value

\* Mutant: the judge reads the copy that was sent.
FaultsByTransport(road, value) == Faults(Transport(road), value, <<>>)

\* The authority alone decides.
FaultsOf(road, value) == Faults(Authority(road), value, <<>>)

\* _declared_field and _missing_required_field: words of the contract.
SchemaField == {"run_id", "status", "summary", "next_action", "findings", "stop_reason"}

FieldOf(fault) ==
    CASE fault.path = <<>> /\ fault.keyword # "required" -> "root"
      [] fault.path = <<>> /\ fault.keyword = "required" ->
           IF Cardinality(fault.missing) > 1 THEN "multiple"
           ELSE IF fault.missing \subseteq SchemaField
                THEN CHOOSE f \in fault.missing : TRUE ELSE "unknown"
      [] OTHER -> IF Head(fault.path) \in SchemaField THEN Head(fault.path) ELSE "unknown"

IssueOf(fault) ==
    CASE fault.keyword = "additionalProperties" -> "additional_properties"
      [] fault.keyword = "minItems" -> "min_items"
      [] fault.keyword = "maxItems" -> "max_items"
      [] OTHER -> fault.keyword

-----------------------------------------------------------------------------
(* What a program may write: the reply expected of each status, and those     *)
(* that differ from it in a few fields.  A field is a word for its value.     *)

Optional == {"findings", "stop_reason"}

Expected(road, status) ==
    [run_id |-> "issued", status |-> status, summary |-> "short",
     findings |-> IF status = "changes_requested" THEN "plain" ELSE "none",
     next_action |-> "absent",
     stop_reason |-> IF status \in {"blocked", "failed"} THEN "timeout" ELSE "absent",
     audit_kind |-> IF road = "implementer" THEN "absent" ELSE road,
     extra |-> "absent"]

Word == [run_id |-> {"minted", "bad", "absent", "null"},
         status |-> {"bogus", "absent", "null"},
         summary |-> {"long", "absent", "list"},
         findings |-> {"absent", "null", "none", "text", "plain", "two", "placed",
                       "nullfile", "outside", "minted", "bare"},
         next_action |-> {"stop", "await_repair", "null"},
         stop_reason |-> {"absent", "null", "timeout", "bogus"},
         audit_kind |-> {"absent", "code_audit", "locked_audit"},
         extra |-> {"short"}]

RECURSIVE Varied(_, _)
Varied(docs, n) ==
    IF n = 0 THEN docs
    ELSE Varied(UNION {{[d EXCEPT ![f] = w] : w \in {d[f]} \cup Word[f]} :
                           d \in docs, f \in DOMAIN Word}, n - 1)

FindingValue(road, word) ==
    LET id == [finding_id |-> Text(IF word = "minted" THEN "minted" ELSE "issued")]
        detail == IF road = "locked_audit" THEN [error_class |-> Text("wrong_row")]
                  ELSE [claim |-> Text("short")]
        file == [file |-> CASE word = "placed" -> Text("inside")
                            [] word = "outside" -> Text("outside")
                            [] OTHER -> Null]
    IN Object(CASE word = "bare" -> id
                [] word \in {"placed", "outside", "nullfile"} -> id @@ detail @@ file
                [] OTHER -> id @@ detail)

ValueOf(road, field, word) ==
    CASE word = "null" -> Null
      [] word \in {"list", "none"} -> List(<<>>)
      [] field = "findings" /\ word = "two" ->
           List(<<FindingValue(road, "plain"), FindingValue(road, "plain")>>)
      [] field = "findings" /\ word \notin {"null", "none", "text", "two"} ->
           List(<<FindingValue(road, word)>>)
      [] OTHER -> Text(word)

Document(road, words) ==
    Object([f \in {f \in DOMAIN words : words[f] # "absent"} |-> ValueOf(road, f, words[f])])

-----------------------------------------------------------------------------
(* The call.                                                                  *)

\* The checks of _canonical_call and of what follows it, in their order.
Checks(road) ==
    IF road = "implementer"
    THEN <<<<"budget", "BudgetRefused">>, <<"limits", "LimitRefused">>,
           <<"binary", "BinaryNotUsable">>, <<"prompt", "LimitRefused">>,
           <<"model", "CallInputRefused">>, <<"identity", "IdentityRefused">>,
           <<"schema", "SchemaNotBound">>, <<"workspace", "WorkspaceNotBound">>>>
    ELSE <<<<"limits", "AuditInputRefused">>, <<"identity", "AuditInputRefused">>,
           <<"issued", "AuditInputRefused">>, <<"binary", "AuditInputRefused">>,
           <<"prompt", "AuditInputRefused">>, <<"model", "AuditInputRefused">>,
           <<"workspace", "WorkspaceNotBound">>>>

Arguments(road) == {Checks(road)[i][1] : i \in DOMAIN Checks(road)}

\* FAILURE_CODES: the classes of each module that have a code.
Coded(road) ==
    {"ProcessFailed", "SchemaViolation"} \cup
    IF road = "implementer" THEN {"MaxTurnsReached"}
    ELSE {"RepositoryRefused", "WorkspaceNotBound"}

ModuleOf(road) == IF road = "implementer" THEN "execution" ELSE "audit"

NoWord == "none"

\* _diagnostics: what the journal is told.
Told(class, issue, field) ==
    [code |-> IF class \in Coded(asked.road) THEN <<ModuleOf(asked.road), class>> ELSE NoWord,
     issue |-> IF asked.road = "implementer" THEN issue ELSE NoWord,
     field |-> IF asked.road = "implementer" THEN field ELSE NoWord]

Nothing == [code |-> NoWord, issue |-> NoWord, field |-> NoWord]

At(pc) == reply.pc = pc

To(pc, doc) ==
    /\ reply' = [reply EXCEPT !.pc = pc, !.doc = doc]
    /\ UNCHANGED <<asked, said>>

Refused(class, issue, field) ==
    /\ reply' = [reply EXCEPT !.pc = "refused", !.told = Told(class, issue, field)]
    /\ UNCHANGED <<asked, said>>

Violates(issue, field) == Refused("SchemaViolation", issue, field)

GoodEnvelope == [type |-> "result", subtype |-> "success", is_error |-> "false",
                 inner |-> "object", text |-> "same"]

OddEnvelope ==
    [type : {"result", "other"}, subtype : {"success", "error_max_turns", "unknown"},
     is_error : {"true", "false", "absent"}, inner : {"object", "text"},
     text : {"same", "prose", "other"}]

\* A call with wrong arguments, a program that ends or answers in an odd form,
\* or one that answers as asked with an odd document.
ReplyInit ==
    \E road \in Road, status \in UNION {Statuses(r) : r \in Road} :
        LET usual == Expected(road, status)
            Says(wrong, code, form, envelope, words, line) ==
                /\ asked = [road |-> road, wrong |-> wrong]
                /\ said = [code |-> code, form |-> form, envelope |-> envelope,
                           words |-> words, stderr |-> line]
        IN /\ status \in Statuses(road)
           /\ reply = [pc |-> "called", doc |-> Null, told |-> Nothing]
           /\ \/ \E wrong \in SUBSET Arguments(road) :
                     /\ Cardinality(wrong) \in {1, 2}
                     /\ Says(wrong, 0, "document", GoodEnvelope, usual, "other")
              \/ \E code \in {0, 1}, form \in {"undecodable", "nonjson", "list", "document"},
                    envelope \in OddEnvelope, line \in {"marker", "other"} :
                     Says({}, code, form, envelope, usual, line)
              \/ \E words \in Varied({usual}, Changes) :
                     Says({}, 0, "document", GoodEnvelope, words, "other")

\* The first check that refuses decides; only then is the program started.
RefuseCall ==
    /\ At("called") /\ asked.wrong # {}
    /\ LET checks == Checks(asked.road)
           first == CHOOSE i \in DOMAIN checks :
                        /\ checks[i][1] \in asked.wrong
                        /\ \A j \in 1..(i - 1) : checks[j][1] \notin asked.wrong
       IN Refused(checks[first][2], NoWord, NoWord)

ProgramEnds ==
    /\ At("called") /\ asked.wrong = {}
    /\ To("ended", Null)

\* _envelope_failure and _stderr_failure: more precise, or generic.
FailureClass ==
    LET envelope == said.envelope IN
    CASE asked.road = "implementer" ->
           IF /\ said.form = "document" /\ envelope.type = "result"
              /\ envelope.is_error = "true" /\ envelope.subtype = "error_max_turns"
           THEN "MaxTurnsReached" ELSE "ProcessFailed"
      [] OTHER -> IF said.stderr = "marker" THEN "RepositoryRefused" ELSE "ProcessFailed"

ExitRefused ==
    /\ At("ended") /\ said.code # 0
    /\ Refused(FailureClass, NoWord, NoWord)

\* Strict UTF-8, one JSON value, and that an object.
Decode ==
    /\ At("ended") /\ said.code = 0
    /\ CASE said.form = "undecodable" -> Violates("invalid_utf8", "root")
         [] said.form = "nonjson" -> Violates("invalid_json", "root")
         [] said.form = "list" -> Violates("wrong_root_type", "root")
         [] OTHER -> To("decoded", Document(asked.road, said.words))

\* _envelope_payload: an exact success, and no second payload that disagrees.
Unwrap ==
    /\ At("decoded") /\ asked.road = "implementer"
    /\ LET envelope == said.envelope IN
       IF /\ envelope.type = "result" /\ envelope.subtype = "success"
          /\ envelope.is_error = "false" /\ envelope.inner = "object"
          /\ envelope.text # "other"
       THEN To("taken", reply.doc)
       ELSE Violates("invalid_envelope", "envelope")

\* The audit kind is read before anything is derived.
Discriminate ==
    /\ At("decoded") /\ asked.road # "implementer"
    /\ IF said.words.audit_kind = asked.road THEN To("taken", reply.doc)
       ELSE Violates(NoWord, NoWord)

Project ==
    /\ At("taken")
    /\ LET refusal == ProjectionFault(asked.road, reply.doc) IN
       IF refusal # <<>> THEN Violates(refusal[1], refusal[2])
       ELSE To("projected", Projected(asked.road, reply.doc))

Elide ==
    /\ At("projected")
    /\ To("normal", IF asked.road = "implementer" THEN reply.doc
                    ELSE Elided(Authority(asked.road), reply.doc))

\* validate raises the first fault it meets; which one is not modelled.
Accept ==
    /\ At("normal") /\ FaultsOf(asked.road, reply.doc) = {}
    /\ To("accepted", reply.doc)

Reject ==
    /\ At("normal")
    /\ \E fault \in FaultsOf(asked.road, reply.doc) :
           Violates(IssueOf(fault), FieldOf(fault))

ReplyNext ==
    \/ RefuseCall \/ ProgramEnds \/ ExitRefused \/ Decode \/ Unwrap \/ Discriminate
    \/ Project \/ Elide \/ Accept \/ Reject

-----------------------------------------------------------------------------
(* What holds.                                                                *)

\* What the words mean, said without the normaliser: the action follows from
\* the status, and on the audit roads an optional null is an absence.
Meant ==
    LET words == said.words
        spoken(f) ==
            CASE f = "next_action" ->
                   (CHOOSE r \in {Rule(s) : s \in Statuses(asked.road) \cap {words.status}} :
                        TRUE).action
              [] asked.road # "implementer" /\ f \in Optional /\ words[f] = "null" -> "absent"
              [] asked.road = "code_audit" /\ f = "findings" /\ words[f] = "nullfile" ->
                   "plain"
              [] OTHER -> words[f]
    IN [f \in DOMAIN words |-> spoken(f)]

AnsweredAsAsked ==
    /\ asked.wrong = {} /\ said.code = 0 /\ said.form = "document"
    /\ asked.road = "implementer" =>
           said.envelope \in {GoodEnvelope, [GoodEnvelope EXCEPT !.text = "prose"]}
    /\ said.words.next_action = "absent"
    /\ said.words.status \in Statuses(asked.road)

\* A reply is accepted exactly when the document it means satisfies the rich
\* schema, and then it is that document that is handed on: neither the weaker
\* copy nor the completion lets one through, and neither loses one.
AcceptedIsMeant ==
    LET meant == Document(asked.road, Meant) IN
    /\ At("accepted") => /\ AnsweredAsAsked
                         /\ Faults(Authority(asked.road), meant, <<>>) = {}
                         /\ reply.doc = meant
    /\ At("refused") /\ AnsweredAsAsked =>
           Faults(Authority(asked.road), meant, <<>>) # {}

\* Every document the authority accepts can be written under the copy: without
\* the derived field and, for an audit, with a null for what is absent.
Spelled(road, doc) ==
    LET node == Root(road)
        written == [f \in DOMAIN doc \ {"next_action"} |-> doc[f]]
        full(items) == [i \in DOMAIN items |->
            Object(Of(items[i])
                     @@ [f \in DOMAIN Finding(road).properties |-> Null])]
    IN IF road = "implementer" THEN Object(written)
       ELSE Object([f \in DOMAIN node \ {"next_action"} |->
                CASE f \notin DOMAIN doc -> Null
                  [] f = "findings" /\ f \in DOMAIN doc -> List(full(Of(doc[f])))
                  [] OTHER -> doc[f]])

AcceptedCanBeAsked ==
    At("accepted") =>
        Faults(Transport(asked.road), Spelled(asked.road, Of(reply.doc)), <<>>) = {}

\* What one deviation of a document is blamed on: its field, or the whole.
RefusalsAreNamed ==
    At("refused") =>
        LET usual == {Expected(asked.road, s) : s \in Statuses(asked.road)}
            odd(u) == {f \in DOMAIN u : u[f] # said.words[f]}
            told == reply.told
        IN /\ asked.wrong = {} => told.code \in {<<ModuleOf(asked.road), c>> : c \in Coded(asked.road)}
           /\ told.field \in SchemaField \cup {"root", "envelope", "multiple", "unknown", NoWord}
           /\ (/\ asked.road = "implementer" /\ asked.wrong = {} /\ said.code = 0
               /\ said.form = "document" /\ told.issue # "invalid_envelope"
               /\ Cardinality({u \in usual : Cardinality(odd(u)) = 1}) = 1) =>
                  \A u \in usual : Cardinality(odd(u)) = 1 =>
                      told.field \in odd(u) \cup {"root"}

\* What the evaluator or the implementer said is believed only when the rich
\* schema accepts it, nothing it accepts is lost on the way to and from the
\* weaker copy, and a refusal is named in the contract's own words.
RepliesAreJudged == AcceptedIsMeant /\ AcceptedCanBeAsked /\ RefusalsAreNamed

=============================================================================
