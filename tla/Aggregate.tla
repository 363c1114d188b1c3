------------------------------- MODULE Aggregate -------------------------------
(***************************************************************************)
(* src/model: an aggregate made by the entity factory of a form, changed   *)
(* by commands that are chained in a behaviour, run against a dispatcher,  *)
(* saved as a snapshot and made again of it.  The aggregate is one as an   *)
(* application declares it with getBaseAGTrait: a name with a setter, a    *)
(* balance (Money), a verified phone number (WithKycPrim), a photo (File), *)
(* and tags with an adder, a remover and a reducer that replaces them all. *)
(*                                                                         *)
(* Every command is configured with one event, which names the command; an *)
(* application runs a behaviour with the event that opened it as initial   *)
(* event.  The store keeps a snapshot, with the value objects unpacked.    *)
(*                                                                         *)
(* The definitions called Bug... are not part of the model.                *)
(***************************************************************************)
EXTENDS Parsing

CONSTANTS
  Forms,     \* what an aggregate is made of
  Names,     \* what the setter is given
  Tags,      \* the tags there are
  Class,     \* the equality E of tags: two are equal that have the same class
  Refused,   \* the tags no validator takes
  Retags,    \* what the reducer may make of the tags
  Uuids,     \* bound: the ids uuidv4 gives, in this order
  MaxTags,   \* how many tags the validator of the adder allows
  MaxCommands \* bound: how many commands are performed

\* The property of the tags is an array or, after a removal, an option of one.
Array(items) == [is |-> "array", items |-> items]
Option(items) == [is |-> "option", items |-> items]
IsArray(prop) == prop.is = "array"

\* Lists of tags that have an index for each.
TagLists == {items \in Seq(Tags) : Len(items) <= MaxIndex + 1}

\* The tags of a form are an array; no list of tags is longer than the bound; uuidv4
\* gives no empty id.
ASSUME AggregateAssumption ==
  /\ DOMAIN Class = Tags /\ Refused \subseteq Tags
  /\ \A f \in Forms : f.tags = Array(f.tags.items) /\ f.tags.items \in TagLists
  /\ Retags \subseteq TagLists
  /\ Uuids \in Seq(STRING \ {""})
  /\ MaxTags \in 0 .. MaxIndex + 1 /\ MaxCommands \in Nat

VARIABLES
  form,      \* what the aggregate was first made of
  autoGenId, \* the option of its factory
  place,     \* form, refused, live, reloaded or lost
  report,    \* the last error
  entity,    \* the aggregate as the application has it
  behaviour, \* the behaviour under construction: a state and its events
  sent,      \* what the last run dispatched
  stored,    \* the snapshot in the store
  uuids,     \* how many ids were generated
  commands,  \* how many commands were performed
  saved,     \* history: the aggregate the snapshot was made of
  tainted    \* history: a parser or the reducer brought equal tags

vars == <<form, autoGenId, place, report, entity, behaviour, sent, stored, uuids, commands,
          saved, tainted>>

Absent == [absent |-> TRUE]
NoError == Exception("none")
Times == {"none", "created", "updated"}

HasEqualTags(prop) ==
  \E i, j \in DOMAIN prop.items : i # j /\ Class[prop.items[i]] = Class[prop.items[j]]

Of(state, events) == [state |-> state, events |-> events]

Init ==
  /\ form \in Forms /\ autoGenId \in BOOLEAN
  /\ place = "form" /\ report = NoError
  /\ entity = Absent /\ behaviour = Absent /\ stored = Absent /\ saved = Absent
  /\ sent = <<>> /\ uuids = 0 /\ commands = 0 /\ tainted = FALSE

-----------------------------------------------------------------------------
(* The factory.                                                            *)

ParseTag(t) == FromPredicate(t \notin Refused, t, "INVALID_TAG")

\* An option has no length, so that it is parsed to no tags.
ParseTags(prop) ==
  LET items == IF IsArray(prop) THEN prop.items ELSE <<>>
      parsed == ArrayParser([i \in DOMAIN items |-> ParseTag(items[i])])
  IN  IF parsed.ok THEN Right(Array(parsed.value)) ELSE parsed

Fields(f) ==
  [name |-> ParseNonEmptyString(f.name), balance |-> ParseMoney(f.balance),
   phone |-> ParseWithKycPrim(ParsePhoneNumber(f.phone.number), "phone", f.phone),
   photo |-> ParseFile(f.photo), tags |-> ParseTags(f.tags)]

IsMetaLike(f) ==
  /\ IsString(f.id) \/ (autoGenId /\ f.id.type = "undefined")
  /\ f.createdAt \in Times /\ f.updatedAt \in Times

\* A generated id replaces the one that is given.
IdOf(f, uuid) == IF autoGenId THEN uuid ELSE f.id

ParserMetaLike(f, uuid) ==
  IF ~ IsMetaLike(f) THEN Left(Exceptions("FAIL_STRUCTURE"))
  ELSE StructSummarizerParsing([id |-> ParseId(IdOf(f, uuid)),
                                createdAt |-> Right(f.createdAt),
                                updatedAt |-> Right(f.updatedAt)])

\* The props are looked at when the rest was all right.
Construct(f, uuid) ==
  LET meta == ParserMetaLike(f, uuid)
      props == StructSummarizerParsing(Fields(f))
  IN  IF ~ meta.ok THEN meta
      ELSE IF ~ props.ok THEN props
      ELSE Right([_tag |-> "account", id |-> meta.value.id, createdAt |-> meta.value.createdAt,
                  updatedAt |-> meta.value.updatedAt, props |-> props.value])

NextUuid == Raw("string", Uuids[uuids + 1])

Made(r, whenRefused, whenMade) ==
  /\ uuids < Len(Uuids) /\ uuids' = uuids + 1
  /\ IF r.ok
       THEN /\ place' = whenMade /\ report' = NoError
            /\ entity' = r.value /\ behaviour' = Of(r.value, <<>>)
            /\ tainted' = (tainted \/ HasEqualTags(r.value.props.tags))
       ELSE /\ place' = whenRefused /\ report' = r.error
            /\ UNCHANGED <<entity, behaviour, tainted>>

New ==
  /\ place = "form"
  /\ Made(Construct(form, NextUuid), "refused", "live")
  /\ UNCHANGED <<form, autoGenId, sent, stored, commands, saved>>

-----------------------------------------------------------------------------
(* Commands: a Left, or the changed aggregate with its events.             *)

Event(op, to) == <<[op |-> op, to |-> to]>>

Setter(e, v) ==
  LET new == SumUp(ParseNonEmptyString(v), "AGG_SETTER_EXCEPTION")
  IN  IF ~ new.ok THEN new
      ELSE Right(Of([e EXCEPT !.props.name = new.value], Event("set", new.value)))

\* The tags that were removed from are no array any more.
ShouldBeArray(e, attribute) ==
  FromPredicate(attribute = "tags" /\ IsArray(e.props.tags), e.props.tags, "PROP_NOT_ARRAY")

\* The validator of the adder sees the aggregate.
ValidateTag(e, t) ==
  IF Len(e.props.tags.items) < MaxTags THEN ParseTag(t) ELSE Left(Exception("TOO_MANY_TAGS"))

EqualTags(s, t) == Class[s] = Class[t]

\* Bug: the adder asks for the very same tag.
BugExists(tags, t) == \E i \in DOMAIN tags : tags[i] = t

Exists(tags, t) == \E i \in DOMAIN tags : EqualTags(tags[i], t)

Adder(e, attribute, t) ==
  LET array == ShouldBeArray(e, attribute)
      item == SumUp(ValidateTag(e, t), "REDUCER_ERROR")
  IN  IF ~ array.ok THEN array
      ELSE IF ~ item.ok THEN item
      ELSE IF Exists(array.value.items, item.value) THEN Left(Exception("ITEM_EXISTED"))
      ELSE Right(Of([e EXCEPT !.props.tags.items = Append(@, item.value)], Event("add", item.value)))

\* The first tag that is equal is removed, and what deleteAt answers, which is an
\* option, becomes the property.
Remover(e, attribute, t) ==
  LET array == ShouldBeArray(e, attribute)
      item == SumUp(ParseTag(t), "REMOVER_VALIDATING_FAIL")
      equal == {i \in DOMAIN array.value.items : EqualTags(array.value.items[i], item.value)}
  IN  IF ~ array.ok THEN array
      ELSE IF ~ item.ok THEN item
      ELSE IF equal = {} THEN Left(Exception("ITEM_NOT_EXISTED"))
      ELSE Right(Of([e EXCEPT !.props.tags = Option(RemoveAt(@.items, Min(equal)))],
                    Event("remove", item.value)))

\* asReducer: the props are what the logic of the application makes of them.
AsReducer(e, to) ==
  IF to = <<>> THEN Left(Exception("NO_TAGS"))
  ELSE Right(Of([e EXCEPT !.props.tags = Array(to)], Event("retag", to)))

\* Bug: the events of the later step come last.
BugChain(result, ma) == Of(result.state, ma.events \o result.events)

\* The events of the later step come first.
Chain(result, ma) == Of(result.state, result.events \o ma.events)

Live == place \in {"live", "reloaded"}

\* A Left leaves the behaviour as it was.
Perform(r) ==
  /\ Live /\ commands < MaxCommands /\ commands' = commands + 1
  /\ IF r.ok THEN behaviour' = Chain(r.value, behaviour) /\ report' = NoError
     ELSE report' = r.error /\ UNCHANGED behaviour
  /\ UNCHANGED <<form, autoGenId, place, entity, sent, stored, uuids, saved>>

SetName(v) == Live /\ Perform(Setter(behaviour.state, v)) /\ UNCHANGED tainted

AddTo(attribute, t) == Live /\ Perform(Adder(behaviour.state, attribute, t)) /\ UNCHANGED tainted

RemoveFrom(attribute, t) == Live /\ Perform(Remover(behaviour.state, attribute, t)) /\ UNCHANGED tainted

Retag(to) ==
  /\ Live /\ Perform(AsReducer(behaviour.state, to))
  /\ tainted' = (tainted \/ HasEqualTags(Array(to)))

\* No command marks the update itself: the application maps markUpdate over.
MarkUpdate ==
  /\ Live /\ behaviour.state.updatedAt # "updated"
  /\ behaviour' = Of([behaviour.state EXCEPT !.updatedAt = "updated"], behaviour.events)
  /\ UNCHANGED <<form, autoGenId, place, report, entity, sent, stored, uuids, commands, saved, tainted>>

-----------------------------------------------------------------------------
(* run, the snapshot and the way back.                                     *)

Dispatched(b, initEvents) == b.events \o initEvents

\* The dispatcher, which is external, takes the events, or answers a Left and
\* the state is not returned.
Run ==
  /\ Live /\ behaviour # Of(entity, <<>>)
  /\ \/ /\ sent' = Dispatched(behaviour, Event("opened", entity.props))
        /\ entity' = behaviour.state /\ report' = NoError /\ place' = "live"
     \/ /\ report' = Exception("DISPATCH_FAILED")
        /\ UNCHANGED <<sent, entity, place>>
  /\ behaviour' = Of(entity', <<>>)
  /\ UNCHANGED <<form, autoGenId, stored, uuids, commands, saved, tainted>>

\* Both times are the time of creation.
GetSnapshot(e) ==
  Spread([createdAt |-> e.createdAt, updatedAt |-> e.createdAt, id |-> e.id], e.props)

Save ==
  /\ Live /\ behaviour = Of(entity, <<>>) /\ saved # entity
  /\ stored' = GetSnapshot(entity) /\ saved' = entity /\ place' = "live"
  /\ UNCHANGED <<form, autoGenId, report, entity, behaviour, sent, uuids, commands, tainted>>

Unpacked(s) == [s EXCEPT !.balance = Unpack(@), !.phone = Unpack(@), !.photo = Unpack(@)]

Reload ==
  /\ Live /\ stored # Absent
  /\ Made(Construct(Unpacked(stored), NextUuid), "lost", "reloaded")
  /\ sent' = <<>>
  /\ UNCHANGED <<form, autoGenId, stored, commands, saved>>

Next ==
  \/ New
  \/ \E v \in Names : SetName(v)
  \/ \E attribute \in {"tags", "name"}, t \in Tags : AddTo(attribute, t) \/ RemoveFrom(attribute, t)
  \/ \E to \in Retags : Retag(to)
  \/ MarkUpdate \/ Run \/ Save \/ Reload

Spec == Init /\ [][Next]_vars

-----------------------------------------------------------------------------
(* Properties.                                                             *)

IsEqual(e, f) == e._tag = f._tag /\ e.id = f.id

\* What an application is told of a form: of two or more fields that fail every
\* one, under its name, however the semigroup put them together; of one its
\* error alone, without the field; and of none of them when the id or a time is
\* wrong.  A form that is taken keeps its tags in their order.
RefusalsNameTheFields ==
  /\ place = "refused" /\ IsMetaLike(form) /\ (autoGenId \/ form.id.is # "") =>
       report = Summary(Fields(form))
  /\ place = "live" /\ commands = 0 => entity.props.tags = form.tags

\* The props with the tags as an array.
Plain(props) == [props EXCEPT !.tags = Array(@.items)]

Effect(props, event) ==
  CASE event.op = "opened" -> Plain(event.to)
    [] event.op = "set"    -> [props EXCEPT !.name = event.to]
    [] event.op = "add"    -> [props EXCEPT !.tags.items = Append(@, event.to)]
    [] event.op = "remove" -> [props EXCEPT !.tags.items =
                                 RemoveFirstMatch(@, LAMBDA t : EqualTags(t, event.to))]
    [] event.op = "retag"  -> [props EXCEPT !.tags = Array(event.to)]

\* The props after these events, the oldest of which comes last.
Replay(events, props) == FoldRight(LAMBDA event, p : Effect(p, event), events, props)

\* The events of a behaviour are the history of its state, newest first, through
\* chained, failed and dispatched commands: a subscriber that applies what it is
\* sent in the order it is sent does not get the aggregate it was sent for; one
\* that starts at the end does.  The option a removal leaves counts for what is
\* in it.
EventsAreTheHistory ==
  /\ Live => Replay(behaviour.events, Plain(entity.props)) = Plain(behaviour.state.props)
  /\ sent # <<>> => Replay(sent, <<>>) = Plain(entity.props)

\* No two tags of an aggregate are equal, however its adder and remover are
\* chained, unless a form or the reducer, where nobody looks for them, brought
\* equal ones.
TagsStayDistinct ==
  Live /\ ~ tainted => ~ HasEqualTags(behaviour.state.props.tags) /\ ~ HasEqualTags(entity.props.tags)

\* What comes back from the store: the props as they were, parsed from the raw
\* values the value objects hold, but for the tags, which are gone, the ones that
\* were left too, when one was removed and the reducer did not replace them; not
\* the time of an update; and, if the factory was told not to generate ids, the
\* same aggregate.  It comes back unless the reducer brought a tag that no
\* validator takes.
ReloadKeeps ==
  /\ place = "lost" => \E i \in DOMAIN saved.props.tags.items : saved.props.tags.items[i] \in Refused
  /\ place = "reloaded" =>
       /\ entity.props = [saved.props EXCEPT !.tags = IF IsArray(@) THEN @ ELSE Array(<<>>)]
       /\ entity.createdAt = saved.createdAt /\ entity.updatedAt = saved.createdAt
       /\ ~ autoGenId => IsEqual(entity, saved)

\* What the test of the equality of entities expects (entity.test.ts:77-91): an
\* entity that is made with the id of another one is equal to it.  By default
\* the factory generates an id in place of the one it is given
\* (entity.base.ts:59, 81).
SameIdIsEqual == place = "reloaded" => IsEqual(entity, saved)
=============================================================================
