---------------------------- MODULE Aggregate_proof ----------------------------
(***************************************************************************)
(* The properties of Aggregate, for forms, tags, ids and lists of commands *)
(* of any size, from one inductive invariant.                              *)
(***************************************************************************)
EXTENDS Aggregate, Parsing_proof

-----------------------------------------------------------------------------
(* The invariant.                                                          *)

FieldNames == {"name", "balance", "phone", "photo", "tags"}

\* Props as the factory and the commands leave them: what a parser took it takes
\* again of the raw value, with the same answer.
IsProps(p) ==
  /\ p = [k \in FieldNames |-> p[k]]
  /\ ParseNonEmptyString(p.name) = Right(p.name)
  /\ ParseMoney(Unpack(p.balance)) = Right(p.balance)
  /\ ParseWithKycPrim(ParsePhoneNumber(Unpack(p.phone).number), "phone", Unpack(p.phone)) = Right(p.phone)
  /\ ParseFile(Unpack(p.photo)) = Right(p.photo)
  /\ p.tags \in [is : {"array", "option"}, items : TagLists]

IsEntity(e) ==
  /\ e = [_tag |-> "account", id |-> e.id, createdAt |-> e.createdAt, updatedAt |-> e.updatedAt,
          props |-> e.props]
  /\ ParseId(e.id) = Right(e.id)
  /\ e.createdAt \in Times /\ e.updatedAt \in Times
  /\ IsProps(e.props)

\* An id that was generated is one of the first, and before any command the tags
\* are those of the form.
IsKnown(e) == commands = 0 => e.props.tags = form.tags

\* The events of the commands.
Ops == [op : {"set"}, to : Names] \cup [op : {"add", "remove"}, to : Tags] \cup [op : {"retag"}, to : Retags]

TypeOK ==
  /\ form \in Forms /\ autoGenId \in BOOLEAN
  /\ place \in {"form", "refused", "live", "reloaded", "lost"}
  /\ uuids \in 0 .. Len(Uuids) /\ commands \in 0 .. MaxCommands /\ tainted \in BOOLEAN
  /\ place = "form" => sent = <<>>
  /\ Live => /\ behaviour = Of(behaviour.state, behaviour.events) /\ behaviour.events \in Seq(Ops)
             /\ IsEntity(entity) /\ IsEntity(behaviour.state)

Stays ==
  /\ Live => IsKnown(entity) /\ IsKnown(behaviour.state)
  /\ stored # Absent => stored = GetSnapshot(saved) /\ IsEntity(saved) /\ IsKnown(saved)
  /\ place = "form" => stored = Absent

Inv == TypeOK /\ Stays

-----------------------------------------------------------------------------
(* Replaying events, which is a fold over their sets: the props after the  *)
(* events from each on.                                                    *)

\* After each event and the older ones, and at first, n events ago.
Replayed(h, events, n, props) ==
  /\ n \in Nat /\ DOMAIN events = 1 .. n
  /\ h[n + 1] = props
  /\ \A i \in 1 .. n : h[i] = Effect(h[i + 1], events[i])

\* The equation of the fold.
IsReplay(f, events, n, props) ==
  f = [s \in SUBSET (1 .. n) |-> IF s = {} THEN props
         ELSE Effect(f[s \ {Min(s)}], events[Min(s)])]

LEMMA ReplayIs ==
  ASSUME NEW events, NEW n \in Nat, DOMAIN events = 1 .. n, NEW props, NEW solution,
         IsReplay(solution, events, n, props),
         \A other : IsReplay(other, events, n, props) => other = solution
  PROVE  Replay(events, props) = solution[1 .. n]
BY DEF Replay, FoldRight, MapThenFoldSet, IsReplay

\* The numbers of a set that are from i on are fewer without the first.
LEMMA MinOfNumbers ==
  ASSUME NEW n \in Nat, NEW s \in SUBSET (1 .. n), s # {}
  PROVE  Min(s) \in s /\ \A k \in s : Min(s) <= k
BY MinIs

\* The last k numbers have a solution, for every k.
LEMMA ReplayExists ==
  ASSUME NEW events, NEW n \in Nat, NEW props
  PROVE  \E f : IsReplay(f, events, n, props)
<1> DEFINE Solves(f, k) ==
             f = [s \in SUBSET (n - k + 1 .. n) |-> IF s = {} THEN props
                    ELSE Effect(f[s \ {Min(s)}], events[Min(s)])]
           Solvable(k) == k <= n => \E f : Solves(f, k)
           Solved == {k \in Nat : Solvable(k)}
<1>1. Solvable(0)
  <2> DEFINE f == [s \in SUBSET (n - 0 + 1 .. n) |-> props]
  <2>1. n - 0 + 1 .. n = {}
    OBVIOUS
  <2>2. \A s \in SUBSET (n - 0 + 1 .. n) : s = {}
    BY <2>1
  <2>3. f = [s \in SUBSET (n - 0 + 1 .. n) |-> IF s = {} THEN props
                    ELSE Effect(f[s \ {Min(s)}], events[Min(s)])]
    BY <2>2
  <2> HIDE DEF f
  <2>4. Solves(f, 0)
    BY <2>3
  <2> QED
    BY <2>4
<1>2. ASSUME NEW k \in Nat, Solvable(k) PROVE Solvable(k + 1)
  <2> SUFFICES ASSUME k + 1 <= n PROVE \E f : Solves(f, k + 1)
    OBVIOUS
  <2>1. PICK f : Solves(f, k)
    <3>1. k <= n
      OBVIOUS
    <3> HIDE DEF Solves
    <3> QED
      BY <1>2, <3>1
  <2> DEFINE a == n - k
             rest == n - k + 1 .. n
             g == [s \in SUBSET (a .. n) |-> IF a \in s THEN Effect(f[s \ {a}], events[a]) ELSE f[s]]
  <2>2. a \in 1 .. n /\ n - (k + 1) + 1 = a /\ rest = (a .. n) \ {a} /\ a .. n \in SUBSET (1 .. n)
    OBVIOUS
  <2>3. f = [s \in SUBSET rest |-> IF s = {} THEN props ELSE Effect(f[s \ {Min(s)}], events[Min(s)])]
    BY <2>1
  <2> HIDE DEF a, rest, Solves
  <2>4. ASSUME NEW s \in SUBSET (a .. n)
        PROVE  g[s] = IF s = {} THEN props ELSE Effect(g[s \ {Min(s)}], events[Min(s)])
    <3>1. CASE s = {}
      <4>1. s \in SUBSET rest /\ a \notin s
        BY <3>1
      <4>2. g[s] = f[s] /\ f[s] = props
        BY <2>3, <3>1, <4>1
      <4> QED
        BY <3>1, <4>2
    <3>2. CASE a \in s
      <4>1. Min(s) = a
        <5>1. Min(s) \in s /\ Min(s) <= a
          BY <2>2, <3>2, MinOfNumbers
        <5>2. Min(s) \in a .. n
          BY <5>1
        <5> QED
          BY <2>2, <5>1, <5>2
      <4>2. s \ {a} \in SUBSET (a .. n) /\ a \notin s \ {a}
        OBVIOUS
      <4>3. g[s \ {a}] = f[s \ {a}]
        BY <4>2
      <4>4. g[s] = Effect(f[s \ {a}], events[a])
        BY <3>2
      <4> QED
        BY <3>2, <4>1, <4>3, <4>4
    <3>3. CASE s # {} /\ a \notin s
      <4>1. s \in SUBSET rest
        BY <2>2, <3>3
      <4>2. f[s] = Effect(f[s \ {Min(s)}], events[Min(s)])
        BY <2>3, <3>3, <4>1
      <4>3. g[s] = f[s] /\ g[s \ {Min(s)}] = f[s \ {Min(s)}]
        BY <3>3
      <4> QED
        BY <3>3, <4>2, <4>3
    <3> QED
      BY <3>1, <3>2, <3>3
  <2>5. g = [s \in SUBSET (a .. n) |-> IF s = {} THEN props ELSE Effect(g[s \ {Min(s)}], events[Min(s)])]
    BY <2>4
  <2> HIDE DEF g
  <2>6. Solves(g, k + 1)
    BY <2>2, <2>5 DEF Solves
  <2> QED
    BY <2>6
<1>3. n \in Solved
  <2> HIDE DEF Solvable
  <2>1. 0 \in Solved /\ \A k \in Nat : k \in Solved => k + 1 \in Solved
    BY <1>1, <1>2
  <2> HIDE DEF Solved
  <2> QED
    BY <2>1, EveryNatural
<1>4. PICK f : Solves(f, n)
  BY <1>3
<1>5. n - n + 1 .. n = 1 .. n
  OBVIOUS
<1>6. IsReplay(f, events, n, props)
  BY <1>4, <1>5 DEF IsReplay
<1> QED
  BY <1>6

LEMMA ReplayIsUnique ==
  ASSUME NEW events, NEW n \in Nat, NEW props,
         NEW f, IsReplay(f, events, n, props), NEW g, IsReplay(g, events, n, props)
  PROVE  f = g
<1> DEFINE Same(k) == \A s \in SUBSET (1 .. n) : s \subseteq n - k + 1 .. n => f[s] = g[s]
           Agree == {k \in Nat : Same(k)}
<1>1. f[{}] = g[{}]
  BY DEF IsReplay
<1>2. 0 \in Agree
  <2>1. n - 0 + 1 .. n = {}
    OBVIOUS
  <2> QED
    BY <1>1, <2>1
<1>3. ASSUME NEW k \in Nat, k \in Agree PROVE k + 1 \in Agree
  <2>1. ASSUME NEW s \in SUBSET (1 .. n), s \subseteq n - (k + 1) + 1 .. n, s # {}
        PROVE  f[s] = g[s]
    <3>1. Min(s) \in s /\ \A i \in s : Min(s) <= i
      BY <2>1, MinOfNumbers
    <3>2. s \ {Min(s)} \subseteq n - k + 1 .. n
      <4> SUFFICES ASSUME NEW i \in s, i # Min(s) PROVE i \in n - k + 1 .. n
        OBVIOUS
      <4>1. i \in n - (k + 1) + 1 .. n /\ Min(s) \in n - (k + 1) + 1 .. n /\ Min(s) <= i
        BY <2>1, <3>1
      <4> QED
        BY <4>1
    <3>3. f[s \ {Min(s)}] = g[s \ {Min(s)}]
      BY <1>3, <3>2
    <3>4. f[s] = Effect(f[s \ {Min(s)}], events[Min(s)]) /\ g[s] = Effect(g[s \ {Min(s)}], events[Min(s)])
      BY <2>1 DEF IsReplay
    <3> QED
      BY <3>3, <3>4
  <2>2. Same(k + 1)
    BY <1>1, <2>1
  <2>3. k + 1 \in Nat
    OBVIOUS
  <2> HIDE DEF Same
  <2> QED
    BY <2>2, <2>3
<1>4. n \in Agree
  <2> HIDE DEF Agree
  <2> QED
    BY <1>2, <1>3, EveryNatural
<1>5. n - n + 1 .. n = 1 .. n
  OBVIOUS
<1>6. \A s \in SUBSET (1 .. n) : f[s] = g[s]
  BY <1>4, <1>5
<1> QED
  BY <1>6 DEF IsReplay

\* Replay is what the props are after the newest event.
LEMMA ReplayedIs ==
  ASSUME NEW events, NEW n \in Nat, DOMAIN events = 1 .. n, NEW props
  PROVE  \E h : Replayed(h, events, n, props) /\ Replay(events, props) = h[1]
<1>1. PICK f : IsReplay(f, events, n, props)
  BY ReplayExists
<1>2. Replay(events, props) = f[1 .. n]
  BY <1>1, ReplayIs, ReplayIsUnique
<1> DEFINE h == [i \in 1 .. n + 1 |-> f[i .. n]]
<1>3. h[n + 1] = props
  <2>1. n + 1 .. n = {} /\ n + 1 \in 1 .. n + 1
    OBVIOUS
  <2>2. f[{}] = props
    BY <1>1 DEF IsReplay
  <2> QED
    BY <2>1, <2>2
<1>4. ASSUME NEW i \in 1 .. n PROVE h[i] = Effect(h[i + 1], events[i])
  <2>1. i .. n \in SUBSET (1 .. n) /\ i .. n # {} /\ i \in i .. n
    OBVIOUS
  <2>2. Min(i .. n) = i
    <3>1. Min(i .. n) \in i .. n /\ Min(i .. n) <= i
      BY <2>1, MinOfNumbers
    <3> QED
      BY <3>1
  <2>3. (i .. n) \ {i} = i + 1 .. n
    OBVIOUS
  <2>4. f[i .. n] = Effect(f[i + 1 .. n], events[i])
    BY <1>1, <2>1, <2>2, <2>3 DEF IsReplay
  <2> QED
    BY <2>4
<1>5. h[1] = f[1 .. n]
  OBVIOUS
<1> HIDE DEF h
<1> QED
  BY <1>2, <1>3, <1>4, <1>5 DEF Replayed

LEMMA ReplayedIsUnique ==
  ASSUME NEW events, NEW n, NEW props,
         NEW g, Replayed(g, events, n, props), NEW h, Replayed(h, events, n, props)
  PROVE  g[1] = h[1]
<1> DEFINE Same(k) == k <= n => g[n + 1 - k] = h[n + 1 - k]
           Agree == {k \in Nat : Same(k)}
<1>0. n \in Nat
  BY DEF Replayed
<1>1. Same(0)
  <2>1. n + 1 - 0 = n + 1
    BY <1>0
  <2> QED
    BY <2>1 DEF Replayed
<1>2. ASSUME NEW k \in Nat, Same(k) PROVE Same(k + 1)
  <2> SUFFICES ASSUME k + 1 <= n PROVE g[n + 1 - (k + 1)] = h[n + 1 - (k + 1)]
    OBVIOUS
  <2> DEFINE i == n + 1 - (k + 1)
  <2>1. i \in 1 .. n /\ i + 1 = n + 1 - k /\ k <= n
    BY <1>0
  <2>2. g[i + 1] = h[i + 1]
    BY <1>2, <2>1
  <2> HIDE DEF i
  <2>3. g[i] = h[i]
    BY <2>1, <2>2 DEF Replayed
  <2> QED
    BY <2>3 DEF i
<1>3. n \in Agree
  <2> HIDE DEF Same
  <2>1. 0 \in Agree /\ \A k \in Nat : k \in Agree => k + 1 \in Agree
    BY <1>1, <1>2
  <2> HIDE DEF Agree
  <2> QED
    BY <1>0, <2>1, EveryNatural
<1>4. n + 1 - n = 1 /\ n <= n
  BY <1>0
<1> QED
  BY <1>3, <1>4

LEMMA ReplayNothing ==
  ASSUME NEW props
  PROVE  Replay(<<>>, props) = props
<1>1. 0 \in Nat /\ DOMAIN <<>> = 1 .. 0
  OBVIOUS
<1>2. PICK h : Replayed(h, <<>>, 0, props) /\ Replay(<<>>, props) = h[1]
  BY <1>1, ReplayedIs
<1>3. 0 + 1 = 1
  OBVIOUS
<1> QED
  BY <1>2, <1>3 DEF Replayed

LEMMA ReplayOne ==
  ASSUME NEW event, NEW props
  PROVE  Replay(<<event>>, props) = Effect(props, event)
<1>1. 1 \in Nat /\ DOMAIN <<event>> = 1 .. 1
  OBVIOUS
<1>2. PICK h : Replayed(h, <<event>>, 1, props) /\ Replay(<<event>>, props) = h[1]
  BY <1>1, ReplayedIs
<1>3. 1 + 1 = 2 /\ 1 \in 1 .. 1 /\ <<event>>[1] = event
  OBVIOUS
<1> QED
  BY <1>2, <1>3 DEF Replayed

\* The older events are replayed first.
LEMMA ReplayBoth ==
  ASSUME NEW S, NEW newer \in Seq(S), NEW older \in Seq(S), NEW props
  PROVE  Replay(newer \o older, props) = Replay(newer, Replay(older, props))
<1> DEFINE m == Len(newer)
           n == Len(older)
           events == newer \o older
<1>1. /\ m \in Nat /\ n \in Nat /\ DOMAIN newer = 1 .. m /\ DOMAIN older = 1 .. n
      /\ DOMAIN events = 1 .. m + n
      /\ \A i \in 1 .. m : events[i] = newer[i]
      /\ \A i \in m + 1 .. m + n : events[i] = older[i - m]
  OBVIOUS
<1> HIDE DEF m, n, events
<1>2. PICK g : Replayed(g, older, n, props) /\ Replay(older, props) = g[1]
  BY <1>1, ReplayedIs
<1>3. PICK f : Replayed(f, newer, m, g[1]) /\ Replay(newer, g[1]) = f[1]
  BY <1>1, ReplayedIs
<1>4. PICK e : Replayed(e, events, m + n, props) /\ Replay(events, props) = e[1]
  BY <1>1, ReplayedIs
<1> DEFINE h == [i \in 1 .. m + n + 1 |-> IF i <= m THEN f[i] ELSE g[i - m]]
<1>5. Replayed(h, events, m + n, props)
  <2>1. h[m + n + 1] = props
    <3>1. m + n + 1 \in 1 .. m + n + 1 /\ ~ (m + n + 1 <= m) /\ m + n + 1 - m = n + 1
      BY <1>1
    <3>2. \A i \in 1 .. m + n + 1 : ~ (i <= m) => h[i] = g[i - m]
      OBVIOUS
    <3>4. h[m + n + 1] = g[m + n + 1 - m]
      <4> HIDE DEF h
      <4> QED
        BY <1>1, <3>1, <3>2
    <3>3. g[n + 1] = props
      BY <1>2 DEF Replayed
    <3> QED
      BY <3>1, <3>3, <3>4
  <2>2. ASSUME NEW i \in 1 .. m + n PROVE h[i] = Effect(h[i + 1], events[i])
    <3>0. i \in 1 .. m + n + 1 /\ i + 1 \in 1 .. m + n + 1
      BY <1>1
    <3>1. CASE i < m
      <4>1. i \in 1 .. m /\ i <= m /\ i + 1 <= m
        BY <1>1, <3>1
      <4>2. h[i] = f[i] /\ h[i + 1] = f[i + 1] /\ events[i] = newer[i]
        BY <1>1, <3>0, <4>1
      <4> QED
        BY <1>3, <4>1, <4>2 DEF Replayed
    <3>2. CASE i = m
      <4>1. m \in 1 .. m /\ i <= m /\ ~ (i + 1 <= m) /\ i + 1 - m = 1
        BY <1>1, <3>2
      <4>2. h[i] = f[m] /\ h[i + 1] = g[1] /\ events[i] = newer[m]
        BY <1>1, <3>0, <3>2, <4>1
      <4>3. f[m + 1] = g[1] /\ f[m] = Effect(f[m + 1], newer[m])
        BY <1>3, <4>1 DEF Replayed
      <4> QED
        BY <4>2, <4>3
    <3>3. CASE i > m
      <4>1. ~ (i <= m) /\ ~ (i + 1 <= m) /\ i - m \in 1 .. n /\ i + 1 - m = i - m + 1 /\ i \in m + 1 .. m + n
        BY <1>1, <3>3
      <4>2. h[i] = g[i - m] /\ h[i + 1] = g[i - m + 1] /\ events[i] = older[i - m]
        BY <1>1, <3>0, <4>1
      <4> QED
        BY <1>2, <4>1, <4>2 DEF Replayed
    <3> QED
      BY <1>1, <3>1, <3>2, <3>3
  <2> HIDE DEF h
  <2> QED
    BY <1>1, <2>1, <2>2 DEF Replayed
<1>6. h[1] = f[1]
  <2>1. CASE m = 0
    <3>1. h[1] = g[1]
      BY <1>1, <2>1
    <3>2. f[m + 1] = g[1] /\ m + 1 = 1
      BY <1>3, <2>1 DEF Replayed
    <3> QED
      BY <3>1, <3>2
  <2>2. CASE m # 0
    <3>1. 1 <= m /\ 1 \in 1 .. m + n + 1
      BY <1>1, <2>2
    <3> QED
      BY <3>1
  <2> QED
    BY <2>1, <2>2
<1> HIDE DEF h
<1>7. e[1] = h[1]
  BY <1>4, <1>5, ReplayedIsUnique
<1> QED
  BY <1>2, <1>3, <1>4, <1>6, <1>7 DEF events

-----------------------------------------------------------------------------
(* What the commands make of an aggregate.                                 *)

TagProps == [is : {"array", "option"}, items : TagLists]

WithTags(e, tags) == [e EXCEPT !.props.tags = tags]

LEMMA TagListsAre ==
  ASSUME NEW items
  PROVE  items \in TagLists <=> items \in Seq(Tags) /\ Len(items) <= MaxIndex + 1
BY DEF TagLists

LEMMA WithTagsIs ==
  ASSUME NEW e, IsEntity(e), NEW tags \in TagProps
  PROVE  /\ IsEntity(WithTags(e, tags)) /\ WithTags(e, tags).id = e.id
         /\ WithTags(e, tags).props.tags = tags
         /\ WithTags(e, tags).props = [e.props EXCEPT !.tags = tags]
<1> DEFINE f == WithTags(e, tags)
           p == [e.props EXCEPT !.tags = tags]
<1>1. IsProps(e.props)
  BY DEF IsEntity
<1>2. /\ p = [k \in FieldNames |-> p[k]] /\ p.tags = tags /\ p.name = e.props.name
      /\ p.balance = e.props.balance /\ p.phone = e.props.phone /\ p.photo = e.props.photo
  BY <1>1 DEF IsProps, FieldNames
<1>3. IsProps(p)
  <2> HIDE DEF p
  <2> QED
    BY <1>1, <1>2 DEF IsProps, TagProps
<1>4. /\ f.props = p /\ f.id = e.id /\ f.createdAt = e.createdAt /\ f.updatedAt = e.updatedAt
      /\ f = [_tag |-> "account", id |-> f.id, createdAt |-> f.createdAt, updatedAt |-> f.updatedAt,
              props |-> f.props]
  BY DEF IsEntity, WithTags
<1> HIDE DEF f, p
<1>5. IsEntity(f)
  BY <1>3, <1>4 DEF IsEntity
<1> QED
  BY <1>2, <1>4, <1>5 DEF f, p

\* What a command that is not refused answers: an aggregate with the same id,
\* and an event that has the same effect on the props.
IsCommand(e, r) ==
  r.ok => \E f, event :
            /\ r.value = Of(f, <<event>>) /\ event \in Ops
            /\ IsEntity(f) /\ f.id = e.id
            /\ Plain(f.props) = Effect(Plain(e.props), event)

LEMMA SetterIs ==
  ASSUME NEW e, IsEntity(e), NEW v \in Names
  PROVE  /\ IsCommand(e, Setter(e, v))
         /\ Setter(e, v).ok => Setter(e, v).value.state.props.tags = e.props.tags
<1> SUFFICES ASSUME Setter(e, v).ok
             PROVE  /\ IsCommand(e, Setter(e, v))
                    /\ Setter(e, v).value.state.props.tags = e.props.tags
  BY DEF IsCommand
<1> DEFINE f == [e EXCEPT !.props.name = v]
           p == [e.props EXCEPT !.name = v]
           event == [op |-> "set", to |-> v]
<1>1. ParseNonEmptyString(v) = Right(v) /\ Setter(e, v).value = Of(f, <<event>>)
  BY DEF Setter, SumUp, ParseNonEmptyString, FromPredicate, Left, Right, Event
<1>2. IsProps(e.props)
  BY DEF IsEntity
<1>3. /\ p = [k \in FieldNames |-> p[k]] /\ p.tags = e.props.tags /\ p.name = v
      /\ p.balance = e.props.balance /\ p.phone = e.props.phone /\ p.photo = e.props.photo
  BY <1>2 DEF IsProps, FieldNames
<1>4. IsProps(p)
  <2> HIDE DEF p
  <2> QED
    BY <1>1, <1>2, <1>3 DEF IsProps
<1>5. /\ f.props = p /\ f.id = e.id /\ f.createdAt = e.createdAt /\ f.updatedAt = e.updatedAt
      /\ f = [_tag |-> "account", id |-> f.id, createdAt |-> f.createdAt, updatedAt |-> f.updatedAt,
              props |-> f.props]
  BY DEF IsEntity
<1>6. Plain(p) = Effect(Plain(e.props), event)
  <2>1. Effect(Plain(e.props), event) = [Plain(e.props) EXCEPT !.name = v]
    BY DEF Effect
  <2>2. Plain(p) = [Plain(e.props) EXCEPT !.name = v]
    BY <1>2 DEF Plain, IsProps, FieldNames
  <2> QED
    BY <2>1, <2>2
<1> HIDE DEF f, p
<1>7. IsEntity(f)
  BY <1>4, <1>5 DEF IsEntity
<1>8. event \in Ops
  BY DEF Ops
<1>9. Setter(e, v).value.state = f
  BY <1>1 DEF Of
<1> HIDE DEF event
<1> QED
  BY <1>1, <1>3, <1>5, <1>6, <1>7, <1>8, <1>9 DEF IsCommand

\* The lists that an adder and a remover make.
LEMMA AppendIs ==
  ASSUME NEW items \in Seq(Tags), NEW t \in Tags
  PROVE  /\ Append(items, t) \in Seq(Tags) /\ Len(Append(items, t)) = Len(items) + 1
         /\ \A i \in 1 .. Len(items) : Append(items, t)[i] = items[i]
         /\ Append(items, t)[Len(items) + 1] = t
OBVIOUS

LEMMA RemoveAtIs ==
  ASSUME NEW items \in Seq(Tags), NEW n \in 1 .. Len(items)
  PROVE  /\ RemoveAt(items, n) \in Seq(Tags) /\ Len(RemoveAt(items, n)) = Len(items) - 1
         /\ \A i \in 1 .. Len(items) - 1 :
              RemoveAt(items, n)[i] = IF i < n THEN items[i] ELSE items[i + 1]
<1> DEFINE a == SubSeq(items, 1, n - 1)
           b == SubSeq(items, n + 1, Len(items))
<1>0. n \in Nat /\ n >= 1 /\ Len(items) \in Nat /\ n <= Len(items)
  OBVIOUS
<1>1. a \in Seq(Tags) /\ Len(a) = n - 1 /\ \A i \in 1 .. n - 1 : a[i] = items[i]
  <2>1. \A i \in 1 .. n - 1 : i \in DOMAIN items
    BY <1>0
  <2> QED
    BY <1>0, <2>1
<1>2. b \in Seq(Tags) /\ Len(b) = Len(items) - n /\ \A i \in 1 .. Len(items) - n : b[i] = items[i + n]
  <2>1. \A i \in n + 1 .. Len(items) : i \in DOMAIN items
    BY <1>0
  <2> QED
    BY <1>0, <2>1
<1> HIDE DEF a, b
<1>3. a \o b \in Seq(Tags) /\ Len(a \o b) = Len(items) - 1
  <2>1. a \o b \in Seq(Tags) /\ Len(a \o b) = Len(a) + Len(b)
    <3>1. a \in Seq(Tags) /\ b \in Seq(Tags)
      BY <1>1, <1>2
    <3> QED
      BY <3>1
  <2>2. n - 1 + (Len(items) - n) = Len(items) - 1
    BY <1>0
  <2> QED
    BY <1>1, <1>2, <2>1, <2>2
<1>4. ASSUME NEW i \in 1 .. Len(items) - 1
      PROVE  (a \o b)[i] = IF i < n THEN items[i] ELSE items[i + 1]
  <2>1. (a \o b)[i] = IF i <= Len(a) THEN a[i] ELSE b[i - Len(a)]
    BY <1>0, <1>1, <1>2
  <2>2. CASE i < n
    BY <1>0, <1>1, <2>1, <2>2
  <2>3. CASE ~ (i < n)
    <3>1. i - Len(a) = i - n + 1 /\ i - n + 1 \in 1 .. Len(items) - n /\ i - n + 1 + n = i + 1 /\ ~ (i <= Len(a))
      BY <1>0, <1>1, <2>3
    <3> QED
      BY <1>2, <2>1, <2>3, <3>1
  <2> QED
    BY <2>2, <2>3
<1> QED
  BY <1>3, <1>4 DEF a, b, RemoveAt

LEMMA AdderIs ==
  ASSUME NEW e, IsEntity(e), NEW attribute, NEW t \in Tags
  PROVE  /\ IsCommand(e, Adder(e, attribute, t))
         /\ Adder(e, attribute, t).ok /\ HasEqualTags(Adder(e, attribute, t).value.state.props.tags) =>
              HasEqualTags(e.props.tags)
<1> SUFFICES ASSUME Adder(e, attribute, t).ok
             PROVE  /\ IsCommand(e, Adder(e, attribute, t))
                    /\ HasEqualTags(Adder(e, attribute, t).value.state.props.tags) => HasEqualTags(e.props.tags)
  BY DEF IsCommand
<1> DEFINE tags == e.props.tags
           items == tags.items
           f == WithTags(e, Array(Append(items, t)))
           event == [op |-> "add", to |-> t]
<1>1. IsProps(e.props) /\ tags \in TagProps
  BY DEF IsEntity, IsProps, TagProps
<1>2. items \in Seq(Tags) /\ Len(items) <= MaxIndex + 1
  BY <1>1 DEF TagProps, TagLists
<1>3. /\ IsArray(tags) /\ Len(items) < MaxTags /\ ~ Exists(items, t)
      /\ Adder(e, attribute, t).value = Of([e EXCEPT !.props.tags.items = Append(@, t)], <<event>>)
  BY DEF Adder, ShouldBeArray, ValidateTag, ParseTag, SumUp, FromPredicate, Left, Right, Event
<1>4. tags = Array(items)
  BY <1>1, <1>3 DEF TagProps, IsArray, Array
<1>5. [e EXCEPT !.props.tags.items = Append(@, t)] = f
  <2>1. [tags EXCEPT !.items = Append(@, t)] = Array(Append(items, t))
    BY <1>4 DEF Array
  <2> QED
    BY <1>1, <2>1 DEF WithTags, IsEntity, IsProps, FieldNames
<1>6. Append(items, t) \in TagLists
  <2>1. Len(items) + 1 <= MaxIndex + 1
    <3>1. MaxTags \in 0 .. MaxIndex + 1 /\ MaxIndex \in Nat
      BY AggregateAssumption, ParsingAssumption
    <3>2. Len(items) \in Nat /\ Len(items) < MaxTags
      BY <1>2, <1>3
    <3> HIDE DEF items
    <3> QED
      BY <3>1, <3>2
  <2>2. Append(items, t) \in Seq(Tags) /\ Len(Append(items, t)) = Len(items) + 1
    BY <1>2, AppendIs
  <2> QED
    BY <2>1, <2>2, TagListsAre
<1>7. Array(Append(items, t)) \in TagProps
  BY <1>6 DEF Array, TagProps
<1>8. /\ IsEntity(f) /\ f.id = e.id /\ f.props.tags = Array(Append(items, t))
      /\ f.props = [e.props EXCEPT !.tags = Array(Append(items, t))]
  BY <1>7, WithTagsIs
<1>9. Plain(f.props) = Effect(Plain(e.props), event)
  <2>1. Effect(Plain(e.props), event) = [Plain(e.props) EXCEPT !.tags.items = Append(@, t)]
    BY DEF Effect
  <2>2. Plain(e.props) = [e.props EXCEPT !.tags = Array(items)]
    BY DEF Plain
  <2>3. [Plain(e.props) EXCEPT !.tags.items = Append(@, t)] = [e.props EXCEPT !.tags = Array(Append(items, t))]
    <3>1. Plain(e.props).tags = Array(items)
      BY <1>1, <2>2 DEF IsProps, FieldNames
    <3>2. [Plain(e.props) EXCEPT !.tags.items = Append(@, t)]
            = [Plain(e.props) EXCEPT !.tags = [Plain(e.props).tags EXCEPT !.items = Append(@, t)]]
      OBVIOUS
    <3>3. [Array(items) EXCEPT !.items = Append(@, t)] = Array(Append(items, t))
      <4> HIDE DEF items
      <4> QED
        BY DEF Array
    <3>4. [Plain(e.props) EXCEPT !.tags.items = Append(@, t)]
            = [Plain(e.props) EXCEPT !.tags = Array(Append(items, t))]
      BY <3>1, <3>2, <3>3
    <3> QED
      BY <2>2, <3>4
  <2>4. Plain(f.props) = [e.props EXCEPT !.tags = Array(Append(items, t))]
    BY <1>1, <1>8 DEF Plain, Array, IsProps, FieldNames
  <2> QED
    BY <2>1, <2>3, <2>4
<1>10. event \in Ops
  BY DEF Ops
<1>11. HasEqualTags(Array(Append(items, t))) => HasEqualTags(tags)
  <2> SUFFICES ASSUME NEW i \in DOMAIN Append(items, t), NEW j \in DOMAIN Append(items, t), i # j,
                      Class[Append(items, t)[i]] = Class[Append(items, t)[j]]
               PROVE  HasEqualTags(tags)
    BY DEF HasEqualTags, Array
  <2>1. \A k \in DOMAIN Append(items, t) : k \in 1 .. Len(items) \/ k = Len(items) + 1
    BY <1>2
  <2>2. \A k \in 1 .. Len(items) : Class[items[k]] # Class[t]
    BY <1>2, <1>3 DEF Exists, EqualTags
  <2>3. \A k \in 1 .. Len(items) : Append(items, t)[k] = items[k]
    BY <1>2, AppendIs
  <2>4. Append(items, t)[Len(items) + 1] = t
    BY <1>2, AppendIs
  <2>5. i \in 1 .. Len(items) /\ j \in 1 .. Len(items)
    BY <2>1, <2>2, <2>3, <2>4
  <2>6. i \in DOMAIN items /\ j \in DOMAIN items /\ Class[items[i]] = Class[items[j]]
    BY <1>2, <2>3, <2>5
  <2> QED
    BY <2>6 DEF HasEqualTags
<1>12. Adder(e, attribute, t).value = Of(f, <<event>>)
  BY <1>3, <1>5
<1> HIDE DEF f, event
<1>13. Adder(e, attribute, t).value.state = f
  BY <1>12 DEF Of
<1> QED
  BY <1>8, <1>9, <1>10, <1>11, <1>12, <1>13 DEF IsCommand

LEMMA RemoverIs ==
  ASSUME NEW e, IsEntity(e), NEW attribute, NEW t \in Tags
  PROVE  /\ IsCommand(e, Remover(e, attribute, t))
         /\ Remover(e, attribute, t).ok /\ HasEqualTags(Remover(e, attribute, t).value.state.props.tags) =>
              HasEqualTags(e.props.tags)
<1> SUFFICES ASSUME Remover(e, attribute, t).ok
             PROVE  /\ IsCommand(e, Remover(e, attribute, t))
                    /\ HasEqualTags(Remover(e, attribute, t).value.state.props.tags) => HasEqualTags(e.props.tags)
  BY DEF IsCommand
<1> DEFINE tags == e.props.tags
           items == tags.items
           equal == {i \in DOMAIN items : EqualTags(items[i], t)}
           left == RemoveAt(items, Min(equal))
           f == WithTags(e, Option(left))
           event == [op |-> "remove", to |-> t]
<1>1. IsProps(e.props) /\ tags \in TagProps
  BY DEF IsEntity, IsProps, TagProps
<1>2. items \in Seq(Tags) /\ Len(items) <= MaxIndex + 1 /\ DOMAIN items = 1 .. Len(items)
  BY <1>1 DEF TagProps, TagLists
<1>3. ShouldBeArray(e, attribute) = Right(tags) /\ IsArray(tags)
  BY DEF Remover, ShouldBeArray, FromPredicate, Left, Right
<1>4. SumUp(ParseTag(t), "REMOVER_VALIDATING_FAIL") = Right(t)
  BY <1>3 DEF Remover, ParseTag, SumUp, FromPredicate, Left, Right
<1>5. equal # {} /\ Remover(e, attribute, t).value = Of([e EXCEPT !.props.tags = Option(RemoveAt(@.items, Min(equal)))], <<event>>)
  BY <1>3, <1>4 DEF Remover, Left, Right, Event
<1>6. tags = Array(items)
  BY <1>1, <1>3 DEF TagProps, IsArray, Array
<1>7. [e EXCEPT !.props.tags = Option(RemoveAt(@.items, Min(equal)))] = f
  BY <1>1 DEF WithTags, IsEntity, IsProps, FieldNames
<1>8. Min(equal) \in 1 .. Len(items)
  <2> HIDE DEF items
  <2>1. equal \in SUBSET Nat
    BY <1>2
  <2>2. Min(equal) \in equal
    BY <1>5, <2>1, MinIs
  <2> QED
    BY <1>2, <2>2
<1>9. /\ left \in Seq(Tags) /\ Len(left) = Len(items) - 1
      /\ \A i \in 1 .. Len(items) - 1 : left[i] = IF i < Min(equal) THEN items[i] ELSE items[i + 1]
  BY <1>2, <1>8, RemoveAtIs
<1>10. Option(left) \in TagProps
  <2> HIDE DEF left, equal, items
  <2>1. Len(items) - 1 <= MaxIndex + 1
    BY <1>2, ParsingAssumption
  <2>2. left \in TagLists
    BY <1>9, <2>1, TagListsAre
  <2> QED
    BY <2>2 DEF Option, TagProps
<1>11. /\ IsEntity(f) /\ f.id = e.id /\ f.props.tags = Option(left)
       /\ f.props = [e.props EXCEPT !.tags = Option(left)]
  BY <1>10, WithTagsIs
<1>12. RemoveFirstMatch(items, LAMBDA x : EqualTags(x, event.to)) = left
  <2>1. {i \in 1 .. Len(items) : EqualTags(items[i], t)} = equal
    BY <1>2
  <2>2. \E i \in 1 .. Len(items) : EqualTags(items[i], t)
    BY <1>2, <1>5
  <2> HIDE DEF equal, items
  <2> QED
    BY <1>5, <2>1, <2>2 DEF RemoveFirstMatch, SelectInSeq
<1>13. Plain(f.props) = Effect(Plain(e.props), event)
  <2>1. Effect(Plain(e.props), event) = [Plain(e.props) EXCEPT !.tags.items = RemoveFirstMatch(@, LAMBDA x : EqualTags(x, event.to))]
    BY DEF Effect
  <2>2. Plain(e.props) = e.props /\ e.props.tags = Array(items)
    <3>1. Plain(e.props) = [e.props EXCEPT !.tags = Array(items)]
      BY DEF Plain
    <3> QED
      BY <1>1, <1>6, <3>1 DEF IsProps, FieldNames
  <2>3. [e.props EXCEPT !.tags.items = RemoveFirstMatch(@, LAMBDA x : EqualTags(x, event.to))]
          = [e.props EXCEPT !.tags = [e.props.tags EXCEPT !.items = left]]
    BY <1>12
  <2>4. [e.props.tags EXCEPT !.items = left] = Array(left)
    <3> HIDE DEF left, items
    <3> QED
      BY <2>2 DEF Array
  <2>5. Plain(f.props) = [e.props EXCEPT !.tags = Array(left)]
    <3> HIDE DEF left
    <3> QED
      BY <1>1, <1>11 DEF Plain, Array, Option, IsProps, FieldNames
  <2> QED
    BY <2>1, <2>2, <2>3, <2>4, <2>5
<1>14. event \in Ops
  BY DEF Ops
<1>15. HasEqualTags(Option(left)) => HasEqualTags(tags)
  <2> SUFFICES ASSUME NEW i \in DOMAIN left, NEW j \in DOMAIN left, i # j, Class[left[i]] = Class[left[j]]
               PROVE  HasEqualTags(tags)
    BY DEF HasEqualTags, Option
  <2> DEFINE n == Min(equal)
             was(k) == IF k < n THEN k ELSE k + 1
  <2> HIDE DEF left, items, n
  <2>1. i \in 1 .. Len(items) - 1 /\ j \in 1 .. Len(items) - 1 /\ n \in 1 .. Len(items) /\ Len(items) \in Nat
    BY <1>2, <1>8, <1>9 DEF n
  <2>2. was(i) \in 1 .. Len(items) /\ was(j) \in 1 .. Len(items) /\ was(i) # was(j)
    BY <2>1
  <2>3. left[i] = items[was(i)] /\ left[j] = items[was(j)]
    BY <1>9, <2>1 DEF n
  <2> HIDE DEF was
  <2>4. was(i) \in DOMAIN items /\ was(j) \in DOMAIN items /\ Class[items[was(i)]] = Class[items[was(j)]]
    BY <1>2, <2>2, <2>3
  <2> QED
    BY <2>2, <2>4 DEF HasEqualTags, items
<1>16. Remover(e, attribute, t).value = Of(f, <<event>>)
  BY <1>5, <1>7
<1> HIDE DEF f, event
<1>17. Remover(e, attribute, t).value.state = f
  BY <1>16 DEF Of
<1> QED
  BY <1>11, <1>13, <1>14, <1>15, <1>16, <1>17 DEF IsCommand

LEMMA AsReducerIs ==
  ASSUME NEW e, IsEntity(e), NEW to \in Retags
  PROVE  /\ IsCommand(e, AsReducer(e, to))
         /\ AsReducer(e, to).ok => AsReducer(e, to).value.state.props.tags = Array(to)
<1> SUFFICES ASSUME AsReducer(e, to).ok
             PROVE  /\ IsCommand(e, AsReducer(e, to))
                    /\ AsReducer(e, to).value.state.props.tags = Array(to)
  BY DEF IsCommand
<1> DEFINE f == WithTags(e, Array(to))
           event == [op |-> "retag", to |-> to]
<1>1. IsProps(e.props)
  BY DEF IsEntity
<1>2. AsReducer(e, to).value = Of(f, <<event>>)
  BY DEF AsReducer, Left, Right, Event, WithTags
<1>3. Array(to) \in TagProps
  BY AggregateAssumption DEF Array, TagProps
<1>4. IsEntity(f) /\ f.id = e.id /\ f.props.tags = Array(to) /\ f.props = [e.props EXCEPT !.tags = Array(to)]
  BY <1>3, WithTagsIs
<1>5. Plain(f.props) = Effect(Plain(e.props), event)
  <2>1. Effect(Plain(e.props), event) = [Plain(e.props) EXCEPT !.tags = Array(to)]
    BY DEF Effect
  <2>2. [Plain(e.props) EXCEPT !.tags = Array(to)] = [e.props EXCEPT !.tags = Array(to)]
    BY <1>1 DEF Plain, IsProps, FieldNames
  <2>3. Plain(f.props) = [e.props EXCEPT !.tags = Array(to)]
    BY <1>1, <1>4 DEF Plain, Array, IsProps, FieldNames
  <2> QED
    BY <2>1, <2>2, <2>3
<1>6. event \in Ops
  BY DEF Ops
<1> HIDE DEF f, event
<1>7. AsReducer(e, to).value.state = f
  BY <1>2 DEF Of
<1> QED
  BY <1>2, <1>4, <1>5, <1>6, <1>7 DEF IsCommand

-----------------------------------------------------------------------------
(* What the factory makes of a form.                                       *)

LEMMA RightIs ==
  ASSUME NEW v
  PROVE  Right(v).ok /\ Right(v).value = v
BY DEF Right

LEMMA LeftIs ==
  ASSUME NEW e
  PROVE  ~ Left(e).ok /\ Left(e).error = e
BY DEF Left

LEMMA ParseTagsIs ==
  ASSUME NEW prop \in TagProps
  PROVE  /\ ~ ParseTags(prop).ok => \E i \in DOMAIN prop.items : prop.items[i] \in Refused
         /\ ParseTags(prop).ok =>
              ParseTags(prop) = Right(IF IsArray(prop) THEN prop ELSE Array(<<>>))
<1> DEFINE items == IF IsArray(prop) THEN prop.items ELSE <<>>
           parsing == [i \in DOMAIN items |-> ParseTag(items[i])]
           n == Len(items)
<1>1. items \in Seq(Tags) /\ n \in Nat /\ DOMAIN items = 1 .. n /\ n <= MaxIndex + 1
  <2>1. CASE IsArray(prop)
    BY <2>1 DEF TagProps, TagLists
  <2>2. CASE ~ IsArray(prop)
    <3>1. n = 0
      BY <2>2
    <3> QED
      BY <2>2, <3>1, ParsingAssumption
  <2> QED
    BY <2>1, <2>2
<1>2. ParseTags(prop) = IF ArrayParser(parsing).ok THEN Right(Array(ArrayParser(parsing).value)) ELSE ArrayParser(parsing)
  BY DEF ParseTags
<1>3. IsArray(prop) => prop = Array(prop.items) /\ items = prop.items
  BY DEF TagProps, IsArray, Array
<1>4. ~ IsArray(prop) => items = <<>>
  OBVIOUS
<1> HIDE DEF items, n
<1>5. DOMAIN parsing = 1 .. n /\ \A i \in 1 .. n : parsing[i] = ParseTag(items[i])
  BY <1>1
<1> HIDE DEF parsing
<1>6. /\ ArrayParser(parsing).ok <=> \A i \in 1 .. n : parsing[i].ok
      /\ (\A i \in 1 .. n : parsing[i].ok) => ArrayParser(parsing) = Right([i \in 1 .. n |-> parsing[i].value])
  BY <1>1, <1>5, ArrayParserIsComplete
<1>7. CASE \A i \in 1 .. n : parsing[i].ok
  <2>1. \A i \in 1 .. n : parsing[i].value = items[i]
    BY <1>5, <1>7 DEF ParseTag, FromPredicate, Left, Right
  <2>2. [i \in 1 .. n |-> parsing[i].value] = items
    BY <1>1, <2>1
  <2>3. ArrayParser(parsing) = Right(items)
    BY <1>6, <1>7, <2>2
  <2>4. ParseTags(prop) = Right(Array(items))
    BY <1>2, <2>3, RightIs
  <2>5. ParseTags(prop).ok
    BY <2>4, RightIs
  <2>6. Array(items) = IF IsArray(prop) THEN prop ELSE Array(<<>>)
    BY <1>3, <1>4
  <2> QED
    BY <2>4, <2>5, <2>6
<1>8. CASE \E i \in 1 .. n : ~ parsing[i].ok
  <2>1. PICK i \in 1 .. n : ~ parsing[i].ok
    BY <1>8
  <2>2. items[i] \in Refused
    BY <1>5, <2>1 DEF ParseTag, FromPredicate, Left, Right
  <2>3. IsArray(prop)
    BY <1>1, <1>4
  <2>4. ~ ParseTags(prop).ok
    BY <1>2, <1>6, <2>1
  <2> QED
    BY <1>1, <1>3, <2>2, <2>3, <2>4
<1> QED
  BY <1>7, <1>8

LEMMA FieldsFinite ==
  IsFiniteSet(FieldNames) /\ MutualKey \notin FieldNames
<1>1. IsFiniteSet({} \cup {"name"} \cup {"balance"} \cup {"phone"} \cup {"photo"} \cup {"tags"})
  BY FS_EmptySet, FS_AddElement
<1>2. FieldNames = {} \cup {"name"} \cup {"balance"} \cup {"phone"} \cup {"photo"} \cup {"tags"}
  BY DEF FieldNames
<1> QED
  BY <1>1, <1>2 DEF MutualKey, FieldNames

LEMMA FieldsAre ==
  ASSUME NEW f
  PROVE  /\ DOMAIN Fields(f) = FieldNames
         /\ StructSummarizerParsing(Fields(f)) =
              IF \A k \in FieldNames : Fields(f)[k].ok THEN Right([k \in FieldNames |-> Fields(f)[k].value])
              ELSE Left(Summary(Fields(f)))
<1>1. DOMAIN Fields(f) = FieldNames
  BY DEF Fields, FieldNames
<1>2. StructSummarizerParsing(Fields(f)) =
        IF Failing(Fields(f)) = {} THEN Right([k \in FieldNames |-> Fields(f)[k].value])
        ELSE Left(Summary(Fields(f)))
  BY <1>1, FieldsFinite, SummaryIsComplete
<1>3. Failing(Fields(f)) = {} <=> \A k \in FieldNames : Fields(f)[k].ok
  BY <1>1 DEF Failing
<1> QED
  BY <1>1, <1>2, <1>3

\* What a value object is made of is what it keeps.
LEMMA FieldsKeep ==
  ASSUME NEW f
  PROVE  /\ Fields(f).name.ok => Fields(f).name = Right(f.name)
         /\ Fields(f).balance.ok => Fields(f).balance = Right([_tag |-> "Money", props |-> f.balance])
         /\ Fields(f).phone.ok => Fields(f).phone = Right([_tag |-> "phone", props |-> f.phone])
         /\ Fields(f).photo.ok => Fields(f).photo = Right([_tag |-> "File", props |-> f.photo])
<1>1. \A tag, parsed, raw : Factory(tag, parsed, raw).ok =>
        Factory(tag, parsed, raw) = Right([_tag |-> tag, props |-> raw])
  BY DEF Factory
<1>2. Fields(f).name.ok => Fields(f).name = Right(f.name)
  BY DEF Fields, ParseNonEmptyString, FromPredicate, Left, Right
<1>3. ParseMoney(f.balance).ok => ParseMoney(f.balance) = Right([_tag |-> "Money", props |-> f.balance])
  BY <1>1 DEF ParseMoney
<1>4. ParseFile(f.photo).ok => ParseFile(f.photo) = Right([_tag |-> "File", props |-> f.photo])
  BY <1>1 DEF ParseFile
<1>5. \A info, raw : ParseWithKycPrim(info, "phone", raw).ok =>
        ParseWithKycPrim(info, "phone", raw) = Right([_tag |-> "phone", props |-> raw])
  BY <1>1 DEF ParseWithKycPrim
<1> QED
  BY <1>2, <1>3, <1>4, <1>5 DEF Fields

MetaNames == {"id", "createdAt", "updatedAt"}

LEMMA MetaIs ==
  ASSUME NEW f, NEW uuid, IsMetaLike(f)
  PROVE  LET meta == ParserMetaLike(f, uuid)
         IN  /\ meta.ok <=> ParseId(IdOf(f, uuid)).ok
             /\ meta.ok => /\ meta.value.id = IdOf(f, uuid)
                           /\ meta.value.createdAt = f.createdAt /\ meta.value.updatedAt = f.updatedAt
<1> DEFINE struct == [id |-> ParseId(IdOf(f, uuid)), createdAt |-> Right(f.createdAt),
                      updatedAt |-> Right(f.updatedAt)]
<1>1. DOMAIN struct = MetaNames
  BY DEF MetaNames
<1>2. IsFiniteSet(MetaNames) /\ MutualKey \notin MetaNames
  <2>1. IsFiniteSet({} \cup {"id"} \cup {"createdAt"} \cup {"updatedAt"})
    BY FS_EmptySet, FS_AddElement
  <2>2. MetaNames = {} \cup {"id"} \cup {"createdAt"} \cup {"updatedAt"}
    BY DEF MetaNames
  <2> QED
    BY <2>1, <2>2 DEF MutualKey, MetaNames
<1>3. ParserMetaLike(f, uuid) = StructSummarizerParsing(struct)
  BY DEF ParserMetaLike
<1>4. /\ struct.id = ParseId(IdOf(f, uuid)) /\ struct.createdAt = Right(f.createdAt)
      /\ struct.updatedAt = Right(f.updatedAt)
  OBVIOUS
<1> HIDE DEF struct
<1>5. StructSummarizerParsing(struct) =
        IF Failing(struct) = {} THEN Right([k \in MetaNames |-> struct[k].value]) ELSE Left(Summary(struct))
  BY <1>1, <1>2, SummaryIsComplete
<1>6. Failing(struct) = {} <=> ParseId(IdOf(f, uuid)).ok
  BY <1>1, <1>4 DEF Failing, MetaNames, Right
<1>7. ParseId(IdOf(f, uuid)).ok => ParseId(IdOf(f, uuid)).value = IdOf(f, uuid)
  BY DEF ParseId, FromPredicate, Left, Right
<1>8. CASE Failing(struct) = {}
  <2>1. ParserMetaLike(f, uuid) = Right([k \in MetaNames |-> struct[k].value])
    BY <1>3, <1>5, <1>8
  <2>2. /\ ParserMetaLike(f, uuid).ok
        /\ ParserMetaLike(f, uuid).value = [k \in MetaNames |-> struct[k].value]
    BY <2>1 DEF Right
  <2> QED
    BY <1>4, <1>6, <1>7, <1>8, <2>2 DEF MetaNames, Right
<1>9. CASE Failing(struct) # {}
  <2>1. ParserMetaLike(f, uuid) = Left(Summary(struct))
    BY <1>3, <1>5, <1>9
  <2> QED
    BY <1>6, <1>9, <2>1 DEF Left
<1> QED
  BY <1>8, <1>9

LEMMA ConstructIs ==
  ASSUME NEW f, NEW uuid
  PROVE  LET r == Construct(f, uuid)
         IN  /\ r.ok => /\ IsMetaLike(f) /\ ParseId(IdOf(f, uuid)).ok
                        /\ \A k \in FieldNames : Fields(f)[k].ok
                        /\ r.value = [_tag |-> "account", id |-> IdOf(f, uuid), createdAt |-> f.createdAt,
                                      updatedAt |-> f.updatedAt,
                                      props |-> [k \in FieldNames |-> Fields(f)[k].value]]
             /\ ~ r.ok /\ IsMetaLike(f) /\ ParseId(IdOf(f, uuid)).ok =>
                  /\ r = Left(Summary(Fields(f)))
                  /\ \E k \in FieldNames : ~ Fields(f)[k].ok
<1> DEFINE meta == ParserMetaLike(f, uuid)
           props == StructSummarizerParsing(Fields(f))
           r == Construct(f, uuid)
<1>1. r = IF ~ meta.ok THEN meta
          ELSE IF ~ props.ok THEN props
          ELSE Right([_tag |-> "account", id |-> meta.value.id, createdAt |-> meta.value.createdAt,
                      updatedAt |-> meta.value.updatedAt, props |-> props.value])
  BY DEF Construct
<1>2. ~ IsMetaLike(f) => ~ meta.ok
  BY LeftIs DEF ParserMetaLike
<1>3. IsMetaLike(f) => /\ meta.ok <=> ParseId(IdOf(f, uuid)).ok
                       /\ meta.ok => /\ meta.value.id = IdOf(f, uuid)
                                     /\ meta.value.createdAt = f.createdAt
                                     /\ meta.value.updatedAt = f.updatedAt
  BY MetaIs
<1>4. props = IF \A k \in FieldNames : Fields(f)[k].ok THEN Right([k \in FieldNames |-> Fields(f)[k].value])
              ELSE Left(Summary(Fields(f)))
  BY FieldsAre
<1> HIDE DEF meta, props, r
<1>5. CASE ~ meta.ok
  <2>1. ~ r.ok
    BY <1>1, <1>5
  <2> QED
    BY <1>3, <1>5, <2>1 DEF r
<1>6. CASE meta.ok /\ ~ props.ok
  <2>1. r = props /\ ~ r.ok
    BY <1>1, <1>6
  <2>2. props = Left(Summary(Fields(f))) /\ \E k \in FieldNames : ~ Fields(f)[k].ok
    BY <1>4, <1>6, RightIs
  <2> QED
    BY <2>1, <2>2 DEF r
<1>7. CASE meta.ok /\ props.ok
  <2>1. (\A k \in FieldNames : Fields(f)[k].ok) /\ props = Right([k \in FieldNames |-> Fields(f)[k].value])
    BY <1>4, <1>7, LeftIs
  <2>2. props.value = [k \in FieldNames |-> Fields(f)[k].value]
    BY <2>1, RightIs
  <2>3. r = Right([_tag |-> "account", id |-> IdOf(f, uuid), createdAt |-> f.createdAt,
                   updatedAt |-> f.updatedAt, props |-> [k \in FieldNames |-> Fields(f)[k].value]])
    BY <1>1, <1>2, <1>3, <1>7, <2>2
  <2>4. /\ r.ok
        /\ r.value = [_tag |-> "account", id |-> IdOf(f, uuid), createdAt |-> f.createdAt,
                      updatedAt |-> f.updatedAt, props |-> [k \in FieldNames |-> Fields(f)[k].value]]
    BY <2>3, RightIs
  <2> QED
    BY <1>2, <1>3, <1>7, <2>1, <2>4 DEF r
<1> QED
  BY <1>5, <1>6, <1>7

LEMMA ConstructMakes ==
  ASSUME NEW f, f.tags \in TagProps, NEW uuid, Construct(f, uuid).ok
  PROVE  LET e == Construct(f, uuid).value
         IN  /\ IsEntity(e) /\ e.id = IdOf(f, uuid)
             /\ e.createdAt = f.createdAt /\ e.updatedAt = f.updatedAt
             /\ e.props.name = Fields(f).name.value /\ e.props.balance = Fields(f).balance.value
             /\ e.props.phone = Fields(f).phone.value /\ e.props.photo = Fields(f).photo.value
             /\ e.props.tags = IF IsArray(f.tags) THEN f.tags ELSE Array(<<>>)
<1> DEFINE e == Construct(f, uuid).value
           p == [k \in FieldNames |-> Fields(f)[k].value]
<1>1. /\ IsMetaLike(f) /\ ParseId(IdOf(f, uuid)).ok
      /\ \A k \in FieldNames : Fields(f)[k].ok
      /\ e = [_tag |-> "account", id |-> IdOf(f, uuid), createdAt |-> f.createdAt,
              updatedAt |-> f.updatedAt, props |-> p]
  BY ConstructIs
<1>2. /\ Fields(f).name.ok /\ Fields(f).balance.ok /\ Fields(f).phone.ok /\ Fields(f).photo.ok
      /\ Fields(f).tags.ok
  BY <1>1 DEF FieldNames
<1>3. /\ p.name = Fields(f).name.value /\ p.balance = Fields(f).balance.value
      /\ p.phone = Fields(f).phone.value /\ p.photo = Fields(f).photo.value
      /\ p.tags = Fields(f).tags.value /\ p = [k \in FieldNames |-> p[k]]
  BY DEF FieldNames
<1>4. /\ Fields(f).name = Right(f.name) /\ Fields(f).balance = Right([_tag |-> "Money", props |-> f.balance])
      /\ Fields(f).phone = Right([_tag |-> "phone", props |-> f.phone])
      /\ Fields(f).photo = Right([_tag |-> "File", props |-> f.photo])
  BY <1>2, FieldsKeep
<1>5. /\ p.name = f.name /\ p.balance = [_tag |-> "Money", props |-> f.balance]
      /\ p.phone = [_tag |-> "phone", props |-> f.phone] /\ p.photo = [_tag |-> "File", props |-> f.photo]
  BY <1>3, <1>4, RightIs
<1>6. /\ Unpack(p.balance) = f.balance /\ Unpack(p.phone) = f.phone /\ Unpack(p.photo) = f.photo
  BY <1>5 DEF Unpack
<1>7. /\ ParseNonEmptyString(p.name) = Right(p.name) /\ ParseMoney(Unpack(p.balance)) = Right(p.balance)
      /\ ParseWithKycPrim(ParsePhoneNumber(Unpack(p.phone).number), "phone", Unpack(p.phone)) = Right(p.phone)
      /\ ParseFile(Unpack(p.photo)) = Right(p.photo)
  <2>1. /\ Fields(f).name = ParseNonEmptyString(f.name) /\ Fields(f).balance = ParseMoney(f.balance)
        /\ Fields(f).phone = ParseWithKycPrim(ParsePhoneNumber(f.phone.number), "phone", f.phone)
        /\ Fields(f).photo = ParseFile(f.photo)
    BY DEF Fields
  <2> HIDE DEF p
  <2> QED
    BY <1>4, <1>5, <1>6, <2>1
<1>8. p.tags = IF IsArray(f.tags) THEN f.tags ELSE Array(<<>>)
  <2>1. Fields(f).tags = ParseTags(f.tags)
    BY DEF Fields
  <2>2. ParseTags(f.tags) = Right(IF IsArray(f.tags) THEN f.tags ELSE Array(<<>>))
    BY <1>2, <2>1, ParseTagsIs
  <2> QED
    BY <1>3, <2>1, <2>2, RightIs
<1>9. p.tags \in TagProps
  <2>1. <<>> \in TagLists
    <3>1. Len(<<>>) <= MaxIndex + 1
      BY ParsingAssumption
    <3>2. <<>> \in Seq(Tags)
      OBVIOUS
    <3> QED
      BY <3>1, <3>2, TagListsAre
  <2> QED
    BY <1>8, <2>1 DEF TagProps, Array
<1> HIDE DEF p
<1>10. IsProps(p)
  BY <1>3, <1>7, <1>9 DEF IsProps, TagProps
<1>11. /\ e.id = IdOf(f, uuid) /\ e.createdAt = f.createdAt /\ e.updatedAt = f.updatedAt /\ e.props = p
       /\ e = [_tag |-> "account", id |-> e.id, createdAt |-> e.createdAt, updatedAt |-> e.updatedAt,
               props |-> e.props]
  BY <1>1
<1> HIDE DEF e
<1>12. ParseId(e.id) = Right(e.id)
  BY <1>1, <1>11 DEF ParseId, FromPredicate, Left, Right
<1>13. IsEntity(e)
  BY <1>1, <1>10, <1>11, <1>12 DEF IsEntity, IsMetaLike
<1> QED
  BY <1>3, <1>8, <1>11, <1>13 DEF e

\* A snapshot is a form of which no field but the tags can be refused, and which
\* has the same fields.
LEMMA SnapshotIs ==
  ASSUME NEW e, IsEntity(e)
  PROVE  LET f == Unpacked(GetSnapshot(e))
         IN  /\ f.tags = e.props.tags /\ f.tags \in TagProps /\ f.id = e.id
             /\ f.createdAt = e.createdAt /\ f.updatedAt = e.createdAt
             /\ IsMetaLike(f) /\ ParseId(f.id).ok
             /\ Fields(f) = [name |-> Right(e.props.name), balance |-> Right(e.props.balance),
                             phone |-> Right(e.props.phone), photo |-> Right(e.props.photo),
                             tags |-> ParseTags(e.props.tags)]
<1> DEFINE p == e.props
           s == GetSnapshot(e)
           f == Unpacked(s)
<1>1. IsProps(p)
  BY DEF IsEntity
<1>2. DOMAIN s = FieldNames \cup MetaNames
  BY <1>1 DEF GetSnapshot, Spread, IsProps, FieldNames, MetaNames
<1>3. /\ s.name = p.name /\ s.balance = p.balance /\ s.phone = p.phone /\ s.photo = p.photo
      /\ s.tags = p.tags /\ s.id = e.id /\ s.createdAt = e.createdAt /\ s.updatedAt = e.createdAt
  BY <1>1 DEF GetSnapshot, Spread, IsProps, FieldNames
<1> HIDE DEF s
<1>4. /\ f.name = p.name /\ f.balance = Unpack(p.balance) /\ f.phone = Unpack(p.phone)
      /\ f.photo = Unpack(p.photo) /\ f.tags = p.tags /\ f.id = e.id
      /\ f.createdAt = e.createdAt /\ f.updatedAt = e.createdAt
  BY <1>2, <1>3 DEF Unpacked, FieldNames, MetaNames
<1> HIDE DEF f
<1>5. Fields(f) = [name |-> Right(p.name), balance |-> Right(p.balance),
                   phone |-> Right(p.phone), photo |-> Right(p.photo), tags |-> ParseTags(p.tags)]
  BY <1>1, <1>4 DEF Fields, IsProps
<1>6. IsMetaLike(f) /\ ParseId(f.id).ok
  <2>1. ParseId(f.id).ok
    BY <1>4, RightIs DEF IsEntity
  <2>2. IsString(f.id)
    BY <2>1 DEF ParseId, FromPredicate, Left
  <2> QED
    BY <1>4, <2>1, <2>2 DEF IsMetaLike, IsEntity
<1>7. f.tags \in TagProps
  BY <1>1, <1>4 DEF IsProps, TagProps
<1> QED
  BY <1>4, <1>5, <1>6, <1>7 DEF f, s

-----------------------------------------------------------------------------
(* The invariant holds.                                                    *)

LEMMA OfIs ==
  ASSUME NEW state, NEW events
  PROVE  /\ Of(state, events).state = state /\ Of(state, events).events = events
         /\ Of(state, events) = Of(Of(state, events).state, Of(state, events).events)
BY DEF Of

LEMMA UuidsAre ==
  /\ Len(Uuids) \in Nat /\ DOMAIN Uuids = 1 .. Len(Uuids)
  /\ \A i \in 1 .. Len(Uuids) : Uuids[i] # ""
<1>1. Uuids \in Seq(STRING \ {""})
  BY Zenon, AggregateAssumption
<1>2. /\ Len(Uuids) \in Nat /\ DOMAIN Uuids = 1 .. Len(Uuids)
      /\ \A i \in 1 .. Len(Uuids) : Uuids[i] \in STRING \ {""}
  <2> DEFINE Ids == STRING \ {""}
  <2>1. Uuids \in Seq(Ids)
    BY <1>1
  <2> HIDE DEF Ids
  <2>2. /\ Len(Uuids) \in Nat /\ DOMAIN Uuids = 1 .. Len(Uuids)
        /\ \A i \in 1 .. Len(Uuids) : Uuids[i] \in Ids
    BY <2>1
  <2> QED
    BY <2>2 DEF Ids
<1> QED
  BY <1>2

LEMMA InitInv ==
  Init => Inv
<1> SUFFICES ASSUME Init PROVE Inv
  OBVIOUS
<1>1. Len(Uuids) \in Nat /\ MaxCommands \in Nat
  BY AggregateAssumption, UuidsAre
<1>2. ~ Live /\ stored = Absent
  BY DEF Init, Live
<1>3. 0 \in 0 .. Len(Uuids) /\ 0 \in 0 .. MaxCommands
  BY <1>1
<1>4. TypeOK
  BY <1>2, <1>3 DEF Init, TypeOK
<1>5. Stays
  BY <1>2 DEF Stays
<1> QED
  BY <1>4, <1>5 DEF Inv

\* The next id is one that a parser takes, and none that was generated before.
LEMMA NextUuidIs ==
  ASSUME uuids \in Nat, uuids < Len(Uuids)
  PROVE  ParseId(NextUuid).ok
<1>0. Len(Uuids) \in Nat
  BY UuidsAre
<1>1. uuids + 1 \in 1 .. Len(Uuids)
  BY <1>0
<1>2. Uuids[uuids + 1] # ""
  BY <1>1, UuidsAre
<1>3. NextUuid.type = "string" /\ NextUuid.is = Uuids[uuids + 1]
  BY DEF NextUuid, Raw
<1> QED
  BY <1>2, <1>3 DEF ParseId, IsString, FromPredicate, Right

\* A command.
LEMMA PerformInv ==
  ASSUME Inv, NEW r, IsCommand(behaviour.state, r), Perform(r), tainted' \in BOOLEAN
  PROVE  Inv'
<1>1. /\ Live /\ commands < MaxCommands /\ commands' = commands + 1 /\ place' = place
      /\ UNCHANGED <<form, autoGenId, place, entity, sent, stored, uuids, saved>>
  BY DEF Perform
<1>2. Live' = Live /\ place # "form"
  BY <1>1 DEF Live
<1>3. commands \in 0 .. MaxCommands /\ MaxCommands \in Nat
  BY AggregateAssumption DEF Inv, TypeOK
<1>4. commands' \in 0 .. MaxCommands /\ commands' # 0
  BY <1>1, <1>3
<1>5. /\ behaviour = Of(behaviour.state, behaviour.events) /\ behaviour.events \in Seq(Ops)
      /\ IsEntity(entity) /\ IsEntity(behaviour.state)
  BY <1>1 DEF Inv, TypeOK
<1>6. /\ behaviour' = Of(behaviour'.state, behaviour'.events) /\ behaviour'.events \in Seq(Ops)
      /\ IsEntity(behaviour'.state) /\ behaviour'.state.id = behaviour.state.id
  <2>1. CASE r.ok
    <3>1. PICK f, event : /\ r.value = Of(f, <<event>>) /\ event \in Ops
                          /\ IsEntity(f) /\ f.id = behaviour.state.id
      BY <2>1 DEF IsCommand
    <3>2. behaviour' = Of(f, <<event>> \o behaviour.events)
      BY <2>1, <3>1, OfIs DEF Perform, Chain
    <3>3. <<event>> \o behaviour.events \in Seq(Ops)
      BY <1>5, <3>1
    <3> QED
      BY <3>1, <3>2, <3>3, OfIs
  <2>2. CASE ~ r.ok
    BY <1>5, <2>2 DEF Perform
  <2> QED
    BY <2>1, <2>2
<1>7. TypeOK'
  BY <1>1, <1>2, <1>4, <1>5, <1>6 DEF Inv, TypeOK
<1>8. Stays'
  <2>2. IsKnown(entity)' /\ IsKnown(behaviour.state)'
    BY <1>1, <1>4, <1>6 DEF Inv, Stays, IsKnown
  <2>3. stored # Absent => stored = GetSnapshot(saved) /\ IsEntity(saved) /\ IsKnown(saved)
    BY DEF Inv, Stays
  <2>4. IsKnown(saved) => IsKnown(saved)'
    BY <1>1, <1>4 DEF IsKnown
  <2> QED
    BY <1>1, <1>2, <2>2, <2>3, <2>4 DEF Stays
<1> QED
  BY <1>7, <1>8 DEF Inv

\* The factory, of a form or of a snapshot.
LEMMA MadeInv ==
  ASSUME Inv, NEW f, f.tags \in TagProps,
         commands = 0 => f.tags = form.tags,
         NEW whenRefused \in {"refused", "lost"}, NEW whenMade \in {"live", "reloaded"},
         Made(Construct(f, NextUuid), whenRefused, whenMade),
         UNCHANGED <<form, autoGenId, stored, commands, saved>>
  PROVE  Inv'
<1> DEFINE r == Construct(f, NextUuid)
<1> HIDE DEF r
<1>1. /\ uuids < Len(Uuids) /\ uuids' = uuids + 1 /\ uuids \in 0 .. Len(Uuids) /\ Len(Uuids) \in Nat
      /\ place' = IF r.ok THEN whenMade ELSE whenRefused
      /\ r.ok => /\ entity' = r.value /\ behaviour' = Of(r.value, <<>>)
                 /\ tainted' = (tainted \/ HasEqualTags(r.value.props.tags))
      /\ ~ r.ok => UNCHANGED tainted
  BY UuidsAre DEF Inv, TypeOK, Made, r
<1>2. uuids' \in 0 .. Len(Uuids) /\ uuids' \in 1 .. uuids' /\ \A j \in 1 .. uuids : j \in 1 .. uuids'
  BY <1>1
<1>3. Live' <=> r.ok
  BY <1>1 DEF Live
<1>4. tainted' \in BOOLEAN
  BY <1>1 DEF Inv, TypeOK, HasEqualTags
<1>5. form.tags = Array(form.tags.items)
  BY AggregateAssumption DEF Inv, TypeOK
<1>6. ASSUME r.ok
      PROVE  /\ IsEntity(entity') /\ behaviour' = Of(entity', <<>>) /\ behaviour'.state = entity'
             /\ behaviour'.events = <<>> /\ IsKnown(entity)'
  <2>1. /\ IsEntity(r.value) /\ r.value.id = IdOf(f, NextUuid)
        /\ r.value.props.tags = IF IsArray(f.tags) THEN f.tags ELSE Array(<<>>)
    BY <1>6, ConstructMakes DEF r
  <2>2. entity' = r.value /\ behaviour' = Of(r.value, <<>>)
    BY <1>1, <1>6
  <2>4. commands' = 0 => entity'.props.tags = form.tags
    BY <1>5, <2>1, <2>2 DEF IsArray, Array
  <2>5. IsKnown(entity)'
    BY <2>4 DEF IsKnown
  <2> QED
    BY <2>1, <2>2, <2>5, OfIs
<1>7. TypeOK'
  <2>1. <<>> \in Seq(Ops)
    OBVIOUS
  <2>2. place' # "form" /\ place' \in {"form", "refused", "live", "reloaded", "lost"}
    BY <1>1
  <2>3. Live' => /\ behaviour' = Of(behaviour'.state, behaviour'.events) /\ behaviour'.events \in Seq(Ops)
                 /\ IsEntity(entity') /\ IsEntity(behaviour'.state)
    BY <1>3, <1>6, <2>1
  <2> QED
    BY <1>2, <1>4, <2>2, <2>3 DEF Inv, TypeOK
<1>8. Stays'
  <2>1. place' # "form"
    BY <1>1
  <2>2. Live' => IsKnown(entity)' /\ IsKnown(behaviour.state)'
    BY <1>3, <1>6 DEF IsKnown
  <2>3. stored # Absent => stored = GetSnapshot(saved) /\ IsEntity(saved) /\ IsKnown(saved)
    BY DEF Inv, Stays
  <2>4. IsKnown(saved) => IsKnown(saved)'
    BY <1>2 DEF IsKnown
  <2> QED
    BY <2>1, <2>2, <2>3, <2>4 DEF Stays
<1> QED
  BY <1>7, <1>8 DEF Inv

LEMMA FormTags ==
  ASSUME Inv
  PROVE  form.tags = Array(form.tags.items) /\ form.tags \in TagProps /\ IsArray(form.tags)
<1>1. form.tags = Array(form.tags.items) /\ form.tags.items \in TagLists
  BY AggregateAssumption DEF Inv, TypeOK
<1>2. \A items : Array(items).is = "array"
  BY DEF Array
<1>3. \A items \in TagLists : Array(items) \in TagProps
  BY DEF Array, TagProps
<1> QED
  BY <1>1, <1>2, <1>3 DEF IsArray

LEMMA MarkedIs ==
  ASSUME NEW e, IsEntity(e)
  PROVE  LET f == [e EXCEPT !.updatedAt = "updated"]
         IN  IsEntity(f) /\ f.id = e.id /\ f.props = e.props
<1> DEFINE f == [e EXCEPT !.updatedAt = "updated"]
<1>1. /\ f.id = e.id /\ f.props = e.props /\ f.createdAt = e.createdAt /\ f.updatedAt = "updated"
      /\ f = [_tag |-> "account", id |-> f.id, createdAt |-> f.createdAt, updatedAt |-> f.updatedAt,
              props |-> f.props]
  BY DEF IsEntity
<1> HIDE DEF f
<1>2. IsEntity(f)
  BY <1>1 DEF IsEntity, Times
<1> QED
  BY <1>1, <1>2 DEF f

LEMMA SaveInv ==
  ASSUME Inv, Save
  PROVE  Inv'
<1>1. Live /\ Live' /\ stored' = GetSnapshot(entity) /\ saved' = entity /\ place' = "live"
  BY DEF Save, Live
<1>2. /\ IsEntity(entity) /\ IsEntity(behaviour.state) /\ IsKnown(entity) /\ IsKnown(behaviour.state)
      /\ behaviour = Of(behaviour.state, behaviour.events) /\ behaviour.events \in Seq(Ops)
  BY <1>1 DEF Inv, TypeOK, Stays
<1>3. TypeOK'
  BY <1>1, <1>2 DEF Inv, TypeOK, Save
<1>4. IsKnown(entity)' /\ IsKnown(behaviour.state)' /\ IsKnown(saved)'
  BY <1>1, <1>2 DEF IsKnown, Save
<1>5. Stays'
  BY <1>1, <1>2, <1>4 DEF Stays
<1> QED
  BY <1>3, <1>5 DEF Inv

LEMMA MarkUpdateInv ==
  ASSUME Inv, MarkUpdate
  PROVE  Inv'
<1>1. /\ Live /\ Live' = Live /\ place' = place
      /\ behaviour' = Of([behaviour.state EXCEPT !.updatedAt = "updated"], behaviour.events)
  BY DEF MarkUpdate, Live
<1>2. /\ IsEntity(entity) /\ IsEntity(behaviour.state) /\ IsKnown(entity) /\ IsKnown(behaviour.state)
      /\ behaviour.events \in Seq(Ops)
  BY <1>1 DEF Inv, TypeOK, Stays
<1>3. /\ behaviour' = Of(behaviour'.state, behaviour'.events) /\ behaviour'.events = behaviour.events
      /\ IsEntity(behaviour'.state)
      /\ behaviour'.state.id = behaviour.state.id /\ behaviour'.state.props = behaviour.state.props
  <2> DEFINE f == [behaviour.state EXCEPT !.updatedAt = "updated"]
  <2>1. IsEntity(f) /\ f.id = behaviour.state.id /\ f.props = behaviour.state.props
    BY <1>2, MarkedIs
  <2>2. behaviour' = Of(f, behaviour.events)
    BY <1>1
  <2> HIDE DEF f
  <2> QED
    BY <2>1, <2>2, OfIs
<1>4. TypeOK'
  BY <1>1, <1>2, <1>3 DEF Inv, TypeOK, MarkUpdate
<1>5. IsKnown(entity)' /\ IsKnown(behaviour.state)' /\ (IsKnown(saved) => IsKnown(saved)')
  BY <1>2, <1>3 DEF IsKnown, MarkUpdate
<1>6. Stays'
  BY <1>1, <1>5 DEF Inv, Stays, MarkUpdate
<1> QED
  BY <1>4, <1>6 DEF Inv

LEMMA RunInv ==
  ASSUME Inv, Run
  PROVE  Inv'
<1>1. /\ Live /\ behaviour' = Of(entity', <<>>)
      /\ \/ entity' = behaviour.state /\ place' = "live"
         \/ entity' = entity /\ place' = place
      /\ UNCHANGED <<form, autoGenId, stored, uuids, commands, saved, tainted>>
  BY DEF Run
<1>2. Live' /\ place \in {"live", "reloaded"} /\ place' \in {"live", "reloaded"}
  BY <1>1 DEF Live
<1>3. IsEntity(entity) /\ IsEntity(behaviour.state) /\ IsKnown(entity) /\ IsKnown(behaviour.state)
  BY <1>1 DEF Inv, TypeOK, Stays
<1>4. IsEntity(entity') /\ IsKnown(entity)'
  BY <1>1, <1>3 DEF IsKnown
<1>5. /\ behaviour' = Of(behaviour'.state, behaviour'.events) /\ behaviour'.events = <<>>
      /\ behaviour'.state = entity'
  BY <1>1, OfIs
<1>6. <<>> \in Seq(Ops)
  OBVIOUS
<1>7. TypeOK'
  BY <1>1, <1>2, <1>4, <1>5, <1>6 DEF Inv, TypeOK
<1>8. IsKnown(behaviour.state)' /\ (IsKnown(saved) => IsKnown(saved)')
  BY <1>1, <1>4, <1>5 DEF IsKnown
<1>9. Stays'
  BY <1>1, <1>2, <1>4, <1>5, <1>8 DEF Inv, Stays
<1> QED
  BY <1>7, <1>9 DEF Inv

LEMMA ReloadTags ==
  ASSUME Inv, stored # Absent
  PROVE  /\ Unpacked(stored).tags \in TagProps /\ Unpacked(stored).tags = saved.props.tags
         /\ commands = 0 => Unpacked(stored).tags = form.tags
<1>1. stored = GetSnapshot(saved) /\ IsEntity(saved) /\ IsKnown(saved)
  BY DEF Inv, Stays
<1> QED
  BY <1>1, SnapshotIs DEF IsKnown

\* Every command answers what a command may, and only the reducer brings equal
\* tags.
LEMMA CommandIs ==
  ASSUME Inv, NEW r,
         \/ \E v \in Names : Live /\ r = Setter(behaviour.state, v)
         \/ \E attribute \in {"tags", "name"}, t \in Tags : Live /\ r = Adder(behaviour.state, attribute, t)
         \/ \E attribute \in {"tags", "name"}, t \in Tags : Live /\ r = Remover(behaviour.state, attribute, t)
         \/ \E to \in Retags : Live /\ r = AsReducer(behaviour.state, to)
  PROVE  IsCommand(behaviour.state, r)
<1>1. IsEntity(behaviour.state)
  BY DEF Inv, TypeOK
<1> QED
  BY <1>1, SetterIs, AdderIs, RemoverIs, AsReducerIs

LEMMA NextInv ==
  ASSUME Inv, [Next]_vars
  PROVE  Inv'
<1>1. CASE New
  <2>1. place = "form" /\ Made(Construct(form, NextUuid), "refused", "live")
        /\ UNCHANGED <<form, autoGenId, stored, commands, saved>>
    BY <1>1 DEF New
  <2> QED
    BY <2>1, FormTags, MadeInv
<1>2. CASE \E v \in Names : SetName(v)
  <2>1. PICK v \in Names : SetName(v)
    BY <1>2
  <2>2. Live /\ Perform(Setter(behaviour.state, v)) /\ tainted' \in BOOLEAN
    BY <2>1 DEF SetName, Inv, TypeOK
  <2> QED
    BY <2>2, CommandIs, PerformInv
<1>3. CASE \E attribute \in {"tags", "name"}, t \in Tags : AddTo(attribute, t)
  <2>1. PICK attribute \in {"tags", "name"}, t \in Tags : AddTo(attribute, t)
    BY <1>3
  <2>2. Live /\ Perform(Adder(behaviour.state, attribute, t)) /\ tainted' \in BOOLEAN
    BY <2>1 DEF AddTo, Inv, TypeOK
  <2>3. IsCommand(behaviour.state, Adder(behaviour.state, attribute, t))
    BY <2>2, CommandIs
  <2> QED
    BY <2>2, <2>3, PerformInv
<1>4. CASE \E attribute \in {"tags", "name"}, t \in Tags : RemoveFrom(attribute, t)
  <2>1. PICK attribute \in {"tags", "name"}, t \in Tags : RemoveFrom(attribute, t)
    BY <1>4
  <2>2. Live /\ Perform(Remover(behaviour.state, attribute, t)) /\ tainted' \in BOOLEAN
    BY <2>1 DEF RemoveFrom, Inv, TypeOK
  <2>3. IsCommand(behaviour.state, Remover(behaviour.state, attribute, t))
    BY <2>2, CommandIs
  <2> QED
    BY <2>2, <2>3, PerformInv
<1>5. CASE \E to \in Retags : Retag(to)
  <2>1. PICK to \in Retags : Retag(to)
    BY <1>5
  <2>2. Live /\ Perform(AsReducer(behaviour.state, to)) /\ tainted' \in BOOLEAN
    BY <2>1 DEF Retag, Inv, TypeOK, HasEqualTags
  <2>3. IsCommand(behaviour.state, AsReducer(behaviour.state, to))
    BY <2>2, CommandIs
  <2> QED
    BY <2>2, <2>3, PerformInv
<1>6. CASE Reload
  <2>1. /\ stored # Absent /\ Made(Construct(Unpacked(stored), NextUuid), "lost", "reloaded")
        /\ UNCHANGED <<form, autoGenId, stored, commands, saved>>
    BY <1>6 DEF Reload
  <2>2. Unpacked(stored).tags \in TagProps /\ (commands = 0 => Unpacked(stored).tags = form.tags)
    BY <2>1, ReloadTags
  <2> QED
    BY <2>1, <2>2, MadeInv
<1>7. CASE UNCHANGED vars
  BY <1>7 DEF vars, Inv, TypeOK, Stays, Live, IsKnown
<1> QED
  BY <1>1, <1>2, <1>3, <1>4, <1>5, <1>6, <1>7, MarkUpdateInv, RunInv, SaveInv DEF Next

\* The types of the variables, and what the factory, the commands and the store
\* hold on to.
THEOREM AggregateInv ==
  Spec => []Inv
<1> QED
  BY InitInv, NextInv, PTL DEF Spec

-----------------------------------------------------------------------------
(* No two equal tags.                                                      *)

LEMMA TagsStayDistinctStep ==
  ASSUME Inv, TagsStayDistinct, [Next]_vars
  PROVE  TagsStayDistinct'
<1>1. Live => IsEntity(behaviour.state)
  BY DEF Inv, TypeOK
<1>2. ASSUME NEW r, Live, Perform(r), tainted' = tainted,
             r.ok => \E f, events : r.value = Of(f, events)
                       /\ (HasEqualTags(f.props.tags) => HasEqualTags(behaviour.state.props.tags))
      PROVE  TagsStayDistinct'
  <2>1. Live' = Live /\ entity' = entity
    BY <1>2 DEF Perform, Live
  <2>2. CASE r.ok
    <3>1. PICK f, events : r.value = Of(f, events)
                 /\ (HasEqualTags(f.props.tags) => HasEqualTags(behaviour.state.props.tags))
      BY <1>2, <2>2
    <3>2. behaviour'.state = f
      BY <1>2, <2>2, <3>1, OfIs DEF Perform, Chain
    <3> QED
      BY <1>2, <2>1, <3>1, <3>2 DEF TagsStayDistinct
  <2>3. CASE ~ r.ok
    <3>1. behaviour' = behaviour
      BY <1>2, <2>3 DEF Perform
    <3> QED
      BY <1>2, <2>1, <3>1 DEF TagsStayDistinct
  <2> QED
    BY <2>2, <2>3
<1>3. ASSUME NEW r, NEW whenRefused \in {"refused", "lost"}, NEW whenMade \in {"live", "reloaded"},
             Made(r, whenRefused, whenMade)
      PROVE  TagsStayDistinct'
  <2>1. CASE r.ok
    <3>1. entity' = r.value /\ behaviour'.state = r.value /\ tainted' = (tainted \/ HasEqualTags(r.value.props.tags))
      BY <1>3, <2>1, OfIs DEF Made
    <3> QED
      BY <3>1 DEF TagsStayDistinct
  <2>2. CASE ~ r.ok
    <3>1. ~ Live'
      BY <1>3, <2>2 DEF Made, Live
    <3> QED
      BY <3>1 DEF TagsStayDistinct
  <2> QED
    BY <2>1, <2>2
<1>4. CASE New
  BY <1>3, <1>4 DEF New
<1>5. CASE Reload
  BY <1>3, <1>5 DEF Reload
<1>6. CASE \E v \in Names : SetName(v)
  <2>1. PICK v \in Names : SetName(v)
    BY <1>6
  <2> DEFINE r == Setter(behaviour.state, v)
  <2>2. Live /\ Perform(r) /\ tainted' = tainted
    BY <2>1 DEF SetName
  <2>3. IsCommand(behaviour.state, r) /\ (r.ok => r.value.state.props.tags = behaviour.state.props.tags)
    BY <1>1, <2>2, SetterIs
  <2> HIDE DEF r
  <2>4. r.ok => \E f, events : r.value = Of(f, events)
                       /\ (HasEqualTags(f.props.tags) => HasEqualTags(behaviour.state.props.tags))
    <3> SUFFICES ASSUME r.ok PROVE \E f, events : r.value = Of(f, events)
                       /\ (HasEqualTags(f.props.tags) => HasEqualTags(behaviour.state.props.tags))
      OBVIOUS
    <3>1. PICK f, event : r.value = Of(f, <<event>>)
      BY <2>3 DEF IsCommand
    <3>2. f.props.tags = behaviour.state.props.tags
      BY <2>3, <3>1, OfIs
    <3> QED
      BY <3>1, <3>2
  <2> QED
    BY <1>2, <2>2, <2>4
<1>7. CASE \E attribute \in {"tags", "name"}, t \in Tags : AddTo(attribute, t) \/ RemoveFrom(attribute, t)
  <2>1. PICK attribute \in {"tags", "name"}, t \in Tags : AddTo(attribute, t) \/ RemoveFrom(attribute, t)
    BY <1>7
  <2>2. PICK r : /\ Live /\ Perform(r) /\ tainted' = tainted /\ IsCommand(behaviour.state, r)
                 /\ r.ok /\ HasEqualTags(r.value.state.props.tags) => HasEqualTags(behaviour.state.props.tags)
    BY <1>1, <2>1, AdderIs, RemoverIs DEF AddTo, RemoveFrom
  <2>3. r.ok => \E f, events : r.value = Of(f, events)
                       /\ (HasEqualTags(f.props.tags) => HasEqualTags(behaviour.state.props.tags))
    <3> SUFFICES ASSUME r.ok PROVE \E f, events : r.value = Of(f, events)
                       /\ (HasEqualTags(f.props.tags) => HasEqualTags(behaviour.state.props.tags))
      OBVIOUS
    <3>1. PICK f, event : r.value = Of(f, <<event>>)
      BY <2>2 DEF IsCommand
    <3>2. r.value.state = f
      BY <3>1, OfIs
    <3> QED
      BY <2>2, <3>1, <3>2
  <2> QED
    BY <1>2, <2>2, <2>3
<1>8. CASE \E to \in Retags : Retag(to)
  <2>1. PICK to \in Retags : Retag(to)
    BY <1>8
  <2> DEFINE r == AsReducer(behaviour.state, to)
  <2>2. Live /\ Perform(r) /\ tainted' = (tainted \/ HasEqualTags(Array(to)))
    BY <2>1 DEF Retag
  <2>3. IsCommand(behaviour.state, r) /\ (r.ok => r.value.state.props.tags = Array(to))
    BY <1>1, <2>2, AsReducerIs
  <2> HIDE DEF r
  <2>4. Live' = Live /\ entity' = entity
    BY <2>2 DEF Perform, Live
  <2>5. r.ok => behaviour'.state.props.tags = Array(to)
    BY <2>2, <2>3, OfIs DEF Perform, Chain
  <2>6. ~ r.ok => behaviour' = behaviour
    BY <2>2 DEF Perform
  <2> QED
    BY <2>2, <2>4, <2>5, <2>6 DEF TagsStayDistinct
<1>9. CASE MarkUpdate
  <2>1. /\ Live /\ Live' /\ tainted' = tainted /\ entity' = entity
        /\ behaviour' = Of([behaviour.state EXCEPT !.updatedAt = "updated"], behaviour.events)
    BY <1>9 DEF MarkUpdate, Live
  <2>2. behaviour'.state.props = behaviour.state.props
    <3> DEFINE f == [behaviour.state EXCEPT !.updatedAt = "updated"]
    <3>1. f.props = behaviour.state.props
      BY <1>1, <2>1, MarkedIs
    <3> HIDE DEF f
    <3>2. behaviour' = Of(f, behaviour.events)
      BY <2>1 DEF f
    <3> QED
      BY <3>1, <3>2, OfIs
  <2> QED
    BY <2>1, <2>2 DEF TagsStayDistinct
<1>10. CASE Run
  <2>1. /\ Live /\ tainted' = tainted /\ behaviour'.state = entity'
        /\ entity' = behaviour.state \/ entity' = entity
    BY <1>10, OfIs DEF Run
  <2> QED
    BY <2>1 DEF TagsStayDistinct
<1>11. CASE Save
  BY <1>11 DEF Save, TagsStayDistinct, Live
<1>12. CASE UNCHANGED vars
  BY <1>12 DEF vars, TagsStayDistinct, Live
<1> QED
  BY <1>4, <1>5, <1>6, <1>7, <1>8, <1>9, <1>10, <1>11, <1>12 DEF Next

\* No two equal tags in an aggregate of any size after any commands, unless a
\* form or the reducer brought them.
THEOREM TagsStayDistinctHolds ==
  Spec => []TagsStayDistinct
<1>1. Init => TagsStayDistinct
  BY DEF Init, TagsStayDistinct, Live
<1> QED
  BY <1>1, AggregateInv, TagsStayDistinctStep, PTL DEF Spec

-----------------------------------------------------------------------------
(* The events are the history.                                             *)

LEMMA EventsAreTheHistoryStep ==
  ASSUME Inv, EventsAreTheHistory, [Next]_vars
  PROVE  EventsAreTheHistory'
<1>1. Live => /\ behaviour.events \in Seq(Ops) /\ IsEntity(behaviour.state)
              /\ Replay(behaviour.events, Plain(entity.props)) = Plain(behaviour.state.props)
  BY DEF Inv, TypeOK, EventsAreTheHistory
<1>2. ASSUME NEW r, Live, Perform(r), IsCommand(behaviour.state, r)
      PROVE  EventsAreTheHistory'
  <2>1. Live' = Live /\ entity' = entity /\ sent' = sent
    BY <1>2 DEF Perform, Live
  <2>2. CASE r.ok
    <3>1. PICK f, event : /\ r.value = Of(f, <<event>>) /\ event \in Ops
                          /\ Plain(f.props) = Effect(Plain(behaviour.state.props), event)
      BY <1>2, <2>2 DEF IsCommand
    <3>2. behaviour'.state = f /\ behaviour'.events = <<event>> \o behaviour.events
      <4>1. behaviour' = Of(f, <<event>> \o behaviour.events)
        BY <1>2, <2>2, <3>1, OfIs DEF Perform, Chain
      <4> QED
        BY <4>1, OfIs
    <3>3. <<event>> \in Seq(Ops) /\ behaviour.events \in Seq(Ops)
      BY <1>1, <1>2, <3>1
    <3>4. Replay(<<event>> \o behaviour.events, Plain(entity.props))
            = Replay(<<event>>, Replay(behaviour.events, Plain(entity.props)))
      <4> DEFINE newer == <<event>>
                 older == behaviour.events
                 props == Plain(entity.props)
      <4>1. newer \in Seq(Ops) /\ older \in Seq(Ops)
        BY <3>3
      <4> HIDE DEF newer, older, props
      <4>2. Replay(newer \o older, props) = Replay(newer, Replay(older, props))
        BY <4>1, ReplayBoth
      <4> QED
        BY <4>2 DEF newer, older, props
    <3>5. Replay(<<event>>, Plain(behaviour.state.props)) = Plain(f.props)
      BY <3>1, ReplayOne
    <3>6. Replay(behaviour'.events, Plain(entity'.props)) = Plain(behaviour'.state.props)
      BY <1>1, <1>2, <2>1, <3>2, <3>4, <3>5
    <3> QED
      BY <2>1, <3>6 DEF EventsAreTheHistory
  <2>3. CASE ~ r.ok
    <3>1. behaviour' = behaviour
      BY <1>2, <2>3 DEF Perform
    <3> QED
      BY <2>1, <3>1 DEF EventsAreTheHistory
  <2> QED
    BY <2>2, <2>3
<1>3. ASSUME NEW r, NEW whenRefused \in {"refused", "lost"}, NEW whenMade \in {"live", "reloaded"},
             Made(r, whenRefused, whenMade), sent' = <<>>
      PROVE  EventsAreTheHistory'
  <2>1. CASE r.ok
    <3>1. entity' = r.value /\ behaviour'.state = r.value /\ behaviour'.events = <<>>
      BY <1>3, <2>1, OfIs DEF Made
    <3>2. Replay(<<>>, Plain(r.value.props)) = Plain(r.value.props)
      BY ReplayNothing
    <3> QED
      BY <1>3, <3>1, <3>2 DEF EventsAreTheHistory
  <2>2. CASE ~ r.ok
    <3>1. ~ Live'
      BY <1>3, <2>2 DEF Made, Live
    <3> QED
      BY <1>3, <3>1 DEF EventsAreTheHistory
  <2> QED
    BY <2>1, <2>2
<1>4. CASE New
  <2>1. sent' = <<>> /\ Made(Construct(form, NextUuid), "refused", "live")
    BY <1>4 DEF New, Inv, TypeOK
  <2> QED
    BY <1>3, <2>1
<1>5. CASE Reload
  BY <1>3, <1>5 DEF Reload
<1>6. CASE \E v \in Names : SetName(v)
  <2>1. PICK v \in Names : SetName(v)
    BY <1>6
  <2>2. Live /\ Perform(Setter(behaviour.state, v)) /\ IsCommand(behaviour.state, Setter(behaviour.state, v))
    BY <1>1, <2>1, SetterIs DEF SetName
  <2> QED
    BY <1>2, <2>2
<1>7. CASE \E attribute \in {"tags", "name"}, t \in Tags : AddTo(attribute, t) \/ RemoveFrom(attribute, t)
  <2>1. PICK attribute \in {"tags", "name"}, t \in Tags : AddTo(attribute, t) \/ RemoveFrom(attribute, t)
    BY <1>7
  <2>2. PICK r : Live /\ Perform(r) /\ IsCommand(behaviour.state, r)
    BY <1>1, <2>1, AdderIs, RemoverIs DEF AddTo, RemoveFrom
  <2> QED
    BY <1>2, <2>2
<1>8. CASE \E to \in Retags : Retag(to)
  <2>1. PICK to \in Retags : Retag(to)
    BY <1>8
  <2>2. Live /\ Perform(AsReducer(behaviour.state, to)) /\ IsCommand(behaviour.state, AsReducer(behaviour.state, to))
    BY <1>1, <2>1, AsReducerIs DEF Retag
  <2> QED
    BY <1>2, <2>2
<1>9. CASE MarkUpdate
  <2> DEFINE f == [behaviour.state EXCEPT !.updatedAt = "updated"]
  <2>1. /\ Live /\ Live' /\ sent' = sent /\ entity' = entity /\ behaviour' = Of(f, behaviour.events)
    BY <1>9 DEF MarkUpdate, Live
  <2>2. f.props = behaviour.state.props
    BY <1>1, <2>1, MarkedIs
  <2> HIDE DEF f
  <2>3. behaviour'.state.props = behaviour.state.props /\ behaviour'.events = behaviour.events
    BY <2>1, <2>2, OfIs
  <2> QED
    BY <1>1, <2>1, <2>3 DEF EventsAreTheHistory
<1>10. CASE Run
  <2> DEFINE opened == [op |-> "opened", to |-> entity.props]
  <2>1. Live /\ behaviour'.state = entity' /\ behaviour'.events = <<>>
    BY <1>10, OfIs DEF Run
  <2>2. Replay(behaviour'.events, Plain(entity'.props)) = Plain(behaviour'.state.props)
    BY <2>1, ReplayNothing
  <2>3. CASE sent' = behaviour.events \o <<opened>> /\ entity' = behaviour.state
    <3>1. Effect(<<>>, opened) = Plain(entity.props)
      BY DEF Effect
    <3> HIDE DEF opened
    <3>2. behaviour.events \in Seq(Ops \cup {opened}) /\ <<opened>> \in Seq(Ops \cup {opened})
      BY <1>1, <2>1
    <3>3. Replay(behaviour.events \o <<opened>>, <<>>) = Replay(behaviour.events, Replay(<<opened>>, <<>>))
      <4> DEFINE newer == behaviour.events
                 older == <<opened>>
                 All == Ops \cup {opened}
      <4>1. newer \in Seq(All) /\ older \in Seq(All)
        BY <3>2
      <4> HIDE DEF newer, older, All
      <4>2. Replay(newer \o older, <<>>) = Replay(newer, Replay(older, <<>>))
        BY <4>1, ReplayBoth
      <4> QED
        BY <4>2 DEF newer, older
    <3>4. Replay(<<opened>>, <<>>) = Plain(entity.props)
      BY <3>1, ReplayOne
    <3>5. Replay(sent', <<>>) = Plain(entity'.props)
      BY <1>1, <2>1, <2>3, <3>3, <3>4
    <3> QED
      BY <2>2, <3>5 DEF EventsAreTheHistory
  <2>4. CASE sent' = sent /\ entity' = entity
    BY <2>2, <2>4 DEF EventsAreTheHistory
  <2>5. (sent' = behaviour.events \o <<opened>> /\ entity' = behaviour.state) \/ (sent' = sent /\ entity' = entity)
    BY <1>10 DEF Run, Dispatched, Event
  <2> QED
    BY <2>3, <2>4, <2>5
<1>11. CASE Save
  BY <1>11 DEF Save, EventsAreTheHistory, Live
<1>12. CASE UNCHANGED vars
  BY <1>12 DEF vars, EventsAreTheHistory, Live
<1> QED
  BY <1>4, <1>5, <1>6, <1>7, <1>8, <1>9, <1>10, <1>11, <1>12 DEF Next

\* The events of a behaviour, newest first, are the history of its state, and
\* those that are dispatched that of the aggregate, for any number of commands.
THEOREM EventsAreTheHistoryHolds ==
  Spec => []EventsAreTheHistory
<1>1. Init => EventsAreTheHistory
  BY DEF Init, EventsAreTheHistory, Live
<1> QED
  BY <1>1, AggregateInv, EventsAreTheHistoryStep, PTL DEF Spec

-----------------------------------------------------------------------------
(* The way through the store.                                              *)

LEMMA ReloadStep ==
  ASSUME Inv, Reload
  PROVE  ReloadKeeps'
<1> DEFINE f == Unpacked(stored)
           r == Construct(f, NextUuid)
<1>1. /\ stored # Absent /\ Made(r, "lost", "reloaded")
      /\ UNCHANGED <<form, autoGenId, stored, commands, saved>>
  BY DEF Reload
<1>2. stored = GetSnapshot(saved) /\ IsEntity(saved) /\ IsKnown(saved)
  BY <1>1 DEF Inv, Stays
<1>3. /\ f.tags = saved.props.tags /\ f.tags \in TagProps /\ f.id = saved.id
      /\ f.createdAt = saved.createdAt /\ f.updatedAt = saved.createdAt
      /\ IsMetaLike(f) /\ ParseId(f.id).ok
      /\ Fields(f) = [name |-> Right(saved.props.name), balance |-> Right(saved.props.balance),
                      phone |-> Right(saved.props.phone), photo |-> Right(saved.props.photo),
                      tags |-> ParseTags(saved.props.tags)]
  BY <1>2, SnapshotIs
<1> HIDE DEF f
<1>4. /\ Fields(f).name = Right(saved.props.name) /\ Fields(f).balance = Right(saved.props.balance)
      /\ Fields(f).phone = Right(saved.props.phone) /\ Fields(f).photo = Right(saved.props.photo)
      /\ Fields(f).tags = ParseTags(saved.props.tags)
  BY <1>3
<1>5. ParseId(NextUuid).ok
  <2>1. uuids \in Nat /\ uuids < Len(Uuids)
    BY <1>1 DEF Made, Inv, TypeOK
  <2> QED
    BY <2>1, NextUuidIs
<1>6. ParseId(IdOf(f, NextUuid)).ok
  BY <1>3, <1>5 DEF IdOf
<1>7. CASE r.ok
  <2>1. /\ IsEntity(r.value) /\ r.value.id = IdOf(f, NextUuid)
        /\ r.value.createdAt = f.createdAt /\ r.value.updatedAt = f.updatedAt
        /\ r.value.props.name = Fields(f).name.value /\ r.value.props.balance = Fields(f).balance.value
        /\ r.value.props.phone = Fields(f).phone.value /\ r.value.props.photo = Fields(f).photo.value
        /\ r.value.props.tags = IF IsArray(f.tags) THEN f.tags ELSE Array(<<>>)
    BY <1>3, <1>7, ConstructMakes
  <2>2. entity' = r.value /\ place' = "reloaded" /\ saved' = saved /\ autoGenId' = autoGenId
    BY <1>1, <1>7 DEF Made
  <2> HIDE DEF r
  <2>3. /\ entity'.props.name = saved.props.name /\ entity'.props.balance = saved.props.balance
        /\ entity'.props.phone = saved.props.phone /\ entity'.props.photo = saved.props.photo
        /\ entity'.props.tags = IF IsArray(saved.props.tags) THEN saved.props.tags ELSE Array(<<>>)
    BY <1>3, <1>4, <2>1, <2>2, RightIs
  <2>4. entity'.props = [saved.props EXCEPT !.tags = IF IsArray(@) THEN @ ELSE Array(<<>>)]
    <3>1. IsProps(entity'.props) /\ IsProps(saved.props)
      BY <1>2, <2>1, <2>2 DEF IsEntity
    <3> QED
      BY <2>3, <3>1 DEF IsProps, FieldNames
  <2>5. ~ autoGenId => IsEqual(entity', saved)
    <3>1. entity'._tag = "account" /\ saved._tag = "account"
      BY <1>2, <2>1, <2>2 DEF IsEntity
    <3>2. ~ autoGenId => entity'.id = saved.id
      BY <1>3, <2>1, <2>2 DEF IdOf
    <3> QED
      BY <3>1, <3>2 DEF IsEqual
  <2> QED
    BY <1>3, <2>1, <2>2, <2>4, <2>5 DEF ReloadKeeps, IsEqual
<1>8. CASE ~ r.ok
  <2>1. \E k \in FieldNames : ~ Fields(f)[k].ok
    BY <1>3, <1>6, <1>8, ConstructIs
  <2>2. ~ ParseTags(saved.props.tags).ok
    BY <1>4, <2>1, RightIs DEF FieldNames
  <2>3. \E i \in DOMAIN saved.props.tags.items : saved.props.tags.items[i] \in Refused
    BY <1>3, <2>2, ParseTagsIs
  <2>4. place' = "lost" /\ saved' = saved
    BY <1>1, <1>8 DEF Made
  <2> QED
    BY <2>3, <2>4 DEF ReloadKeeps
<1> QED
  BY <1>7, <1>8

LEMMA ReloadKeepsStep ==
  ASSUME Inv, ReloadKeeps, [Next]_vars
  PROVE  ReloadKeeps'
<1>1. CASE New
  BY <1>1 DEF New, Made, ReloadKeeps
<1>2. CASE UNCHANGED <<place, entity, saved, autoGenId>>
  BY <1>2 DEF ReloadKeeps, IsEqual
<1>3. ASSUME NEW r, Perform(r) PROVE UNCHANGED <<place, entity, saved, autoGenId>>
  BY <1>3 DEF Perform
<1>4. CASE \/ \E v \in Names : SetName(v)
           \/ \E attribute \in {"tags", "name"}, t \in Tags : AddTo(attribute, t) \/ RemoveFrom(attribute, t)
           \/ \E to \in Retags : Retag(to)
  BY <1>2, <1>3, <1>4 DEF SetName, AddTo, RemoveFrom, Retag
<1>5. CASE MarkUpdate
  BY <1>2, <1>5 DEF MarkUpdate
<1>6. CASE Run
  BY <1>2, <1>6 DEF Run, ReloadKeeps
<1>7. CASE Save
  BY <1>7 DEF Save, ReloadKeeps
<1>8. CASE UNCHANGED vars
  BY <1>2, <1>8 DEF vars
<1> QED
  BY <1>1, <1>4, <1>5, <1>6, <1>7, <1>8, ReloadStep DEF Next

\* What comes back from the store, whatever was saved.
THEOREM ReloadKeepsHolds ==
  Spec => []ReloadKeeps
<1>1. Init => ReloadKeeps
  BY DEF Init, ReloadKeeps
<1> QED
  BY <1>1, AggregateInv, ReloadKeepsStep, PTL DEF Spec

-----------------------------------------------------------------------------
(* What is told of a form.                                                 *)

LEMMA RefusalsStep ==
  ASSUME Inv, RefusalsNameTheFields, [Next]_vars
  PROVE  RefusalsNameTheFields'
<1>0. Inv'
  BY NextInv
<1>1. place' = "live" /\ commands' = 0 => entity'.props.tags = form'.tags
  BY <1>0 DEF Inv, Stays, IsKnown, Live
<1>2. CASE New
  <2> DEFINE r == Construct(form, NextUuid)
  <2>1. Made(r, "refused", "live") /\ UNCHANGED <<form, autoGenId>>
    BY <1>2 DEF New
  <2>2. SUFFICES ASSUME place' = "refused", IsMetaLike(form)', autoGenId \/ form.id.is # ""
                 PROVE  report' = Summary(Fields(form))
    BY <1>1, <2>1 DEF RefusalsNameTheFields
  <2>3. IsMetaLike(form)
    BY <2>1, <2>2 DEF IsMetaLike
  <2>4. ParseId(NextUuid).ok
    <3>1. uuids \in Nat /\ uuids < Len(Uuids)
      BY <2>1 DEF Made, Inv, TypeOK
    <3> QED
      BY <3>1, NextUuidIs
  <2>5. ParseId(IdOf(form, NextUuid)).ok
    <3>1. ~ autoGenId => ParseId(form.id).ok
      BY <2>2, <2>3 DEF IsMetaLike, ParseId, FromPredicate, Right
    <3> QED
      BY <2>4, <3>1 DEF IdOf
  <2>6. ~ r.ok /\ report' = r.error
    BY <2>1, <2>2 DEF Made
  <2>7. r = Left(Summary(Fields(form)))
    BY <2>3, <2>5, <2>6, ConstructIs
  <2> HIDE DEF r
  <2> QED
    BY <2>6, <2>7, LeftIs
<1>3. CASE ~ New
  <2>1. UNCHANGED <<form, autoGenId>>
    BY <1>3 DEF Next, SetName, AddTo, RemoveFrom, Retag, Perform, MarkUpdate, Run, Save, Reload, vars
  <2>2. place' = "refused" => UNCHANGED <<place, report>>
    BY <1>3 DEF Next, SetName, AddTo, RemoveFrom, Retag, Perform, MarkUpdate, Run, Save, Reload, Made, Live, vars
  <2> QED
    BY <1>1, <2>1, <2>2 DEF RefusalsNameTheFields, IsMetaLike
<1> QED
  BY <1>2, <1>3

\* A refusal names every field that failed, for a form of any size, and a form
\* that is taken keeps its tags in their order.
THEOREM RefusalsNameTheFieldsHolds ==
  Spec => []RefusalsNameTheFields
<1>1. Init => RefusalsNameTheFields
  BY DEF Init, RefusalsNameTheFields
<1> QED
  BY <1>1, AggregateInv, RefusalsStep, PTL DEF Spec
=============================================================================
