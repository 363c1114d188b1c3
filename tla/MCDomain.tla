-------------------------------- MODULE MCDomain --------------------------------
(* Instances of Aggregate for TLC. *)
EXTENDS Aggregate

Text(s) == Raw("string", s)

MCTags == {"a", "A", "b", "?"}
MCClass == ("a" :> 1) @@ ("A" :> 1) @@ ("b" :> 2) @@ ("?" :> 3)

\* Eleven tags, so that the order of indices is not that of their texts; the
\* last three are told from the others.
ManyTags == <<"a", "a", "a", "a", "a", "a", "a", "a", "a", "b", "b">>

Phone(flag, at, number) ==
  [isVerified |-> Text(flag), verifiedAt |-> at, number |-> Text(number)]

Photo(type, url, name) == [type |-> Text(type), url |-> Text(url), name |-> Text(name)]

\* Forms of which every field, and every field of a value object, fails or not.
MCForms ==
  [name : {Text("ada"), Text("a name of many words")},
   balance : [amount : {Text("7"), Text("1.5"), Raw("number", "-7")}, currency : {Text("USD"), Text("XXX")}],
   phone : {Phone("false", None, "+84912345678"), Phone("maybe", Text("never"), "+84912345678"),
            Phone("true", Text("never"), "1"), Phone("true", Text("2024-01-01"), "1")},
   photo : {Photo("0", "https://w/s.png", "a"), Photo("png", "https://w/s.png", "a"),
            Photo("png", "https://cdn/a.png", "")},
   tags : {Array(<<"a">>), Array(<<"?", "b", "?">>), Array(ManyTags)},
   createdAt : {"created", "bare"}, updatedAt : {"none"},
   id : {Text("id0"), Text(""), Raw("undefined", "")}]

MCNames == {Text("bob"), Text("")}
MCRetags == {<<>>, <<"b", "A">>, <<"a", "b", "A">>, <<"?">>}
MCUuids == <<"u1", "u2">>
=============================================================================
