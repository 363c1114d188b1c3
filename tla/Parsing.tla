-------------------------------- MODULE Parsing --------------------------------
(***************************************************************************)
(* src/model/parser.ts, the validations it works on, and the value objects *)
(* parsed with it: structSummarizerParsing puts the errors of a struct's   *)
(* fields together with a semigroup, arrayParser parses an array as the    *)
(* struct of its indices.                                                  *)
(*                                                                         *)
(* A raw value is its type and its text; what a text is (a number, its     *)
(* length) is read off the tables below.  A validation is a Right with a   *)
(* value or a Left with an error; an error is one exception, an array of   *)
(* them, or a dictionary of errors by field.  An exception is its code.    *)
(*                                                                         *)
(* The definitions called Bug... are not part of the model.                *)
(***************************************************************************)
EXTENDS Integers, Sequences, FiniteSets, SequencesExt, TLC

CONSTANT
  MaxIndex \* bound: the last index of an array

Raw(type, text) == [type |-> type, is |-> text]

\* An option is None or the raw value in it.
None == Raw("none", "")

\* The numbers among the texts.
Numeric ==
  ("7" :> [int |-> TRUE, positive |-> TRUE]) @@ ("0" :> [int |-> TRUE, positive |-> FALSE])
  @@ ("-7" :> [int |-> TRUE, positive |-> FALSE]) @@ ("1.5" :> [int |-> FALSE, positive |-> TRUE])

IsoDates == {"2024-01-01"}
TooLong == {"a name of many words"}
PhoneNumbers == {"+84912345678"}

\* The template literal drops the backslashes of its pattern: between the protocol
\* and the extension no letters but w and s.
FileUrls == {"https://w/s.png"}

Currencies == {"USD", "VND", "JPY", "EUR"}

Right(v) == [ok |-> TRUE, value |-> v]
Left(e) == [ok |-> FALSE, error |-> e]

Exception(code) == [code |-> code]
Exceptions(code) == [array |-> <<Exception(code)>>]
Dict(errors) == [dict |-> errors]

\* fromPredicate, and checkCondition on what was validated before.
FromPredicate(holds, v, code) == IF holds THEN Right(v) ELSE Left(Exception(code))

\* One record over another, as the spread of an object and Record.union make it.
Spread(a, b) == [k \in DOMAIN a \cup DOMAIN b |-> IF k \in DOMAIN b THEN b[k] ELSE a[k]]

\* sumUp: any error becomes a single exception with the code of the caller.
SumUp(validation, code) == IF validation.ok THEN validation ELSE Left(Exception(code))

-----------------------------------------------------------------------------
(* Errors by key.                                                          *)

\* The key of an error that is a dictionary already; no field has this name.
MutualKey == "*"

\* The texts of indices differ.
ASSUME ParsingAssumption ==
  /\ MaxIndex \in Nat
  /\ \A i, j \in 0 .. MaxIndex : ToString(i) = ToString(j) => i = j
  /\ \A i \in 0 .. MaxIndex : ToString(i) # MutualKey

StructErr(keyed) == IF keyed[1] = MutualKey THEN keyed[2].dict ELSE [k \in {keyed[1]} |-> keyed[2]]

\* Bug: the dictionary of the errors before is taken for the error of a field.
BugConcat(a, b) == <<MutualKey, Dict((a[1] :> a[2]) @@ (b[1] :> b[2]))>>

Concat(a, b) == <<MutualKey, Dict(Spread(StructErr(a), StructErr(b)))>>

Failing(struct) == {k \in DOMAIN struct : ~ struct[k].ok}

\* sequenceS with the validation applicative: a lone error comes without a key.
StructSummarizerParsing(struct) ==
  IF Failing(struct) = {} THEN Right([k \in DOMAIN struct |-> struct[k].value])
  ELSE LET keys == SetToSeq(Failing(struct))
           keyed == [i \in DOMAIN keys |-> <<keys[i], struct[keys[i]].error>>]
       IN  Left(FoldLeft(Concat, Head(keyed), Tail(keyed))[2])

\* parseInt of an index; Record.reduce visits the keys in this order.
StrIntOrder(i, j) == i < j

\* All items, in their order, or the errors of all that failed, of what the
\* parser of an item made of each.
ArrayParser(items) ==
  LET key == [i \in DOMAIN items |-> ToString(i - 1)]
      index(k) == CHOOSE i \in DOMAIN items : key[i] = k
      struct == [k \in {key[i] : i \in DOMAIN items} |-> items[index(k)]]
      parsed == StructSummarizerParsing(struct)
      place(n) == CHOOSE i \in DOMAIN items :
                    Cardinality({j \in DOMAIN items : StrIntOrder(j - 1, i - 1)}) = n - 1
  IN  IF ~ parsed.ok THEN parsed
      ELSE Right([n \in DOMAIN items |-> parsed.value[key[place(n)]]])

\* A none is parsed to a none, a some to what is in it.
OptionizeParser(option, parsed) == IF option = None THEN Right(None) ELSE parsed

-----------------------------------------------------------------------------
(* Primitive values.                                                       *)

IsString(v) == v.type = "string"

ParseId(v) == FromPredicate(IsString(v) /\ v.is # "", v, "INVALID_IDENTIFIER")

ParseNonEmptyString(v) ==
  FromPredicate(IsString(v) /\ v.is # "" /\ v.is \notin TooLong, v, "INVALID_NON_EMPTY_STRING_MAX_10")

ParseDate(v) ==
  FromPredicate(v.type = "date" \/ (IsString(v) /\ v.is \in IsoDates),
                Raw("date", v.is), "DATE_INVALID")

\* A number stays what it is, a string has to be an integer.
ParsePositiveNumber(v) ==
  LET number == v.is \in DOMAIN Numeric /\ Numeric[v.is].positive
  IN  FromPredicate(number /\ (v.type = "number" \/ (IsString(v) /\ Numeric[v.is].int)),
                    Raw("number", v.is), "MUST_BE_POSITIVE_NUMBER")

ParseEnumItemFromString(v) ==
  FromPredicate(IsString(v) /\ v.is \in Currencies, v, "INCORRECT_CURRENCY")

\* decodeWithValidationErr with BooleanFromString: a boolean is none.
DecodeBoolean(v) ==
  IF IsString(v) /\ v.is \in {"true", "false"} THEN Right(Raw("boolean", v.is))
  ELSE Left(Exceptions("INVALID_VERIFIED_FLAG"))

ParsePhoneNumber(v) ==
  FromPredicate(IsString(v) /\ v.is \in PhoneNumbers, v, "INVALID_PHONE_NUMBER")

\* getPrimitiveVOTrait without a code.
PrimitiveVO(holds, v) == FromPredicate(holds, v, "INVALID_VALUE")

\* The predicate looks with `in' for an index or another property of an array
\* that has the array of the types as its only item: no type of a file is one.
TypeIndices == {"0", "length"}

ParseFileType(v) == PrimitiveVO(IsString(v) /\ v.is \in TypeIndices, v)

ParseFileUrl(v) == PrimitiveVO(IsString(v) /\ v.is \in FileUrls, v)

\* A name of 300 characters or less.
ParseFileName(v) == FromPredicate(IsString(v) /\ v.is # "", v, "INVALID_FILENAME")

-----------------------------------------------------------------------------
(* Value objects.                                                          *)

\* Bug: the value object holds what its parser made of the props.
BugFactory(tag, parsed, raw) ==
  IF parsed.ok THEN Right([_tag |-> tag, props |-> parsed.value]) ELSE parsed

\* What was given is kept, not what the parser made of it.
Factory(tag, parsed, raw) ==
  IF parsed.ok THEN Right([_tag |-> tag, props |-> raw]) ELSE parsed

Unpack(vo) == vo.props

ParseMoney(raw) ==
  Factory("Money",
    StructSummarizerParsing([amount |-> ParsePositiveNumber(raw.amount),
                             currency |-> ParseEnumItemFromString(raw.currency)]),
    raw)

ParseKyc(raw) ==
  Factory("kyc",
    StructSummarizerParsing([isVerified |-> DecodeBoolean(raw.isVerified),
                             verifiedAt |-> OptionizeParser(raw.verifiedAt, ParseDate(raw.verifiedAt))]),
    raw)

\* A verification with something verified: info is what a parser makes of all of
\* the input; it counts once the verification was right, and is not kept.
ParseWithKycPrim(info, tag, raw) ==
  LET kyc == ParseKyc(raw)
  IN  IF ~ kyc.ok THEN kyc
      ELSE IF ~ info.ok THEN info
      ELSE Factory(tag, Right(Spread(Unpack(kyc.value), [kycInfo |-> info.value])), raw)

ParseFile(raw) ==
  Factory("File",
    StructSummarizerParsing([type |-> ParseFileType(raw.type), url |-> ParseFileUrl(raw.url),
                             name |-> ParseFileName(raw.name)]),
    raw)

-----------------------------------------------------------------------------
(* What a summary is meant to be, without the semigroup.                   *)

Summary(struct) ==
  IF \E k \in DOMAIN struct : Failing(struct) = {k}
    THEN struct[CHOOSE k \in DOMAIN struct : Failing(struct) = {k}].error
    ELSE Dict([k \in Failing(struct) |-> struct[k].error])
=============================================================================
