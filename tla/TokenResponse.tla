---------------------------- MODULE TokenResponse ----------------------------
(***************************************************************************)
(* internal/model/token.go: what AccessTokenResponse.UnmarshalJSON makes   *)
(* of the answer of the access-token endpoint, and the expiry with which   *)
(* fetchAccessToken (internal/client) caches the token.  TokenClient's     *)
(* outcome "token" and its fresh token rest on these operators.            *)
(*                                                                         *)
(* A JSON object is a function from the names it holds to values; a value  *)
(* is a record with a kind and a content v:                                *)
(*   object    the object v                                                *)
(*   word      a string that is no time and no number                      *)
(*   quotes    a string of quotation marks only, trimmed to the empty one  *)
(*   date      a string in one of the time layouts, for the instant v      *)
(*   number    the number v                                                *)
(*   numeral   a string that holds the number v                            *)
(*   duration  a string that time.ParseDuration reads as v                 *)
(*   blank     anything else: null, a blank string, a list                 *)
(* Instants and durations are counted in thousandths of the unit in which  *)
(* numbers count, as milliseconds are of seconds.                          *)
(*                                                                         *)
(* A definition marked "Variant" is the one after it with a plausible      *)
(* mistake; no specification uses it.                                      *)
(***************************************************************************)
EXTENDS Naturals, Sequences

CONSTANTS
    Now,           \* the time at which the answer is read, in units of numbers
    Hour,          \* the lifetime of a token without a usable expiry (a duration)
    AbsoluteFrom,  \* a relative expiry of so many units is taken for an instant (1e8)
    MillisAbove,   \* a greater number counts thousandths (1e11)
    Lifetimes      \* bound: the lifetimes of a token, in units, that are looked at

\* The present lies where seconds, milliseconds and lifetimes can be told apart.
ASSUME InstantAssumption ==
    /\ {Now, Hour, AbsoluteFrom, MillisAbove} \subseteq Nat \ {0}
    /\ Lifetimes \subseteq 1..(AbsoluteFrom - 1)
    /\ AbsoluteFrom <= Now
    /\ Now + AbsoluteFrom <= MillisAbove
    /\ MillisAbove < Now * 1000

Wrappers == <<"data", "result", "response", "payload">>

TokenNames == <<"token", "accessToken", "access_token", "mapToken", "map_token",
                "x-bcrs-map-token", "x_bcrs_map_token", "jwt", "id_token">>

\* The names that are also looked up beside the wrapper.
RawTokenNames == SubSeq(TokenNames, 1, 7)

AbsoluteNames == <<"expiresAt", "expires_at", "expireAt", "expire_at", "expiration",
                   "exp", "expiry", "expires_on", "not_after", "valid_to">>

RelativeNames == <<"expires_in", "expiresIn", "ttl", "max_age", "maxAge",
                   "expires_in_seconds", "expires_in_sec">>

Blank == [kind |-> "blank", v |-> 0]

NamesOf(names) == {names[i] : i \in 1..Len(names)}

\* The first of names that is one of hits, in the order in which they are tried.
FirstIn(names, hits) ==
    LET at == {i \in 1..Len(names) : names[i] \in hits}
    IN  names[CHOOSE i \in at : \A j \in at : i <= j]

\* The object of the first wrapper that is present, if it is one and not empty; a
\* later wrapper is not looked at.
Target(raw) ==
    LET found == NamesOf(Wrappers) \cap DOMAIN raw
        first == raw[FirstIn(Wrappers, found)]
    IN  IF found # {} /\ first.kind = "object" /\ DOMAIN first.v # {}
        THEN first.v
        ELSE raw
-------------------------------------------------------------------------------
(* The token; "" is no token, and an error.                                 *)

StringKinds == {"word", "quotes", "date", "numeral", "duration"}

\* The first string of obj under one of the names; the search ends at a string of
\* quotation marks although nothing is left of it.
FirstString(obj, names) ==
    LET strings == {k \in NamesOf(names) \cap DOMAIN obj : obj[k].kind \in StringKinds}
        first   == obj[FirstIn(names, strings)]
    IN  IF strings = {} \/ first.kind = "quotes" THEN "" ELSE first.v

TokenOf(raw) ==
    LET inner == FirstString(Target(raw), TokenNames)
        outer == FirstString(raw, RawTokenNames)
    IN  IF inner # "" THEN inner
        ELSE IF outer # "" THEN outer
        ELSE FirstString(raw, Wrappers)
-------------------------------------------------------------------------------
(* The expiry; 0 is Go's zero time, and stands for any instant before 1970.  *)

InstantOf(n) == IF n > MillisAbove THEN n ELSE n * 1000

IsNumber(value) == value.kind \in {"number", "numeral"} /\ value.v > 0

\* A date is taken as it is, Go's zero time included; nothing but a positive number or
\* duration is.
ReadAbsolute(value) == value.kind = "date" \/ IsNumber(value)

ReadRelative(value) == IsNumber(value) \/ (value.kind = "duration" /\ value.v > 0)

\* What a value that can be read stands for.
AbsoluteExpiry(value) == IF value.kind = "date" THEN value.v ELSE InstantOf(value.v)

RelativeExpiry(value) ==
    IF value.kind = "duration" THEN Now * 1000 + value.v
    ELSE IF value.v >= AbsoluteFrom THEN InstantOf(value.v)
    ELSE (Now + value.v) * 1000

\* Variant: the name beside the wrapped object is looked up first.
FieldBeside(raw, name) ==
    IF name \in DOMAIN raw THEN raw[name]
    ELSE IF name \in DOMAIN Target(raw) THEN Target(raw)[name]
    ELSE Blank

\* A name of the wrapped object hides the same name beside it.
Field(raw, name) ==
    IF name \in DOMAIN Target(raw) THEN Target(raw)[name]
    ELSE IF name \in DOMAIN raw THEN raw[name]
    ELSE Blank

\* The first name whose value can be read decides; absolute ones come first.
ExpiresAt(raw) ==
    LET absolute == {k \in NamesOf(AbsoluteNames) : ReadAbsolute(Field(raw, k))}
        relative == {k \in NamesOf(RelativeNames) : ReadRelative(Field(raw, k))}
    IN  IF absolute # {} THEN AbsoluteExpiry(Field(raw, FirstIn(AbsoluteNames, absolute)))
        ELSE IF relative # {} THEN RelativeExpiry(Field(raw, FirstIn(RelativeNames, relative)))
        ELSE 0

\* fetchAccessToken: an expiry that is missing or past is replaced by an hour.
CachedExpiry(raw) == IF ExpiresAt(raw) <= Now * 1000 THEN Now * 1000 + Hour ELSE ExpiresAt(raw)
-------------------------------------------------------------------------------
(* Properties, over the answers below.                                      *)

\* Every way to say that the token lives for l units from now.
Encodings(l) ==
    LET instants  == {[kind |-> kind, v |-> n] : kind \in {"number", "numeral"},
                                                 n \in {Now + l, (Now + l) * 1000}}
        absolute  == instants \cup {[kind |-> "date", v |-> (Now + l) * 1000]}
        relative  == instants \cup {[kind |-> "number", v |-> l], [kind |-> "numeral", v |-> l],
                                    [kind |-> "duration", v |-> l * 1000]}
    IN  (NamesOf(AbsoluteNames) \X absolute) \cup (NamesOf(RelativeNames) \X relative)

\* fields, either as the whole answer or wrapped, with beside at the top level.
Answer(wrapper, fields, beside) ==
    IF wrapper = "none" THEN fields
    ELSE [name \in {wrapper} \cup DOMAIN beside |->
             IF name = wrapper THEN [kind |-> "object", v |-> fields] ELSE beside[name]]

\* What stands under a name beside the one that states l: nothing that can be read
\* there, though it could be under other names, or l once more.
Others(l) == Encodings(l)
                 \cup (NamesOf(AbsoluteNames) \X {Blank, [kind |-> "duration", v |-> l * 1000]})
                 \cup (NamesOf(RelativeNames) \X {Blank, [kind |-> "date", v |-> Now * 1000]})

\* code under its name, and other under its own if that is another one.
Stating(code, other) ==
    [name \in {code[1], other[1]} |-> IF name = code[1] THEN code[2] ELSE other[2]]

\* Seconds, milliseconds, a date, a duration or any of them in a string, under every
\* name, in a wrapper or not: the lifetime the service states is the one the cache
\* uses, whatever stands beside the wrapper and whatever the other names say of it.
HonoursLifetime ==
    \A l \in Lifetimes : \A code \in Encodings(l), other \in Others(l) :
        \A wrapper \in {"none"} \cup NamesOf(Wrappers) :
            LET beside == [name \in {code[1]} |-> [kind |-> "number", v |-> Now + l + 1]]
            IN  CachedExpiry(Answer(wrapper, Stating(code, other), beside)) = (Now + l) * 1000

\* Dates that are past when the answer is read.
PastDates == [kind : {"date"}, v : {0, (Now - 1) * 1000, Now * 1000}]

\* A past date under the first name decides, Go's zero time included: the token is kept
\* for an hour, whatever lifetime another name states.
HonoursPastDate ==
    \A l \in Lifetimes : \A code \in Encodings(l), date \in PastDates :
        \A wrapper \in {"none"} \cup NamesOf(Wrappers) :
            code[1] # AbsoluteNames[1] =>
                CachedExpiry(Answer(wrapper, Stating(code, <<AbsoluteNames[1], date>>), <<>>)) =
                    Now * 1000 + Hour
===============================================================================
