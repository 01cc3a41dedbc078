---------------------------- MODULE Gs1Identities ----------------------------
(***************************************************************************)
(* The GS1 identity of a product: a GTIN with its check digit, a batch, a  *)
(* serial number and data attributes, as they are typed, checked, stored   *)
(* and written into the digital link.  A text is a sequence of characters, *)
(* an application identifier or an escape one character of its own; the    *)
(* lengths are constants, and the resolver's address is left out.          *)
(***************************************************************************)
EXTENDS Naturals, SequencesExt, FiniteSetsExt

CONSTANTS GtinLengths,      \* lengths of a GTIN as typed: 8, 12, 13, 14 in the code
          GTIN14_LENGTH,    \* of the stored one
          GtinCharacters,   \* characters typed into the field of the GTIN
          MaxLength,        \* GS1_CSET82_MAX_LENGTH
          Characters,       \* characters typed into the other fields
          Samples,          \* bound: GTINs that the other fields are filled with
          AiValues,         \* values typed for an application identifier
          MaxTyped,         \* bound: characters typed into a field
          MaxAttributes     \* bound: attributes entered

VARIABLE form

DigitOrder == <<"0", "1", "2", "3", "4", "5", "6", "7", "8", "9">>
Digits == ToSet(DigitOrder)
ValueOf(d) == CHOOSE n \in 0..9 : DigitOrder[n + 1] = d
Blank == " "

\* The characters that have to be escaped; a letter stands for the others.
Escapes == [c \in {"/", "%", "?", "&"} |->
    CASE c = "/" -> "%2F" [] c = "%" -> "%25" [] c = "?" -> "%3F" [] c = "&" -> "%26"]
CSET82 == Digits \cup {"a", "."} \cup DOMAIN Escapes

\* The table of application identifiers: the kind of each, in their order.
AiOrder == <<"00", "01", "02", "10", "17", "21", "3103", "90">>
GS1_AI_TABLE == [ai \in ToSet(AiOrder) |->
    CASE ai \in {"00", "01"} -> "I" [] ai \in {"10", "21"} -> "Q"
      [] ai = "02" -> "N" [] OTHER -> "D"]
Gs1KeyAi == {ai \in DOMAIN GS1_AI_TABLE : GS1_AI_TABLE[ai] = "I"}
Gs1QualifierAi == {ai \in DOMAIN GS1_AI_TABLE : GS1_AI_TABLE[ai] = "Q"}
Gs1DataAttributeAi == {ai \in DOMAIN GS1_AI_TABLE : GS1_AI_TABLE[ai] = "D"}
\* What the pattern of its entry accepts: numbers of some length, or a text.
Accepts(ai, value) ==
    IF ai = "90" THEN ToSet(value) \subseteq CSET82
    ELSE ToSet(value) \subseteq Digits /\ Len(value) = (IF ai = "17" THEN 2 ELSE 1)

-----------------------------------------------------------------------------
(* The GTIN. *)

trim(s) ==
    LET marks == {i \in DOMAIN s : s[i] # Blank}
    IN  IF marks = {} THEN <<>> ELSE SubSeq(s, Min(marks), Max(marks))

isValidGtinCheckDigit(gtin) ==
    LET n == Len(gtin) - 1
        sum == MapThenSumSet(LAMBDA i : ValueOf(gtin[i]) * (IF (n - i) % 2 = 0 THEN 3 ELSE 1), 1..n)
    IN  n >= 1 /\ ToSet(gtin) \subseteq Digits
        /\ (10 - (sum % 10)) % 10 = ValueOf(gtin[n + 1])

GtinAccepted(raw) == Len(trim(raw)) \in GtinLengths /\ isValidGtinCheckDigit(trim(raw))
normalizeToGtin14(raw) ==
    [i \in 1..(GTIN14_LENGTH - Len(trim(raw))) |-> "0"] \o trim(raw)
Gtin14Schema(gtin) == Len(gtin) = GTIN14_LENGTH /\ isValidGtinCheckDigit(gtin)

(* Batch and serial number; an absent one is empty. *)
isValidCset82Component(value) ==
    /\ Len(value) \in 1..MaxLength /\ ToSet(value) \subseteq CSET82
    /\ value \notin {<<".">>, <<".", ".">>}
ComponentAccepted(value) == trim(value) = <<>> \/ isValidCset82Component(trim(value))

(* The data attributes, as entered: pairs, none of an identifier twice. *)
isGs1DataAttributeAi(ai) == GS1_AI_TABLE[ai] = "D"
isValidGs1DataAttributeValue(ai, value) ==
    isGs1DataAttributeAi(ai) /\ Len(value) >= 1 /\ Accepts(ai, value)
AttributesAccepted(pairs) ==
    \A i \in DOMAIN pairs : isValidGs1DataAttributeValue(pairs[i][1], pairs[i][2])
Gs1DataAttributesSchema(pairs) ==
    /\ \A i \in DOMAIN pairs : pairs[i][1] \in Gs1DataAttributeAi
    /\ AttributesAccepted(pairs)

(* A request for an identity, and the identity that is stored. *)
RequestAccepted(f) ==
    GtinAccepted(f.gtin) /\ ComponentAccepted(f.batch) /\ ComponentAccepted(f.serial)
Identity(f) ==
    [gtin |-> normalizeToGtin14(f.gtin), batch |-> trim(f.batch), serial |-> trim(f.serial)]
Gs1IdentityDtoSchema(identity) ==
    /\ Gtin14Schema(identity.gtin)
    /\ \A k \in {"batch", "serial"} : identity[k] = <<>> \/ isValidCset82Component(identity[k])

-----------------------------------------------------------------------------
(* The link. *)

encodeRfc3986(value) ==
    [i \in DOMAIN value |-> IF value[i] \in DOMAIN Escapes THEN Escapes[value[i]] ELSE value[i]]

buildGs1DataAttributeQuery(pairs) ==
    LET Rank(p) == CHOOSE i \in DOMAIN AiOrder : AiOrder[i] = p[1]
    IN  FoldLeft(LAMBDA q, p : q \o <<IF q = <<>> THEN "?" ELSE "&", p[1], "=">> \o encodeRfc3986(p[2]),
                 <<>>, SortSeq(pairs, LAMBDA p, q : Rank(p) < Rank(q)))

Segment(ai, value) == IF value = <<>> THEN <<>> ELSE <<"/", ai, "/">> \o encodeRfc3986(value)
buildGs1DigitalLink(f) ==
    Segment("01", normalizeToGtin14(f.gtin)) \o Segment("10", trim(f.batch))
        \o Segment("21", trim(f.serial)) \o buildGs1DataAttributeQuery(f.attributes)

-----------------------------------------------------------------------------
(* The fields are filled in: the GTIN first; a few of them with the rest.  *)

Empty == [gtin |-> <<>>, batch |-> <<>>, serial |-> <<>>, attributes |-> <<>>]

Init == form = Empty
TypeGtin(c) ==
    /\ [form EXCEPT !.gtin = <<>>] = Empty
    /\ Len(form.gtin) < GTIN14_LENGTH
    /\ form' = [form EXCEPT !.gtin = Append(@, c)]
TypeComponent(k, c) ==
    /\ form.gtin \in Samples /\ form.attributes = <<>> /\ Len(form[k]) < MaxTyped
    /\ form' = [form EXCEPT ![k] = Append(@, c)]
AddAttribute(ai, value) ==
    /\ form.gtin \in Samples /\ form.batch = <<>> /\ form.serial = <<>>
    /\ Len(form.attributes) < MaxAttributes
    /\ \A i \in DOMAIN form.attributes : form.attributes[i][1] # ai
    /\ form' = [form EXCEPT !.attributes = Append(@, <<ai, value>>)]

Next ==
    \/ \E c \in GtinCharacters : TypeGtin(c)
    \/ \E k \in {"batch", "serial"}, c \in Characters : TypeComponent(k, c)
    \/ \E ai \in DOMAIN GS1_AI_TABLE, value \in AiValues : AddAttribute(ai, value)

Spec == Init /\ [][Next]_form

-----------------------------------------------------------------------------
(* A reader of links, the reference: it drops dot segments as every client *)
(* does, splits the path and undoes the escapes.                           *)

Query(link) == Min({i \in DOMAIN link : link[i] = "?"} \cup {Len(link) + 1})
Split(text, Ends(_)) ==
    FoldLeft(LAMBDA s, c : IF Ends(c) THEN Append(s, <<>>)
                           ELSE Append(Front(s), Append(Last(s), c)), <<>>, text)
Undotted(segments) ==
    FoldLeft(LAMBDA s, x : CASE x = <<".">> -> s
                             [] x = <<".", ".">> -> IF s = <<>> THEN s ELSE Front(s)
                             [] OTHER -> Append(s, x), <<>>, segments)
Unescaped(s) ==
    [i \in DOMAIN s |-> IF \E c \in DOMAIN Escapes : Escapes[c] = s[i]
                        THEN CHOOSE c \in DOMAIN Escapes : Escapes[c] = s[i] ELSE s[i]]
Read(link) ==
    LET s == Undotted(Split(SubSeq(link, 1, Query(link) - 1), LAMBDA c : c = "/"))
        pairs == Split(SubSeq(link, Query(link), Len(link)), LAMBDA c : c \in {"?", "&"})
        After(ai) ==
            LET at == {i \in DOMAIN s : i % 2 = 1 /\ s[i] = <<ai>> /\ i < Len(s)}
            IN  IF at = {} THEN <<>> ELSE Unescaped(s[Min(at) + 1])
    IN  [gtin |-> After("01"), batch |-> After("10"), serial |-> After("21"),
         attributes |-> {<<p[1], Unescaped(SubSeq(p, 3, Len(p)))>> : p \in ToSet(pairs)}]

(* Properties *)

\* The check digit finds every single digit that is mistyped, and two
\* neighbours in the wrong order unless they differ by five
\* (isValidGtinCheckDigit).
MistypedIsRefused ==
    LET g == trim(form.gtin) IN
    GtinAccepted(form.gtin) =>
        \A i \in DOMAIN g :
            /\ \A d \in Digits \ {g[i]} : ~GtinAccepted([g EXCEPT ![i] = d])
            /\ i < Len(g) =>
                LET a == ValueOf(g[i])  b == ValueOf(g[i + 1])
                IN  (a - b) % 5 # 0 => ~GtinAccepted([g EXCEPT ![i] = g[i + 1], ![i + 1] = g[i]])

\* What a request stores is accepted where it is read again, stays as it is
\* when it is sent back (Gs1IdentityRequestSchema, Gs1IdentityDtoSchema).
StoredIsStable ==
    RequestAccepted(form) =>
        LET stored == Identity(form) IN
        /\ Gs1IdentityDtoSchema(stored)
        /\ RequestAccepted(stored) /\ Identity(stored) = stored

\* A link leads back to the identity and the attributes it was built for, so
\* that no two of them share one, whatever is typed as batch, serial number
\* or value.
LinkLeadsBack ==
    RequestAccepted(form) /\ Gs1DataAttributesSchema(form.attributes) =>
        LET identity == Identity(form) IN
        Read(buildGs1DigitalLink(form)) =
            [gtin |-> identity.gtin, batch |-> identity.batch, serial |-> identity.serial,
             attributes |-> ToSet(form.attributes)]

\* The same attributes make the same query, in whatever order they were
\* entered (buildGs1DataAttributeQuery).
QueryIsCanonical ==
    Gs1DataAttributesSchema(form.attributes) =>
        \A p \in Permutations(DOMAIN form.attributes) :
            buildGs1DataAttributeQuery([i \in DOMAIN form.attributes |-> form.attributes[p[i]]])
                = buildGs1DataAttributeQuery(form.attributes)

\* All of these.
IdentitiesAreRead ==
    MistypedIsRefused /\ StoredIsStable /\ LinkLeadsBack /\ QueryIsCanonical

=============================================================================

