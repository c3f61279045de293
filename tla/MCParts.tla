------------------------------ MODULE MCParts ------------------------------
(* Parts of the engine that share no state, one at a time: messages, their *)
(* check sums, dates, and the schedule of a session.                       *)
EXTENDS MessageCodec, Conversions, Dates, Schedule

CONSTANTS
    MaxTokens,  \* elements of a text after the first ones
    MaxWords    \* words of a text to sum

VARIABLES
    part,   \* the part that is looked at
    input   \* the text to sum

vars == <<text, msg, other, edits, sch, now, polls, active, year, mon, first, part, input>>

Field(pos, type, must) ==
    [pos |-> pos, type |-> type, mandatory |-> must, automatic |-> FALSE, suppress |-> FALSE,
     of |-> "none"]

Auto(pos, hidden) == [Field(pos, "plain", FALSE) EXCEPT !.automatic = TRUE, !.suppress = hidden]

Group(pos, of) == [Field(pos, "group", FALSE) EXCEPT !.of = of]

(* A cut of FIX44.xml: parties and their sub IDs, raw data, a signature.   *)
MCSchema ==
    [header  |-> (8 :> Auto(1, TRUE)) @@ (35 :> Auto(2, FALSE)) @@ (34 :> Field(3, "plain", TRUE)),
     order   |-> (11 :> Field(1, "plain", TRUE)) @@ (453 :> Group(2, "party"))
                 @@ (58 :> Field(3, "plain", FALSE)) @@ (95 :> Field(4, "length", FALSE))
                 @@ (96 :> Field(5, "data", FALSE)),
     quote   |-> (11 :> Field(2, "plain", TRUE)) @@ (453 :> Group(1, "party"))
                 @@ (58 :> Field(3, "plain", FALSE)),
     party   |-> (448 :> Field(1, "plain", FALSE)) @@ (447 :> Field(2, "plain", FALSE))
                 @@ (802 :> Group(3, "sub")),
     sub     |-> (523 :> Field(1, "plain", TRUE)) @@ (803 :> Field(2, "plain", FALSE)),
     trailer |-> (89 :> Field(1, "plain", FALSE)) @@ (10 :> Auto(2, TRUE))]

MCTokens ==
    {Token(58, 1), Token(95, 9), Token(96, 9), Token(453, 0), Token(453, 1), Token(448, 1),
     Token(447, 1), Token(802, 1), Token(523, 1), Token(89, 1), Token(35, 0), Token(9999, 1)}

(* BeginString, MsgType and, at the end, CheckSum go round all texts.      *)
Framed(s) == <<Token(8, 0), Token(35, 0), Token(34, 1), Token(11, 1)>> \o s \o <<Token(10, 0)>>

(* With no group to begin with, or inside one.                             *)
MCTexts ==
    {Framed(b \o s) :
        b \in {<<>>, <<Token(453, 1), Token(448, 1)>>,
               <<Token(453, 2), Token(448, 1), Token(802, 1), Token(523, 1)>>},
        s \in {r \in SeqOf(MCTokens, MaxTokens) :
                 \* data comes after its length
                 \A i \in DOMAIN r : r[i].tag = 96 => i > 1 /\ r[i - 1].tag = 95}}

MCEditTexts ==
    {Framed(<<>>), Framed(<<Token(453, 1), Token(448, 1)>>),
     Framed(<<Token(58, 1), Token(453, 0)>>)}

MCNewFields == {Token(11, 2), Token(58, 2), Token(453, 1), Token(453, 2)}

MCElements ==
    {[New("party", TRUE) EXCEPT !.fields = (448 :> 1), !.present = {448},
                                !.order = <<[at |-> 1, tag |-> 448, val |-> 1]>>],
     add_field(add_field([New("party", TRUE) EXCEPT !.groups[802] =
                             <<add_field(New("sub", TRUE), 523, 1)>>], 448, 1), 802, 1)}

(* Words of bytes that carry often, seldom or never, and what is left.     *)
MCWords == {<<3, 3, 3>>, <<1, 3, 0>>, <<0, 0, 1>>}

Sums ==
    {FlattenSeq(w) \o r : w \in SeqOf(MCWords, MaxWords), r \in {<<>>, <<3, 1>>}}

-----------------------------------------------------------------------------
NoMessage == text = <<>> /\ msg = <<>> /\ other = <<>> /\ edits = 0

NoSchedule == sch = <<>> /\ now = 0 /\ polls = 0 /\ active = FALSE

NoDate == year = 0 /\ mon = 0 /\ first = 0

Init ==
    \/ part = "message" /\ MessageInit /\ NoSchedule /\ NoDate /\ input = <<>>
    \/ part = "sum" /\ input \in Sums /\ NoMessage /\ NoSchedule /\ NoDate
    \/ part = "date" /\ DatesInit /\ NoMessage /\ NoSchedule /\ input = <<>>
    \/ part = "schedule" /\ ScheduleInit /\ NoMessage /\ NoDate /\ input = <<>>

Next ==
    \/ part = "message" /\ MessageNext /\ UNCHANGED <<scheduleVars, dateVars, part, input>>
    \/ part = "schedule" /\ activation_service /\ UNCHANGED <<messageVars, dateVars, part, input>>
    \/ part = "date" /\ NextMonth /\ UNCHANGED <<messageVars, scheduleVars, part, input>>

Spec == Init /\ [][Next]_vars

-----------------------------------------------------------------------------
(* Properties *)

(* A message that is complete says the same to whoever decodes it, and to  *)
(* whoever is given a clone, also when it was itself decoded, changed, or  *)
(* sent before and set up for reuse (Message::encode, factory, clone).     *)
RoundTrip ==
    part = "message" /\ Complete(msg) =>
        \A s \in {EncodeMessage(msg)}, copy \in {clone(msg)} :
           \A r \in {factory("order", s, FALSE)} :
              /\ r.ok
              /\ MessageContent(r.msg) = MessageContent(msg)
              /\ MessageContent(copy) = MessageContent(msg)

(* A text the strict decoder accepts is, as far as it was read, what the   *)
(* message encodes to again, but for repeated automatic fields; and when   *)
(* it was read to its end, permissive decoding says the same               *)
(* (MessageBase::decode, decode_group).                                    *)
DecodeFaithful ==
    part = "message" /\ text # <<>> /\ edits = 0 =>
        \A decoded \in {[permissive \in BOOLEAN |-> factory("order", text, permissive)]} :
           LET strict == decoded[FALSE]
               lax    == decoded[TRUE]
               read   == SelectSeq(SubSeq(text, 3, strict.next - 1), LAMBDA x : x.tag # 35)
           IN  strict.ok =>
                  /\ EncodeMessage(strict.msg)
                       = <<Token(8, 0), Token(35, 0)>> \o read \o <<Token(10, 0)>>
                  /\ strict.next = Len(text) =>
                        lax.ok /\ MessageContent(lax.msg) = MessageContent(strict.msg)

(* Adding a word at a time and taking the carries out gives the sum of the *)
(* bytes, as long as no lane has carried Byte times: the carries are       *)
(* counted in lanes themselves, and from then on the sum is too low        *)
(* (Message::calc_chksum).                                                 *)
SumExact ==
    part = "sum" =>
        LET sum     == SumSeq(input) % Byte
            carries == [k \in 1 .. Lanes - 1 |-> Carries(input, k)]
            counted == SumOver(1 .. Lanes - 1, LAMBDA k : carries[k] * Byte ^ k) % WordSize
            spilt   == SumSeq(carries) - SumOver(0 .. Lanes - 1, LAMBDA k : Digit(counted, k))
        IN  /\ calc_chksum(input) = (sum + spilt) % Byte
            /\ (\A k \in 1 .. Lanes - 1 : carries[k] < Byte) => calc_chksum(input) = sum

=============================================================================
