---------------------------- MODULE MessageCodec ----------------------------
(***************************************************************************)
(* Messages (runtime/message.cpp, message.hpp): building them, taking them *)
(* apart, copying them, encoding and decoding them.                        *)
(*                                                                         *)
(* A text is a sequence of elements tag=value; BodyLength goes with        *)
(* BeginString and is left out.  A part of a message (its header, body or  *)
(* trailer, or an element of a repeating group) keeps a value for each tag *)
(* it holds, the order they are encoded in, the tags marked as present and *)
(* its groups.                                                             *)
(***************************************************************************)
EXTENDS Integers, Sequences, SequencesExt, FiniteSets

CONSTANTS
    Schema,     \* for each kind of part, the traits of the tags legal in it
    Texts,      \* texts to decode
    EditTexts,  \* texts of messages that are then changed
    NewFields,  \* tag and value pairs to add
    Elements,   \* elements to add to a group
    MaxEdits    \* operations on a message

VARIABLES
    text,    \* what was received
    msg,     \* the message decoded from it, or a new one
    other,   \* the body of a message of another type
    edits    \* operations made

messageVars == <<text, msg, other, edits>>

Token(tag, val) == [tag |-> tag, val |-> val]

(* Data with a separator in it, and what is left of it up to there.        *)
Separated == 9
Cut == 8

Legal(p) == DOMAIN Schema[p.kind]

Trait(p, tag) == Schema[p.kind][tag]

Automatic(p) == {t \in Legal(p) : Trait(p, t).automatic}

IsGroup(p, tag) == Trait(p, tag).type = "group"

-----------------------------------------------------------------------------
(* Parts *)

(* A new part; only a deep one has its groups.  Automatic fields are there *)
(* from the start, and some of them are suppressed in encode().            *)
NewParts ==
    [kind \in DOMAIN Schema, deep \in BOOLEAN |->
        LET traits == Schema[kind]
            auto   == {t \in DOMAIN traits : traits[t].automatic}
        IN  [kind       |-> kind,
             fields     |-> [t \in auto |-> 0],
             order      |-> SetToSortSeq({[at |-> traits[t].pos, tag |-> t, val |-> 0] : t \in auto},
                                         LAMBDA a, b : a.at < b.at),
             present    |-> auto,
             suppressed |-> {t \in DOMAIN traits : traits[t].suppress},
             groups     |-> [g \in {t \in DOMAIN traits : deep /\ traits[t].type = "group"} |-> <<>>],
             unknown    |-> <<>>]]

New(kind, deep) == NewParts[kind, deep]

(* _pos.insert: after all that have the same position or a lower one.      *)
Placed(order, e) ==
    SelectSeq(order, LAMBDA x : x.at <= e.at) \o <<e>> \o SelectSeq(order, LAMBDA x : x.at > e.at)

(* _fields.insert keeps a value that is already there.                     *)
add_field_decoder(p, tag, at, val) ==
    [p EXCEPT !.fields = @ @@ (tag :> val),
              !.order  = Placed(@, [at |-> at, tag |-> tag, val |-> val])]

(* Where the field itself is in _pos: a decoder may have left repeated     *)
(* automatic fields there too.                                             *)
Place(p, tag) == SelectInSeq(p.order, LAMBDA x : x.tag = tag /\ x.val = p.fields[tag])

(* The new field has the old one's position, behind all that share it.     *)
replace(p, tag, val) ==
    IF tag \notin DOMAIN p.fields THEN p
    ELSE LET i == Place(p, tag)
         IN  [p EXCEPT !.fields[tag] = val,
                       !.order = Placed(RemoveAt(@, i), [@[i] EXCEPT !.val = val]),
                       !.present = @ \cup {tag}]

add_field(p, tag, val) ==
    IF tag \in p.present THEN replace(p, tag, val)
    ELSE [add_field_decoder(p, tag, Trait(p, tag).pos, val) EXCEPT !.present = @ \cup {tag}]

remove(p, tag) ==
    IF tag \notin DOMAIN p.fields THEN p
    ELSE [p EXCEPT !.fields  = [t \in DOMAIN @ \ {tag} |-> @[t]],
                   !.order   = RemoveAt(@, Place(p, tag)),
                   !.present = @ \ {tag}]

(* The groups are deleted and left behind as null pointers, and what was   *)
(* unknown stays.                                                          *)
Null == <<[null |-> TRUE]>>

clear(p) ==
    [p EXCEPT !.fields = <<>>, !.order = <<>>, !.present = {},
              !.groups = [g \in DOMAIN @ |-> Null]]

HasGroup(p, tag) == tag \in DOMAIN p.groups /\ p.groups[tag] # Null

RECURSIVE copy_legal(_, _, _)

Copied(p, to, force) ==
    {t \in p.present : force \/ (t \in Legal(to) /\ t \notin to.present)}

(* Mutant: the counts are copied and the groups are not.                   *)
copy_legal_flat(p, to, force) ==
    FoldLeft(LAMBDA acc, t : add_field(acc, t, p.fields[t]), to,
             SetToSortSeq(Copied(p, to, force), <))

(* In the order of the tags; the elements of a group are added to those    *)
(* the target has.                                                         *)
copy_legal(p, to, force) ==
    LET Copy(acc, t) ==
            LET elem(i) == copy_legal(p.groups[t][i], New(p.groups[t][i].kind, TRUE), force)
                grown == IF ~ (IsGroup(p, t) /\ HasGroup(p, t)) THEN acc
                         ELSE [acc EXCEPT !.groups[t] =
                                 @ \o [i \in DOMAIN p.groups[t] |-> elem(i)]]
            IN  add_field(grown, t, p.fields[t])
    IN  FoldLeft(Copy, to, SetToSortSeq(Copied(p, to, force), <))

(* The fields and groups themselves, without force; what is left of the    *)
(* source can only be deleted.                                             *)
move_legal(p, to) ==
    LET Move(acc, t) ==
            LET grown == IF ~IsGroup(p, t) THEN acc
                         ELSE [acc EXCEPT !.groups = (t :> p.groups[t]) @@ @]
            IN  add_field(grown, t, p.fields[t])
    IN  FoldLeft(Move, to, SetToSortSeq(Copied(p, to, FALSE), <))

-----------------------------------------------------------------------------
(* Encoding *)

RECURSIVE encode(_)

(* In the order of the positions, each count followed by its elements.     *)
encode(p) ==
    LET Group(x) == IF IsGroup(p, x.tag) /\ x.val > 0
                    THEN FlattenSeq([i \in DOMAIN p.groups[x.tag] |-> encode(p.groups[x.tag][i])])
                    ELSE <<>>
        Field(x) == IF x.tag \in p.suppressed THEN <<>>
                    ELSE <<Token(x.tag, x.val)>> \o Group(x)
    IN  FlattenSeq([i \in DOMAIN p.order |-> Field(p.order[i])]) \o p.unknown

(* encode_group throws for a count without a group.                        *)
Encodable(p) ==
    \A t \in p.present : IsGroup(p, t) /\ p.fields[t] > 0 => HasGroup(p, t)

(* The message was not cleared, which frees what encode() uses.            *)
Whole(p) == Automatic(p) \subseteq p.present

(* Message::encode: BeginString goes in front of the parts, CheckSum after *)
(* them, and they are no longer suppressed.                                *)
EncodeMessage(m) ==
    <<Token(8, 0)>> \o encode(m.header) \o encode(m.body) \o encode(m.trailer) \o <<Token(10, 0)>>

Unsuppressed(m) == [m EXCEPT !.header.suppressed = {}, !.trailer.suppressed = {}]

(* For a message that is sent again.                                       *)
setup_reuse(m) ==
    [m EXCEPT !.header = [remove(@, 34) EXCEPT !.suppressed = {8}],
              !.trailer.suppressed = {10}]

-----------------------------------------------------------------------------
(* Decoding.  The state of a decoder: the part so far, the next element of *)
(* the text, the fields taken, the first unknown element with the fields   *)
(* before it, the elements of a group that are complete, and whether it is *)
(* reading, done, or threw an exception.                                   *)

Start(p, i) ==
    [part |-> p, next |-> i, pos |-> Len(p.order), mark |-> [at |-> 0, pos |-> -1],
     elements |-> <<>>, status |-> "reading"]

find_missing(p) == {t \in Legal(p) : Trait(p, t).mandatory} \ p.present

(* Fields are numbered in the order of the text.                           *)
Take(d, e) ==
    [d EXCEPT !.part = [add_field_decoder(@, e.tag, d.pos + 1, e.val)
                           EXCEPT !.present = @ \cup {e.tag}],
              !.next = @ + 1, !.pos = @ + 1]

(* The element of the group is complete, and another one may begin.        *)
EndElement(d, status) ==
    IF find_missing(d.part) # {} THEN [d EXCEPT !.status = "threw"]
    ELSE [d EXCEPT !.elements = Append(@, d.part), !.part = New(d.part.kind, FALSE),
                   !.pos = 0, !.status = status]

(* The elements go into the group; their number is not compared with the   *)
(* count.                                                                  *)
EndGroup(d, tag, g) ==
    [d EXCEPT !.part.groups = (tag :> g.elements) @@ @, !.next = g.next,
              !.status = IF g.status = "threw" THEN "threw" ELSE @]

RECURSIVE DecodeElements(_, _)

decode_group(d, tag, s) ==
    EndGroup(d, tag,
             DecodeElements([Start(New(Trait(d.part, tag).of, FALSE), d.next) EXCEPT
                                !.status = IF d.next > Len(s) THEN "done" ELSE @], s))

(* An element lasts until a tag it has already (then there is another one) *)
(* or a tag it may not have (then there is none).                          *)
ElementStep(d, e, s) ==
    IF e.tag \in d.part.present THEN EndElement(d, "reading")
    ELSE IF d.pos = 0 /\ ~(e.tag \in Legal(d.part) /\ Trait(d.part, e.tag).pos = 1)
    THEN [d EXCEPT !.status = "threw"]
    ELSE IF e.tag \notin Legal(d.part) THEN EndElement(d, "done")
    ELSE IF IsGroup(d.part, e.tag) /\ e.val > 0 THEN decode_group(Take(d, e), e.tag, s)
    ELSE Take(d, e)

DecodeElements(d, s) ==
    IF d.status # "reading" THEN d
    ELSE DecodeElements(IF d.next > Len(s) THEN EndElement(d, "done")
                        ELSE ElementStep(d, s[d.next], s), s)

(* Mutant: a field that is there already is skipped.                       *)
Duplicate_skipped(p, tag) == FALSE

Duplicate(p, tag) == tag \in p.present /\ tag \notin Automatic(p)

(* The part is complete; unknown elements at its end are left to the next. *)
EndPart(d, permissive) ==
    [d EXCEPT !.status = IF find_missing(d.part) = {} THEN "done" ELSE "threw",
              !.next = IF permissive /\ d.mark.pos = d.pos THEN d.mark.at ELSE @]

Unknown(d, s, permissive) ==
    IF ~permissive THEN EndPart(d, FALSE)
    ELSE [d EXCEPT !.part.unknown = Append(@, s[d.next]), !.next = @ + 1,
                   !.mark = IF @.at = 0 THEN [at |-> d.next, pos |-> d.pos] ELSE @]

(* After a length: the next element is taken by it and has to be the data. *)
DecodeData(d, tag, s, permissive) ==
    IF d.next > Len(s) THEN [d EXCEPT !.status = "threw"]
    ELSE IF s[d.next].tag \notin Legal(d.part) THEN Unknown(d, s, permissive)
    ELSE IF Trait(d.part, s[d.next].tag).type = "data" /\ s[d.next].tag = tag + 1
    THEN Take(d, s[d.next])
    ELSE d

(* Once round the loop of decode.  A separator in data that is read        *)
(* without its length ends the reading.                                    *)
FieldStep(d, e, s, permissive) ==
    IF e.tag \notin Legal(d.part) THEN Unknown(d, s, permissive)
    ELSE IF Duplicate(d.part, e.tag) THEN [d EXCEPT !.status = "threw"]
    ELSE IF e.tag \in d.part.present THEN [d EXCEPT !.next = @ + 1]
    ELSE IF IsGroup(d.part, e.tag) /\ e.val > 0 THEN decode_group(Take(d, e), e.tag, s)
    ELSE IF Trait(d.part, e.tag).type = "length"
    THEN DecodeData(Take(d, e), e.tag, s, permissive)
    ELSE IF e.val = Separated THEN EndPart(Take(d, Token(e.tag, Cut)), permissive)
    ELSE Take(d, e)

RECURSIVE DecodeFields(_, _, _)

DecodeFields(d, s, permissive) ==
    IF d.status # "reading" THEN d
    ELSE DecodeFields(IF d.next > Len(s) THEN EndPart(d, permissive)
                      ELSE FieldStep(d, s[d.next], s, permissive), s, permissive)

decode(p, s, i, permissive) == DecodeFields(Start(p, i), s, permissive)

(* extract_header, then the parts, each from where the one before ended,   *)
(* as long as none throws; header and body may read as far as the check    *)
(* sum, which the trailer leaves out.                                      *)
factory(kind, s, permissive) ==
    LET h == decode(New("header", TRUE), s, 3, permissive)
        b == decode(New(kind, FALSE), s, h.next, permissive)
        t == decode(New("trailer", TRUE), Front(s), b.next, permissive)
    IN  [ok   |-> /\ <<s[1].tag, s[2].tag>> = <<8, 35>>
                  /\ h.status = "done" /\ b.status = "done" /\ t.status = "done",
         next |-> t.next,
         msg  |-> [header |-> h.part, body |-> b.part, trailer |-> t.part]]

(* A message is copied into a deep one of its type.                        *)
clone(m) ==
    [header  |-> copy_legal(m.header, New("header", TRUE), FALSE),
     body    |-> copy_legal(m.body, New(m.body.kind, TRUE), FALSE),
     trailer |-> copy_legal(m.trailer, New("trailer", TRUE), FALSE)]

-----------------------------------------------------------------------------
(* Behaviours: a message is decoded from a text, or made, and then changed.*)

NewMessage ==
    [header |-> New("header", TRUE), body |-> New("order", TRUE), trailer |-> New("trailer", TRUE)]

MessageInit ==
    /\ text = <<>>
    /\ msg = NewMessage
    /\ other = New("quote", TRUE)
    /\ edits = 0

Receive ==
    /\ text = <<>> /\ edits = 0
    /\ \E s \in Texts, permissive \in BOOLEAN :
          \E r \in {factory("order", s, permissive)} :
             r.ok /\ text' = s /\ msg' = r.msg
    /\ UNCHANGED <<other, edits>>

Edit(m, o) ==
    /\ edits < MaxEdits /\ text \in EditTexts \cup {<<>>}
    /\ edits' = edits + 1
    /\ msg' = m /\ other' = o
    /\ UNCHANGED text

AddField ==
    \E f \in NewFields :
       \/ Edit([msg EXCEPT !.body = add_field(@, f.tag, f.val)], other)
       \/ /\ f.tag \in Legal(other)
          /\ Edit(msg, add_field(other, f.tag, f.val))

AddSeqNum == Edit([msg EXCEPT !.header = add_field(@, 34, 1)], other)

RemoveField ==
    \E f \in NewFields : f.tag \in msg.body.present
                         /\ Edit([msg EXCEPT !.body = remove(@, f.tag)], other)

AddElement ==
    \E g \in DOMAIN msg.body.groups, e \in Elements :
       /\ HasGroup(msg.body, g)
       /\ Edit([msg EXCEPT !.body.groups[g] = Append(@, e)], other)

(* Only groups that are there can be copied into or moved.                 *)
CopyLegal ==
    /\ \A g \in DOMAIN other.groups : HasGroup(other, g)
    /\ \E force \in BOOLEAN :
          /\ force => msg.body.present \subseteq Legal(other)
          /\ Edit(msg, copy_legal(msg.body, other, force))

(* What was moved from is deleted, and the next message is a new one.      *)
MoveLegal ==
    /\ \A t \in Copied(msg.body, other, FALSE) : IsGroup(msg.body, t) => HasGroup(msg.body, t)
    /\ Edit([msg EXCEPT !.body = NewMessage.body], move_legal(msg.body, other))

(* All of the message, the automatic fields too: what encode() still       *)
(* points to is deleted.                                                   *)
Clear == Edit([header |-> clear(msg.header), body |-> clear(msg.body),
               trailer |-> clear(msg.trailer)], other)

Send ==
    /\ Encodable(msg.body) /\ Whole(msg.header) /\ Whole(msg.trailer)
    /\ Edit(setup_reuse(Unsuppressed(msg)), other)

MessageNext ==
    Receive \/ AddField \/ AddSeqNum \/ RemoveField \/ AddElement \/ CopyLegal \/ MoveLegal
    \/ Clear \/ Send

-----------------------------------------------------------------------------
(* What the properties compare *)

RECURSIVE Content(_)

(* What a part says, whatever order it is in.                              *)
Content(p) ==
    LET full == {g \in DOMAIN p.groups : HasGroup(p, g) /\ p.groups[g] # <<>>}
    IN  [fields |-> p.fields,
         groups |-> [g \in full |-> [i \in DOMAIN p.groups[g] |-> Content(p.groups[g][i])]]]

MessageContent(m) == <<Content(m.header), Content(m.body), Content(m.trailer)>>

RECURSIVE WellFormed(_)

(* Complete, every group as long as its count says, nothing unknown.       *)
WellFormed(p) ==
    /\ find_missing(p) = {} /\ Whole(p)
    /\ p.unknown = <<>>
    /\ \A g \in {t \in Legal(p) : IsGroup(p, t)} :
          LET n == IF HasGroup(p, g) THEN Len(p.groups[g]) ELSE 0
          IN  /\ (IF g \in p.present THEN p.fields[g] ELSE 0) = n
              /\ \A i \in 1 .. n : WellFormed(p.groups[g][i])

Complete(m) == WellFormed(m.header) /\ WellFormed(m.body) /\ WellFormed(m.trailer)

=============================================================================
