------------------------------ MODULE Masking ------------------------------
(***************************************************************************)
(* What requestResponseSecurityConfigApplier (api/req_resp_logger_mw.go)   *)
(* does to a log before it is written.                                     *)
(*                                                                         *)
(* A JSON document is the function from the addresses of its nodes to the  *)
(* nodes.  An address is the sequence of steps from the root, each to a    *)
(* field of an object or to an item of a list.                             *)
(***************************************************************************)
EXTENDS Naturals, Sequences, FiniteSets

Key(k) == <<"key", k>>
Item(i) == <<"item", i>>
IsKey(step) == step[1] = "key"

Prefix(p, n) == SubSeq(p, 1, n)
Parent(p) == Prefix(p, Len(p) - 1)

(* Every node lies below an object, if a key leads to it, or a list.       *)
IsDocument(doc) ==
    /\ DOMAIN doc \subseteq Seq(UNION {{p[i] : i \in DOMAIN p} : p \in DOMAIN doc})
    /\ <<>> \in DOMAIN doc
    /\ \A p \in DOMAIN doc : \A n \in 1 .. Len(p) :
          /\ Prefix(p, n - 1) \in DOMAIN doc
          /\ doc[Prefix(p, n - 1)].kind = IF IsKey(p[n]) THEN "object" ELSE "list"

Node(kind) == [kind |-> kind]
LeafNode(value) == [kind |-> "leaf", value |-> value]

Leaf(value) == [p \in {<<>>} |-> LeafNode(value)]

(* Documents under a new root, each at the end of one step from it.        *)
Rooted(kind, below) ==
    [p \in {<<>>} \cup UNION {{<<s>> \o q : q \in DOMAIN below[s]} : s \in DOMAIN below} |->
        IF p = <<>> THEN Node(kind) ELSE below[Head(p)][Tail(p)]]

Object(fields) == Rooted("object", [s \in {Key(k) : k \in DOMAIN fields} |-> fields[s[2]]])
List(items) == Rooted("list", [s \in {Item(i) : i \in DOMAIN items} |-> items[s[2]]])

-----------------------------------------------------------------------------
MaskString == LeafNode("****")

IsField(p) == p # <<>> /\ IsKey(p[Len(p)])

(* A bug: objects within lists are passed over. *)
Field_NoItems(p) == p

(* The field whose value p is, or is an item of.                           *)
Field(p) == IF IsField(p) THEN p ELSE Parent(p)

HasKey(p, keys) == IsField(p) /\ p[Len(p)][2] \in keys

(* The objects maskMapValues is called with: the one at the root, and those*)
(* that are the value of a field it leaves as it is, or an item of that.   *)
Visits(doc, keys) ==
    LET visits[p \in DOMAIN doc] ==
            /\ doc[p].kind = "object"
            /\ \/ p = <<>>
               \/ /\ IsField(Field(p))
                  /\ ~HasKey(Field(p), keys)
                  /\ visits[Parent(Field(p))]
    IN  visits

(* The fields it finds in keys.                                            *)
Masked(doc, keys) == {p \in DOMAIN doc : HasKey(p, keys) /\ Visits(doc, keys)[Parent(p)]}

(* The value of such a field, with all that is below, makes place for the  *)
(* mask.                                                                   *)
maskMapValues(doc, keys) ==
    LET masked == Masked(doc, keys)
    IN  [p \in {q \in DOMAIN doc : \A n \in 1 .. Len(q) : Prefix(q, n - 1) \notin masked} |->
            IF p \in masked THEN MaskString ELSE doc[p]]

(* A body is the sequence of what has been written to it.  One that is not *)
(* a JSON object cannot be parsed as one and stays as it is.               *)
MaskedBody(body, keys) ==
    IF Len(body) = 1 /\ body[1][<<>>].kind = "object"
    THEN <<maskMapValues(body[1], keys)>>
    ELSE body

MaskedHeaders(headers, names) ==
    [name \in DOMAIN headers |->
        IF name \in names THEN MaskString.value ELSE headers[name]]

(* A log while request logging is disabled.                                *)
Blank == [status |-> 0, headers |-> <<>>,
          request |-> <<Object(<<>>)>>, response |-> <<Object(<<>>)>>]

(* No configuration, one with logging disabled, or one with things to mask.*)
Process(config, log) ==
    CASE config.is = "nil" -> log
      [] config.is = "disabled" -> Blank
      [] config.is = "enabled" ->
            [log EXCEPT !.headers = MaskedHeaders(@, config.headers),
                        !.request = MaskedBody(@, config.requestKeys),
                        !.response = MaskedBody(@, config.responseKeys)]

-----------------------------------------------------------------------------
(* The reference, which does not descend: the masked keys on an address.  A*)
(* list directly within a list hides what is in it from the masking.       *)
Nested(p, n) == \E i \in 1 .. n - 2 : ~IsKey(p[i]) /\ ~IsKey(p[i + 1])

Secret(p, keys) == {n \in 1 .. Len(p) : IsKey(p[n]) /\ p[n][2] \in keys /\ ~Nested(p, n)}

(* masked has the nodes of doc that no masked key leads to, unchanged, and *)
(* the mask in the place of the first masked key, with nothing below it.   *)
IsMaskOf(masked, doc, keys) ==
    /\ DOMAIN masked = {p \in DOMAIN doc : \A n \in Secret(p, keys) : n = Len(p)}
    /\ \A p \in DOMAIN masked :
          masked[p] = IF Secret(p, keys) = {} THEN doc[p] ELSE MaskString
=============================================================================
