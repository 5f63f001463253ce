------------------------------- MODULE Redact -------------------------------
(***************************************************************************)
(* The masking of redact(): one walk over a tree of dicts and lists, by    *)
(* the names of the keys.                                                  *)
(*                                                                         *)
(* A tree is what it has where: a function from the ways to its leaves, in *)
(* steps into dicts and lists.  The walk keeps the shape of the tree and   *)
(* takes every way once, so what it makes of a leaf follows from the way   *)
(* there.  A text is abstracted to whether it has an "@" or nothing at     *)
(* all, and to how it has been masked; numbers, booleans, None and empty   *)
(* dicts and lists, none of which is masked, to one plain leaf.            *)
(*                                                                         *)
(* An operator that stands just before a similar one, and that nothing     *)
(* uses, is a mutant: what the code would be with one mistake.             *)
(***************************************************************************)
EXTENDS Naturals, FiniteSets, SequencesExt

Plain == [kind |-> "plain"]
Text(form) == [kind |-> "text", form |-> form, mask |-> "none"]
Texts == {Text(form) : form \in {"address", "word", "empty"}}

\* The default of _key.
NoKey == ""

\* A step into a dict, by key in lower case, and one into a list.
By(key) == [key |-> key, place |-> 0]
At(place) == [key |-> NoKey, place |-> place]
IntoDict(path) == path # <<>> /\ Last(path).place = 0

\* Ways that have come to the same place stand before a leaf, a dict or a list, all of them.
IsTree(tree) ==
  /\ DOMAIN tree \subseteq Seq([key : STRING, place : Nat])
  /\ tree \in [DOMAIN tree -> {Plain} \cup Texts]
  /\ \A path \in DOMAIN tree : \A i \in DOMAIN path : path[i].place > 0 => path[i].key = NoKey
  /\ \A p, q \in DOMAIN tree : \A i \in DOMAIN p :
       IsPrefix(SubSeq(p, 1, i - 1), q) =>
         i \in DOMAIN q /\ (p[i].place = 0 <=> q[i].place = 0)

NAME_KEYS == {"attendee_name", "full_name", "given_name", "family_name", "company",
              "invoice_name", "contact_name"}
EMAIL_KEYS == {"email", "attendee_email", "invoice_email", "contact_email", "sender"}
PHONE_KEYS == {"phone", "telephone", "mobile", "invoice_phone"}
ADDRESS_KEYS == {"street", "address", "zipcode", "city", "vat_id", "internal_reference",
                 "invoice_address", "attendee_address"}
FREETEXT_KEYS == {"comment", "checkin_text", "answer", "text", "message"}
PII_KEYS == NAME_KEYS \cup EMAIL_KEYS \cup PHONE_KEYS \cup ADDRESS_KEYS \cup FREETEXT_KEYS

PERSON_MARKERS == {"email", "attendee_email", "name_parts", "attendee_name_parts",
                   "attendee_name"}
CONTEXTUAL_NAME_KEYS == {"name"}
CONTAINER_KEYS == {"name_parts", "attendee_name_parts", "invoice_address"}
SAFE_IN_CONTAINER == {"country", "is_business", "id", "scheme", "_scheme"}

\* A text with no words in it comes back as REDACTED, from here alone.
mask_name(text) == [text EXCEPT !.mask = IF text.form = "empty" THEN "full" ELSE "name"]
mask_phone(text) == [text EXCEPT !.mask = "phone"]
REDACTED(text) == [text EXCEPT !.mask = "full"]
\* A text without "@" is masked as a name.
mask_email(text) == [text EXCEPT !.mask = IF text.form = "address" THEN "email" ELSE "name"]

_mask_scalar(key, leaf) ==
  IF leaf \in {Plain, Text("empty")} THEN leaf
  ELSE IF key \in EMAIL_KEYS \/ (leaf.form = "address" /\ key \in PII_KEYS)
  THEN mask_email(leaf)
  ELSE IF key \in PHONE_KEYS THEN mask_phone(leaf)
  ELSE IF key \in NAME_KEYS THEN mask_name(leaf)
  ELSE REDACTED(leaf)

\* "name" is not in NAME_KEYS: what gets this kind is masked in full.
_pii_kind(key, leaf) ==
  IF leaf = Text("address") THEN "email" ELSE IF key \in PHONE_KEYS THEN "phone" ELSE "name"

MaskedAs(key, leaf) == _mask_scalar(IF key \in PII_KEYS THEN key ELSE _pii_kind(key, leaf), leaf)

\* _key and _in_pii of the recursive call on the dict or the list that a step leads into.
Top == [key |-> NoKey, in_pii |-> FALSE]

IntoForgetsContainer(args, step) ==
  IF step.place > 0 THEN args
  ELSE [key |-> step.key, in_pii |-> step.key \in CONTAINER_KEYS]

Into(args, step) ==
  IF step.place > 0 THEN args
  ELSE [key |-> step.key, in_pii |-> args.in_pii \/ step.key \in CONTAINER_KEYS]

Within(path) == FoldLeft(Into, Top, path)

\* The keys of the dict that a leaf is an entry of.
Beside(tree, path) ==
  {other[Len(path)].key : other \in {p \in DOMAIN tree : /\ IsPrefix(Front(path), p)
                                                        /\ Len(path) <= Len(p)}}

\* A leaf under a key of a dict; `personal` if the dict is about a person.
Leaf(key, leaf, personal, inside) ==
  IF key \in SAFE_IN_CONTAINER \ PII_KEYS THEN leaf
  ELSE IF personal /\ key \in CONTEXTUAL_NAME_KEYS THEN
    IF leaf = Plain THEN leaf ELSE mask_name(leaf)
  ELSE IF inside \/ key \in PII_KEYS THEN MaskedAs(key, leaf)
  ELSE leaf

\* What the walk makes of the leaf it comes to on a way.
Walk(tree, path) ==
  LET leaf == tree[path]
      args == Within(Front(path))
      personal == args.in_pii \/ Beside(tree, path) \cap PERSON_MARKERS # {}
  IN IF IntoDict(path)
     THEN Leaf(Last(path).key, leaf, personal, Into(args, Last(path)).in_pii)
     ELSE IF args.in_pii THEN _mask_scalar(args.key, leaf) ELSE leaf

redact(tree, enabled) == IF enabled THEN [path \in DOMAIN tree |-> Walk(tree, path)] ELSE tree

ArgsAsTheyAre(tree) == redact(tree, FALSE)

\* Always on: the audit log is a file that outlives the request.
redact_args(tree) == redact(tree, TRUE)

-----------------------------------------------------------------------------
(* What it is for, said of one text and its place in the tree.             *)

\* Personal where it stands: under a personal key of its own, anywhere in a container unless
\* its key is one of the harmless ones, or under `name` in a record that is about a person.
PersonalInPlace(path, beside) ==
  LET key == Last(path).key
      contained == \E i \in DOMAIN path : path[i].key \in CONTAINER_KEYS
  IN /\ path # <<>>
     /\ \/ contained /\ key \notin SAFE_IN_CONTAINER
        \/ key \in PII_KEYS
        \/ key \in CONTEXTUAL_NAME_KEYS /\ beside \cap PERSON_MARKERS # {}

\* "any key in PII_KEYS is masked wherever it appears, at any depth": what is personal also
\* makes the list or the dict personal that stands under it, and all that is in there.
Personal(path, beside) ==
  \/ PersonalInPlace(path, beside)
  \/ \E i \in DOMAIN path : path[i].key \in PII_KEYS \ CONTAINER_KEYS

\* The numbers, codes and labels an answer is for are left alone, and no text that is personal
\* where it stands is shown.  Of one that a key further up makes personal, this says nothing.
MaskedInPlace(tree) ==
  \A path \in DOMAIN tree :
    tree[path].kind = "text" =>
      /\ tree[path].mask # "none" => Personal(path, Beside(tree, path))
      /\ PersonalInPlace(path, Beside(tree, path)) =>
           tree[path].mask # "none" \/ tree[path].form = "empty"

\* The whole of the sentence.
NoPersonalShown(tree) ==
  \A path \in DOMAIN tree :
    tree[path].kind = "text" /\ Personal(path, Beside(tree, path)) =>
      tree[path].mask # "none" \/ tree[path].form = "empty"

Unmasked(tree) ==
  [path \in DOMAIN tree |-> IF tree[path] = Plain THEN Plain ELSE Text(tree[path].form)]
=============================================================================
