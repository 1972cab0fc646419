---------------------------- MODULE AnimalOutcome ----------------------------
(***************************************************************************)
(* The section "Outcome by animal" of the outcome report: a list of        *)
(* animals, a form for a new one, and a form in the place of one that is   *)
(* edited.  A form keeps a draft with ear tags, drugs, the authorization   *)
(* of the drugs and the outcome.  Ear tags, drugs and the authorization    *)
(* are components of their own: a form learns whether they are filled in   *)
(* through references React attaches when it has drawn them.               *)
(***************************************************************************)
EXTENDS Naturals, FiniteSets, SequencesExt

CONSTANTS
    MaxAnimals, MaxDrugs,   \* bounds: animals of the case, drugs of a draft
    Assigned,               \* whether the complaint has an assigned officer
    MaxChanges              \* bound: what the officer does in the forms

ASSUME AnimalAssumption ==
    /\ MaxAnimals \in Nat \ {0} /\ MaxDrugs \in Nat /\ MaxChanges \in Nat
    /\ Assigned \in BOOLEAN

VARIABLES
    animals,   \* the case API: per number, an animal or none
    list,      \* the animals of the store, which the section shows
    form,      \* "create" and "edit": their drafts
    editing,   \* the animal whose form is open, 0 if none is
    request,   \* the request under way: the overlay allows one
    changes

vars == <<animals, list, form, editing, request, changes>>

Animals == 1..MaxAnimals
Which == {"create", "edit"}
MaxTags == 2
Authorizations == {"none", "blank", "ok"}   \* blank: without officer or date
Results == {"none", "partial", "full"}      \* partial: without officer or date

NoAnimal == [exists |-> FALSE, tags |-> <<>>, drugs |-> <<>>, auth |-> "none", result |-> "none"]
NoRefs == [tags |-> <<>>, drugs |-> <<>>, auth |-> "initial"]
\* `base` is the animal as the form found it.
Closed == [open |-> FALSE, data |-> NoAnimal, refs |-> NoRefs, base |-> NoAnimal]
NoRequest == [op |-> "none", id |-> 0, data |-> NoAnimal, at |-> "none"]

Init ==
    /\ animals = [a \in Animals |-> NoAnimal] /\ list = animals
    /\ form = [w \in Which |-> Closed] /\ editing = 0
    /\ request = NoRequest /\ changes = 0

-----------------------------------------------------------------------------
(* What a form draws.                                                      *)

Above(items, i) ==
    {j \in DOMAIN items : \/ items[j].order < items[i].order
                          \/ items[j].order = items[i].order /\ j < i}

\* Sorted by their order, those with the same order as they come (orderBy).
Displayed(items) ==
    [n \in DOMAIN items |->
        items[CHOOSE i \in DOMAIN items : Cardinality(Above(items, i)) = n - 1]]

\* The authorization is drawn below the drugs; without one, a default.
DisplayedAuthorization(d) ==
    IF d.auth # "none" THEN d.auth ELSE IF Assigned THEN "ok" ELSE "blank"

Gone == [id |-> 0, order |-> 0, complete |-> TRUE]

\* The functions of the components are made once, and see their first values.
AttachedOnce(refs, shown) ==
    [i \in 1..(IF Len(refs) > Len(shown) THEN Len(refs) ELSE Len(shown)) |->
        IF i > Len(shown) THEN Gone ELSE
        IF i <= Len(refs) /\ refs[i].id = shown[i].id THEN refs[i] ELSE shown[i]]

\* As in the line that was commented out: references are pushed.
AttachedByPush(refs, shown) == refs \o shown

\* React clears the references of the last drawing, then sets those of the new one.
Attached(refs, shown) ==
    [i \in 1..(IF Len(refs) > Len(shown) THEN Len(refs) ELSE Len(shown)) |->
        IF i <= Len(shown) THEN shown[i] ELSE Gone]

AttachedAuthorization(ref, d) ==
    IF d.drugs # <<>> THEN DisplayedAuthorization(d)
    ELSE IF ref = "initial" THEN "initial" ELSE "gone"

\* The form for a new animal puts the default authorization in its draft.
Rendered(w, d) ==
    IF w = "create" /\ d.drugs # <<>> THEN [d EXCEPT !.auth = DisplayedAuthorization(d)] ELSE d

Drawn(w, d, f) ==
    LET r == Rendered(w, d)
    IN  [open |-> TRUE, data |-> r, base |-> f.base,
         refs |-> [tags |-> Attached(f.refs.tags, Displayed(r.tags)),
                   drugs |-> Attached(f.refs.drugs, Displayed(r.drugs)),
                   auth |-> AttachedAuthorization(f.refs.auth, r)]]

-----------------------------------------------------------------------------
(* What the officer does in a form.                                        *)

Idle == request.op = "none"

Changes(w, d) ==
    /\ Idle /\ form[w].open /\ changes < MaxChanges
    /\ changes' = changes + 1
    /\ form' = [form EXCEPT ![w] = Drawn(w, d, @)]
    /\ UNCHANGED <<animals, list, editing, request>>

NewId(items) == CHOOSE n \in 1..(Len(items) + 1) : \A i \in DOMAIN items : items[i].id # n

\* As the form for a new animal does it, and the form that edits does not.
NextOrderZero(w, items) == 0

NextOrder(w, items) ==
    IF w = "create" THEN 0
    ELSE IF items = <<>> THEN 1
    ELSE 1 + (CHOOSE n \in {items[i].order : i \in DOMAIN items} :
                 \A i \in DOMAIN items : items[i].order <= n)

AddTag(w) ==
    LET d == form[w].data
        order == IF d.tags = <<>> THEN 1 ELSE 2
    IN  /\ Len(d.tags) < MaxTags
        /\ Changes(w, [d EXCEPT !.tags =
               Append(@, [id |-> NewId(@), order |-> order, complete |-> FALSE])])

AddDrug(w) ==
    LET d == form[w].data
    IN  /\ Len(d.drugs) < MaxDrugs
        /\ Changes(w, [d EXCEPT !.drugs =
               Append(@, [id |-> NewId(@), order |-> NextOrder(w, @), complete |-> FALSE])])

\* What is changed is taken out and put at the end; its order stays.
Changed(items, i, complete) ==
    Append(RemoveAt(items, i), [items[i] EXCEPT !.complete = complete])

\* What stays is numbered again, as it was shown (its new ids stand for the old
\* ones).
Removed(items, i) ==
    LET rest == Displayed(RemoveAt(items, i))
    IN  [n \in DOMAIN rest |-> [rest[n] EXCEPT !.order = n]]

ChangeTag(w) == \E i \in DOMAIN form[w].data.tags, c \in BOOLEAN :
    Changes(w, [form[w].data EXCEPT !.tags = Changed(@, i, c)])

ChangeDrug(w) == \E i \in DOMAIN form[w].data.drugs, c \in BOOLEAN :
    Changes(w, [form[w].data EXCEPT !.drugs = Changed(@, i, c)])

RemoveTag(w) == \E i \in DOMAIN form[w].data.tags :
    Changes(w, [form[w].data EXCEPT !.tags = Removed(@, i)])

\* The authorization goes with the last drug.
RemoveDrugForgets(w) == \E i \in DOMAIN form[w].data.drugs :
    LET rest == Removed(form[w].data.drugs, i)
    IN  Changes(w, [form[w].data EXCEPT !.drugs = rest,
                                        !.auth = IF rest = <<>> THEN "none" ELSE @])

\* The authorization is emptied with the last drug, and the second of two
\* updates of one draft takes that back.
RemoveDrug(w) == \E i \in DOMAIN form[w].data.drugs :
    Changes(w, [form[w].data EXCEPT !.drugs = Removed(@, i)])

Authorize(w) == \E a \in Authorizations \ {"none"} :
    /\ form[w].data.drugs # <<>>
    /\ Changes(w, [form[w].data EXCEPT !.auth = a])

ChangeResult(w) == \E r \in Results :
    /\ form[w].data.result = "none" \/ r # "none"
    /\ Changes(w, [form[w].data EXCEPT !.result = r])

-----------------------------------------------------------------------------
(* Opening, leaving and saving a form.                                     *)

Left == changes < MaxChanges /\ changes' = changes + 1

OpenCreate ==
    /\ Idle /\ ~form["create"].open
    /\ form' = [form EXCEPT !["create"] = Drawn("create", NoAnimal, Closed)]
    /\ UNCHANGED <<animals, list, editing, request, changes>>

\* The form of another animal that is being edited is left without a question.
OpenEdit(a) ==
    /\ Idle /\ list[a].exists /\ editing # a
    /\ editing' = a
    /\ form' = [form EXCEPT !["edit"] = Drawn("edit", list[a], [Closed EXCEPT !.base = list[a]])]
    /\ UNCHANGED <<animals, list, request, changes>>

Cancel(w) ==
    /\ Idle /\ form[w].open /\ Left
    /\ form' = [form EXCEPT ![w] = Closed]
    /\ editing' = IF w = "edit" THEN 0 ELSE editing
    /\ UNCHANGED <<animals, list, request>>

RefsValid(refs) == \A i \in DOMAIN refs : refs[i].complete

\* The form for a new animal asks a reference that is gone, and that raises.
AuthorizationValid(w, ref) == ref \in {"initial", "ok"} \/ (w = "edit" /\ ref = "gone")

\* The species is always there: a draft starts with the one of the complaint or of the
\* animal, and the list it is chosen from has no way to clear it.
isValid(w) ==
    LET f == form[w]
    IN  /\ f.data.result # "partial"
        /\ RefsValid(f.refs.tags) /\ RefsValid(f.refs.drugs)
        /\ AuthorizationValid(w, f.refs.auth)

Sends(op, id, data) == request' = [op |-> op, id |-> id, data |-> data, at |-> "sent"]

handleSave ==
    /\ Idle /\ form["create"].open /\ Left
    /\ isValid("create")
    /\ Sends("create", 0, form["create"].data)
    /\ UNCHANGED <<animals, list, form, editing>>

\* The form is closed at once.
handleUpdate ==
    /\ Idle /\ form["edit"].open /\ Left
    /\ isValid("edit")
    /\ Sends("update", editing, form["edit"].data)
    /\ form' = [form EXCEPT !["edit"] = Closed] /\ editing' = 0
    /\ UNCHANGED <<animals, list>>

Delete(a) ==
    /\ Idle /\ list[a].exists /\ editing # a /\ Left
    /\ Sends("delete", a, NoAnimal)
    /\ UNCHANGED <<animals, list, form, editing>>

-----------------------------------------------------------------------------
(* The request.                                                            *)

Numbered(items) == [n \in DOMAIN items |-> [items[n] EXCEPT !.id = n, !.order = n]]

\* Ear tags and drugs are sent in the order of the draft, and numbered in that order.
\* Drugs and authorization travel apart: the latter as an action, if there is one.
Input(d) ==
    [exists |-> TRUE, tags |-> Numbered(d.tags), drugs |-> Numbered(d.drugs),
     auth |-> IF d.drugs # <<>> THEN d.auth ELSE "none", result |-> d.result]

Answers(at) == request' = [request EXCEPT !.at = at]

\* An action that is not sent may stay or go.
Serve ==
    /\ request.at = "sent" /\ request.op # "read"
    /\ \/ /\ request.op = "create"
          /\ \E a \in Animals : ~animals[a].exists
                /\ animals' = [animals EXCEPT ![a] = Input(request.data)]
       \/ /\ request.op = "update"
          /\ \E kept \in {"none", animals[request.id].auth} :
                LET new == Input(request.data)
                IN  animals' = [animals EXCEPT ![request.id] =
                        [new EXCEPT !.auth = IF @ = "none" THEN kept ELSE @]]
       \/ /\ request.op = "delete"
          /\ animals' = [animals EXCEPT ![request.id] = NoAnimal]
    /\ Answers("done")
    /\ UNCHANGED <<list, form, editing, changes>>

Fails ==
    /\ request.at = "sent" /\ request.op # "read" /\ Left
    /\ request' = NoRequest
    /\ UNCHANGED <<animals, list, form, editing>>

\* A saved animal, new or not, closes the form for a new one.
ReceiveDone ==
    /\ request.at = "done"
    /\ form' = IF request.op = "delete" THEN form ELSE [form EXCEPT !["create"] = Closed]
    /\ Sends("read", 0, NoAnimal)
    /\ UNCHANGED <<animals, list, editing, changes>>

\* A form that is open keeps the draft it started with.
Refresh ==
    /\ request.op = "read"
    /\ list' = animals /\ request' = NoRequest
    /\ UNCHANGED <<animals, form, editing, changes>>

RefreshFails ==
    /\ request.op = "read" /\ Left
    /\ request' = NoRequest
    /\ UNCHANGED <<animals, list, form, editing>>

Officer ==
    \/ \E w \in Which : \/ AddTag(w) \/ ChangeTag(w) \/ RemoveTag(w)
                        \/ AddDrug(w) \/ ChangeDrug(w) \/ RemoveDrug(w)
                        \/ Authorize(w) \/ ChangeResult(w) \/ Cancel(w)
    \/ OpenCreate \/ handleSave \/ handleUpdate
    \/ \E a \in Animals : OpenEdit(a) \/ Delete(a)

Next == Officer \/ Serve \/ Fails \/ ReceiveDone \/ Refresh \/ RefreshFails

Spec == Init /\ [][Next]_vars

-----------------------------------------------------------------------------
(* Properties.                                                             *)

Items(n) == [id : 1..n, order : 0..(n + 1), complete : BOOLEAN]
SeqsUpTo(S, n) == UNION {[1..k -> S] : k \in 0..n}

IsAnimal(d) ==
    /\ d.exists \in BOOLEAN /\ d.auth \in Authorizations /\ d.result \in Results
    /\ Len(d.tags) <= MaxTags /\ \A i \in DOMAIN d.tags : d.tags[i] \in Items(MaxTags)
    /\ Len(d.drugs) <= MaxDrugs /\ \A i \in DOMAIN d.drugs : d.drugs[i] \in Items(MaxDrugs)

\* What the section, its forms and the request hold: an animal never has more
\* ear tags than ears, and nothing is in edit without a form.
TypeOK ==
    /\ \A a \in Animals : IsAnimal(animals[a]) /\ IsAnimal(list[a])
    /\ \A w \in Which : form[w].open \in BOOLEAN /\ IsAnimal(form[w].data)
    /\ editing \in Animals \cup {0} /\ (editing # 0 <=> form["edit"].open)
    /\ request.op \in {"none", "create", "update", "delete", "read"} /\ IsAnimal(request.data)
    /\ request.at \in {"none", "sent", "done"} /\ changes \in 0..MaxChanges

ItemsComplete(d) == \A s \in {d.tags, d.drugs} : \A i \in DOMAIN s : s[i].complete

\* Whatever was added, removed, changed and reordered in a form, what the case
\* API holds of an animal was validated: each of its ear tags and drugs is
\* filled in, and its outcome has an officer and a date.
SavedIsComplete ==
    \A a \in Animals : ItemsComplete(animals[a]) /\ animals[a].result # "partial"

\* No component that is not shown any more can refuse the changes of an animal:
\* an edited draft that is filled in can be saved.
EditsCanBeSaved ==
    LET d == form["edit"].data
    IN  /\ form["edit"].open /\ ItemsComplete(d) /\ d.result # "partial"
        /\ (d.drugs # <<>> => DisplayedAuthorization(d) = "ok")
        => isValid("edit")

Place(items, id) == CHOOSE n \in DOMAIN items : Displayed(items)[n].id = id

\* Of two that a change leaves in place, the one above stays above.
SameOrder(old, new) ==
    \A x, y \in {old[i].id : i \in DOMAIN old} \cap {new[i].id : i \in DOMAIN new} :
        (Place(old, x) < Place(old, y)) = (Place(new, x) < Place(new, y))

StaysOpen(w) == form[w].open /\ form'[w].open /\ editing' = editing

\* A change leaves ear tags, and the drugs of the form that edits an animal,
\* where the officer sees them, although it moves what changed in the draft.
\* (The form for a new animal numbers its drugs 0, and they do jump.)
ShownInPlace ==
    [][/\ \A w \in Which : StaysOpen(w) => SameOrder(form[w].data.tags, form'[w].data.tags)
       /\ StaysOpen("edit") => SameOrder(form["edit"].data.drugs, form'["edit"].data.drugs)]_vars

\* Where an edit found drugs and who authorized them, the drugs it saves are
\* authorized, even when every drug was removed and others were added.  (Where
\* it found none, the form shows and checks a default it does not save.)
Authorized(d) == d.drugs # <<>> /\ d.auth = "ok"

AuthorizationStays ==
    [][(/\ Authorized(form["edit"].base)
        /\ request'.op = "update" /\ request' # request /\ request'.data.drugs # <<>>)
       => Authorized(request'.data)]_vars

=============================================================================
