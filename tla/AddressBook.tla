----------------------------- MODULE AddressBook -----------------------------
(***************************************************************************)
(* The address book: the recipients table with its unique handle, and the  *)
(* rows of the recipients page, which add, edit and remove.  A row saves   *)
(* the fields whose drafts differ from what the page read last.            *)
(***************************************************************************)
EXTENDS QueryCache

CONSTANTS
  Recipients,     \* the ids recipients may get
  Names,
  Handles         \* phone numbers and addresses, normalised

VARIABLES
  book,           \* the recipients table: what it holds for each id, or None
  drafts          \* the drafts of each row, or None when it is not being edited

bookVars == <<book, drafts>>

Entries == [name : Names, handle : Handles]

BookTypeOK ==
  /\ book \in [Recipients -> Entries \cup {None}]
  /\ drafts \in [Recipients -> Entries \cup {None}]
  /\ \A r, s \in Recipients :
       r # s /\ book[r] # None /\ book[s] # None => book[r].handle # book[s].handle

BookInit ==
  /\ drafts = [r \in Recipients |-> None]
  /\ book \in [Recipients -> {None} \cup {e \in Entries : e.name = CHOOSE n \in Names : TRUE}]
  /\ \A r, s \in Recipients :
       r # s /\ book[r] # None /\ book[s] # None => book[r].handle # book[s].handle

\* The update of a row by a patch of some of its fields.
Patched(row, patch) ==
  [f \in DOMAIN row |-> IF f \in DOMAIN patch THEN patch[f] ELSE row[f]]

\* A mutant: the handle is compared only when a recipient is added.
FreeForNew(r, handle) == book[r] # None \/ \A s \in Recipients : book[s] = None \/ book[s].handle # handle

\* Recipient.handle is @unique.
Free(r, handle) == \A s \in Recipients \ {r} : book[s] = None \/ book[s].handle # handle

\* createRecipient, or the collision.
ServeAdd(i) ==
  /\ Arrived(i, "add")
  /\ \E r \in Recipients :
       /\ book[r] = None
       /\ LET ok == Free(r, calls[i].arg.handle) IN
          /\ book' = IF ok THEN [book EXCEPT ![r] = calls[i].arg] ELSE book
          /\ Answer(i, ok)
  /\ UNCHANGED drafts

\* updateRecipient: written, not found, or the collision.
ServeSave(i) ==
  /\ Arrived(i, "save")
  /\ LET r    == calls[i].arg.id
         next == Patched(book[r], calls[i].arg.patch)
         ok   == book[r] # None /\ Free(r, next.handle)
     IN  /\ book' = IF ok THEN [book EXCEPT ![r] = next] ELSE book
         /\ Answer(i, ok)
  /\ UNCHANGED drafts

\* deleteRecipient
ServeRemove(i) ==
  /\ Arrived(i, "remove")
  /\ book' = [book EXCEPT ![calls[i].arg] = None]
  /\ Answer(i, book[calls[i].arg] # None)
  /\ UNCHANGED drafts

-----------------------------------------------------------------------------

\* What the page shows of r.
Row(r) == IF queries["recipients"].data = None THEN None ELSE queries["recipients"].data[r]

ClickAdd(e) ==
  /\ ~Pending(<<"add", None>>)
  /\ \E r \in Recipients : book[r] = None      \* bound: there is an id left
  /\ Send(<<"add", None>>, "add", e)
  /\ UNCHANGED bookVars

StartEdit(r) ==
  /\ Row(r) # None /\ drafts[r] = None
  /\ drafts' = [drafts EXCEPT ![r] = Row(r)]
  /\ UNCHANGED <<cacheVars, book>>

EditDraft(r, e) ==
  /\ drafts[r] # None /\ e # drafts[r]
  /\ drafts' = [drafts EXCEPT ![r] = e]
  /\ UNCHANGED <<cacheVars, book>>

StopEdit(r) ==
  /\ drafts[r] # None
  /\ drafts' = [drafts EXCEPT ![r] = None]
  /\ UNCHANGED <<cacheVars, book>>

\* save: a draft without changes only closes the row.
ClickSave(r) ==
  /\ drafts[r] # None /\ Row(r) # None
  /\ ~Pending(<<"save", r>>)
  /\ LET changed == {f \in DOMAIN Row(r) : drafts[r][f] # Row(r)[f]} IN
     /\ changed # {}
     /\ Send(<<"save", r>>, "save", [id |-> r, patch |-> [f \in changed |-> drafts[r][f]]])
  /\ UNCHANGED bookVars

ClickRemove(r) ==
  /\ Row(r) # None /\ drafts[r] = None
  /\ ~Pending(<<"remove", r>>)
  /\ Send(<<"remove", r>>, "remove", r)
  /\ UNCHANGED bookVars

\* The answer of a save closes the row, whatever is being edited there by now.
SettleBook(i, open) ==
  /\ calls[i].kind \in {"add", "save", "remove"}
  /\ Settle(i, open)
  /\ drafts' = IF calls[i].kind = "save" /\ calls[i].pc = "ok"
               THEN [drafts EXCEPT ![calls[i].arg.id] = None] ELSE drafts
  /\ UNCHANGED book
=============================================================================
