--------------------------- MODULE ExportRelease ---------------------------
(***************************************************************************)
(* Exports: services/export_service.py freezes which rows an export names  *)
(* and never what they say; every download builds them again behind the    *)
(* policy lock and is released only when they are still the same. A        *)
(* refused download revokes the export. Two tabs of one member download    *)
(* while buyers, contacts, permissions and the approved draft change.      *)
(***************************************************************************)
EXTENDS Integers, FiniteSets, Sequences

CONSTANTS Rows, Contacts,        \* buyers, and the contact points each may have: 1..n in the order of their ids
          Tabs, MaxExports, MaxEdits

VARIABLES selectable,   \* buyer -> version, account permission, permitted contacts
          letter,       \* the draft: revision, approval (0: none), revisions ever approved
          mayExport,    \* the member's role
          exports,      \* export_jobs of the member
          downloads,    \* tab -> export it loaded, state it read
          handed,       \* what was given out, and what of it was withdrawn by then
          edits

exportVars == <<selectable, letter, mayExport, exports, downloads, handed, edits>>

NoDownload == [export |-> 0, state |-> "none"]
IsFirst(c, allowed) == c \in allowed /\ \A d \in allowed : c <= d

\* _buyer_material: the identity of each selected row, left out where its
\* version moved, its account is blocked or no contact of it is permitted.
Identity(b, contact) == [subject |-> b, version |-> selectable[b].version, part |-> contact]
BuyerMaterial(items, withContacts) ==
    LET there == {b \in DOMAIN items : selectable[b].version = items[b] /\ selectable[b].account}
        parts(b) == IF withContacts THEN {c \in Contacts : IsFirst(c, selectable[b].contacts)} ELSE {0}
    IN UNION {{Identity(b, c) : c \in parts(b)} : b \in there}

\* _approved_draft_content: the exact revision under the exact approval.
DraftMaterial == IF letter.approval = 0 THEN {}
                 ELSE {[subject |-> "draft", version |-> letter.revision, part |-> letter.approval]}

Material(kind, items) ==
    CASE kind = "draft" -> DraftMaterial
      [] kind = "accounts" -> BuyerMaterial(items, FALSE)
      [] kind = "contacts" -> BuyerMaterial(items, TRUE)

\* For the properties: what a row names is what is permitted or approved at this moment.
InForce(r) ==
    IF r.subject = "draft" THEN r.version = letter.revision /\ r.part = letter.approval
    ELSE /\ r.version = selectable[r.subject].version
         /\ selectable[r.subject].account /\ (r.part = 0 \/ r.part \in selectable[r.subject].contacts)

------------------------------------------------------------------------------
\* create_buyer_export, create_draft_export: only what is exportable now.
CreateExport(kind, selected) ==
    LET items == [b \in selected |-> selectable[b].version] IN
    /\ mayExport /\ Len(exports) < MaxExports /\ Material(kind, items) # {}
    /\ exports' = Append(exports, [kind |-> kind, rows |-> Material(kind, items), state |-> "ready", lapsed |-> FALSE])
    /\ UNCHANGED <<selectable, letter, mayExport, downloads, handed, edits>>

\* download_export up to the policy lock.
LoadExport(t, n) ==
    /\ downloads[t].export = 0 /\ mayExport
    /\ downloads' = [downloads EXCEPT ![t] =
           [export |-> n, state |-> IF exports[n].state = "ready" /\ exports[n].lapsed THEN "late" ELSE exports[n].state]]
    /\ UNCHANGED <<selectable, letter, mayExport, exports, handed, edits>>

Again(n) == Material(exports[n].kind, [b \in {r.subject : r \in exports[n].rows} |->
                                         (CHOOSE r \in exports[n].rows : r.subject = b).version])

\* Mutant: it is enough that as many rows are left.
SameRows_Counted(n) == Cardinality(Again(n)) = Cardinality(exports[n].rows)

\* authorize_export_content: nothing left out, the same identities.
SameRows(n) == Again(n) = exports[n].rows

\* The state was read before the lock and is not read again behind it.
Released(t) == downloads[t].state = "ready" /\ mayExport /\ SameRows(downloads[t].export)

\* A refusal is written as the state of the export, also over another one:
\* only the first refusal of a late one says expired.
FinishDownload(t) ==
    LET n == downloads[t].export IN
    /\ n # 0 /\ downloads' = [downloads EXCEPT ![t] = NoDownload]
    /\ IF Released(t)
       THEN handed' = handed \cup {[export |-> n, rows |-> Again(n), withdrawn |-> {r \in Again(n) : ~InForce(r)}]}
            /\ UNCHANGED exports
       ELSE /\ exports' = [exports EXCEPT ![n].state = IF downloads[t].state = "late" THEN "expired" ELSE "revoked"]
            /\ UNCHANGED handed
    /\ UNCHANGED <<selectable, letter, mayExport, edits>>

ExportLapses(n) ==
    /\ ~exports[n].lapsed /\ exports' = [exports EXCEPT ![n].lapsed = TRUE]
    /\ UNCHANGED <<selectable, letter, mayExport, downloads, handed, edits>>

------------------------------------------------------------------------------
Edit == edits < MaxEdits /\ edits' = edits + 1 /\ UNCHANGED <<exports, downloads, handed>>

EditBuyer(b) ==
    /\ Edit /\ selectable' = [selectable EXCEPT ![b].version = @ + 1] /\ UNCHANGED <<letter, mayExport>>

\* Behind the policy lock.
ChangeAccount(b) ==
    /\ Edit /\ selectable' = [selectable EXCEPT ![b].account = ~@] /\ UNCHANGED <<letter, mayExport>>
ChangeContact(b, c) ==
    /\ Edit /\ UNCHANGED <<letter, mayExport>>
    /\ selectable' = [selectable EXCEPT ![b].contacts = IF c \in @ THEN @ \ {c} ELSE @ \cup {c}]

\* Editing takes the approval away; approving gives a new one.
EditLetter ==
    /\ Edit /\ letter' = [letter EXCEPT !.revision = @ + 1, !.approval = 0] /\ UNCHANGED <<selectable, mayExport>>
ApproveLetter ==
    /\ Edit /\ letter.approval = 0 /\ UNCHANGED <<selectable, mayExport>>
    /\ letter' = [letter EXCEPT !.approval = letter.approvals + 1, !.approvals = @ + 1]

ChangeRole == Edit /\ mayExport' = ~mayExport /\ UNCHANGED <<selectable, letter>>

ExportInit ==
    /\ selectable = [b \in Rows |-> [version |-> 1, account |-> TRUE, contacts |-> Contacts]]
    /\ letter = [revision |-> 1, approval |-> 1, approvals |-> 1] /\ mayExport = TRUE
    /\ exports = << >> /\ downloads = [t \in Tabs |-> NoDownload] /\ handed = {} /\ edits = 0

ExportNext ==
    \/ \E kind \in {"accounts", "contacts"}, selected \in SUBSET Rows : CreateExport(kind, selected)
    \/ CreateExport("draft", {})
    \/ \E t \in Tabs : FinishDownload(t) \/ \E n \in DOMAIN exports : LoadExport(t, n)
    \/ \E n \in DOMAIN exports : ExportLapses(n)
    \/ \E b \in Rows : EditBuyer(b) \/ ChangeAccount(b) \/ \E c \in Contacts : ChangeContact(b, c)
    \/ EditLetter \/ ApproveLetter \/ ChangeRole

------------------------------------------------------------------------------
ExportTypeOK ==
    /\ mayExport \in BOOLEAN /\ edits \in 0..MaxEdits
    /\ \A n \in DOMAIN exports : exports[n].state \in {"ready", "expired", "revoked"}
    /\ \A t \in Tabs : downloads[t].export \in 0..Len(exports)

\* Whatever changed between the preparation and a download, every download of
\* an export hands out the rows, contacts, revision and approval it was
\* prepared with (authorize_export_content): never fewer, never others. And none
\* that was edited, blocked, withdrawn or no longer approved when it was put together,
\* though the export was read before the policy lock, when all of it may have been in force.
ExportsStayFrozen == \A h \in handed : h.rows = exports[h.export].rows /\ h.withdrawn = {}
==============================================================================
