---------------------------- MODULE SharesProofs ----------------------------
(***************************************************************************)
(* A token, and a download from a restricted link, is only for the link    *)
(* and the address a code was emailed for; codes are single-use, capped    *)
(* and superseded as long as requests for their address do not overlap; a  *)
(* restricted link keeps an address as long as two updates do not: for any *)
(* addresses, tabs, recipients, tries, links, codes and requests at once.  *)
(***************************************************************************)
EXTENDS Shares, TLAPS

(* The owner's side: the link and its allow-list. *)

LinksGrow == share.link <= links /\ \A o \in Tabs : edit[o].link <= links

\* What a request would leave if it committed now keeps an address.
KeepsWhenCommitted(o) ==
  /\ edit[o].op = "enable" =>
       /\ DOMAIN edit[o].write = Columns
       /\ KeepsAnEmail(edit[o].write["restricted"], edit[o].add)
  /\ edit[o].op = "update" =>
       /\ edit[o].link # 0
       /\ edit[o].link = share.link /\ ~skewed =>
            KeepsAnEmail(Written(share, edit[o].write).restricted,
                         (allow \ edit[o].remove) \union edit[o].add)

OneUpdate ==
  ~skewed => \A o, p \in Tabs : edit[o].op = "update" /\ edit[p].op = "update" => o = p

Owned == LinksGrow /\ OneUpdate /\ RestrictedHasEmails /\ \A o \in Tabs : KeepsWhenCommitted(o)

-----------------------------------------------------------------------------
(* The recipients' side: codes and tokens. *)

IsFor(n, link, e) == n \in 1 .. Len(issued) /\ issued[n] = <<link, e>>
Latest(n, link, e) == \A later \in n + 1 .. Len(issued) : issued[later] # <<link, e>>

\* A row belongs to the link there is, and holds the last code made for it.
RowIsCurrent(e) ==
  /\ codes[e].id = 0 => codes[e] = NoRow
  /\ codes[e].id # 0 => share.link # 0 /\ IsFor(codes[e].code, share.link, e)
                                       /\ Latest(codes[e].code, share.link, e)

\* A request judges a row of the link and the address it was made for.
Judging(g) == job[g].op \in {"discard", "consume", "miss"}
JobIsFor(g) ==
  /\ Serving(g) => job[g].link # 0
  /\ job[g].row.id = 0 => job[g].row = NoRow
  /\ Judging(g) => job[g].row.id # 0 /\ IsFor(job[g].row.code, job[g].link, job[g].email)
  /\ job[g].op = "miss" => job[g].row.tries < MaxTries

UnissuedIsUnused == \A n \in 1 .. MaxCodes : n > Len(issued) => grants[n] = 0 /\ misses[n] = 0

TokensHaveCodes == smtp => \A t \in tokens : IsFor(t.code, t.link, t.email)

\* Requests for one address that do not overlap: the row is as the one under
\* way has read it, or gone, and what it is about to do comes first.
At(g, e) == Serving(g) /\ job[g].email = e
OneAt(e) == \A g, h \in Guests : At(g, e) /\ At(h, e) => g = h
RowAsRead(g, e) ==
  \/ codes[e].id = 0
  \/ /\ codes[e].id = job[g].row.id /\ codes[e].code = job[g].row.code
     /\ codes[e].tries = job[g].row.tries
Judged(g, e) ==
  /\ job[g].op = "consume" => grants[job[g].row.code] = 0 /\ Latest(job[g].row.code, job[g].link, e)
  /\ job[g].op = "miss" => misses[job[g].row.code] <= job[g].row.tries + 1
RowIsUnspent(e) ==
  codes[e].id # 0 =>
    /\ grants[codes[e].code] = 0
    /\ (\A g \in Guests : At(g, e) => job[g].op # "miss") => misses[codes[e].code] <= codes[e].tries
CodesKeepBudget(e) ==
  \A n \in 1 .. Len(issued) : issued[n][2] = e => grants[n] <= 1 /\ misses[n] <= MaxTries
Serial(e) ==
  e \notin mixed =>
    /\ OneAt(e) /\ RowIsUnspent(e) /\ CodesKeepBudget(e)
    /\ \A g \in Guests : At(g, e) => RowAsRead(g, e) /\ Judged(g, e)

Earned ==
  /\ UnissuedIsUnused /\ TokensHaveCodes
  /\ \A e \in Emails : RowIsCurrent(e) /\ Serial(e)
  /\ \A g \in Guests : JobIsFor(g)

OwnerInv == OwnerTypes /\ Owned
GuestInv == GuestTypes /\ Earned
IInv == OwnerInv /\ GuestInv

-----------------------------------------------------------------------------
(* Fields. *)

LEMMA EditFields ==
  ASSUME OwnerTypes, NEW o \in Tabs
  PROVE  /\ edit[o] \in Edits
         /\ edit[o].op \in {"none", "enable", "update", "disable"}
         /\ edit[o].link \in 0 .. MaxLinks
         /\ edit[o].add \subseteq Emails /\ edit[o].remove \subseteq Emails
         /\ edit[o].write \in UNION {[C -> BOOLEAN] : C \in SUBSET Columns}
BY DEF OwnerTypes, Edits

LEMMA JobFields ==
  ASSUME GuestTypes, NEW g \in Guests
  PROVE  /\ job[g].op \in {"none", "issue", "discard", "consume", "miss"}
         /\ job[g].email \in Emails /\ job[g].link \in 0 .. MaxLinks
         /\ job[g].row \in CodeRows
         /\ job[g].row.id \in 0 .. MaxCodes /\ job[g].row.code \in 0 .. MaxCodes
         /\ job[g].row.tries \in 0 .. MaxTries /\ job[g].row.expired \in BOOLEAN
BY DEF GuestTypes, Jobs, CodeRows

LEMMA CodeFields ==
  ASSUME GuestTypes, NEW e \in Emails
  PROVE  /\ codes[e] \in CodeRows
         /\ codes[e].id \in 0 .. MaxCodes /\ codes[e].code \in 0 .. MaxCodes
         /\ codes[e].tries \in 0 .. MaxTries /\ codes[e].expired \in BOOLEAN
BY DEF GuestTypes, CodeRows

LEMMA NoEditType == NoEdit \in Edits /\ NoEdit.op = "none" /\ NoEdit.link = 0
<1> DEFINE nothing == [c \in {} |-> FALSE]
<1>1. nothing \in [{} -> BOOLEAN]
  OBVIOUS
<1>2. nothing \in UNION {[C -> BOOLEAN] : C \in SUBSET Columns}
  BY <1>1
<1>3. NoEdit = [op |-> "none", link |-> 0, write |-> nothing, add |-> {}, remove |-> {}]
  BY DEF NoEdit
<1> HIDE DEF nothing
<1> QED
  BY <1>2, <1>3, ConstantsAssumption DEF Edits

LEMMA NoRowType ==
  NoRow \in CodeRows /\ NoRow.id = 0 /\ NoRow.code = 0 /\ NoRow.tries = 0 /\ NoRow.expired = FALSE
BY ConstantsAssumption DEF NoRow, CodeRows

LEMMA NoJobType == NoJob \in Jobs /\ NoJob.op = "none" /\ NoJob.row = NoRow
<1>1. (CHOOSE e \in Emails : TRUE) \in Emails
  BY ConstantsAssumption
<1> QED
  BY <1>1, NoRowType, ConstantsAssumption DEF NoJob, Jobs

\* The values a request writes, and the row it leaves.
LEMMA ValuesType ==
  ASSUME NEW r \in BOOLEAN, NEW live \in BOOLEAN
  PROVE  /\ Values(r, live) \in UNION {[C -> BOOLEAN] : C \in SUBSET Columns}
         /\ DOMAIN Values(r, live) = Columns
         /\ Values(r, live)["restricted"] = r
<1>1. Values(r, live) \in [Columns -> BOOLEAN]
  BY DEF Values
<1> QED
  BY <1>1 DEF Values, Columns

LEMMA ChangesType ==
  ASSUME NEW r \in BOOLEAN, NEW live \in BOOLEAN, share \in ShareRows
  PROVE  /\ Changes(r, live) \in UNION {[C -> BOOLEAN] : C \in SUBSET Columns}
         /\ Written(share, Changes(r, live)).restricted = r
<1> DEFINE C == {c \in Columns : Values(r, live)[c] # Values(share.restricted, share.live)[c]}
<1>1. Changes(r, live) = [c \in C |-> Values(r, live)[c]]
  BY DEF Changes, Restrict
<1>2. Changes(r, live) \in [C -> BOOLEAN] /\ C \in SUBSET Columns
  BY <1>1 DEF Values
<1>3. "restricted" \in C <=> share.restricted # r
  BY DEF Values, Columns
<1>4. "restricted" \in C => Changes(r, live)["restricted"] = r
  BY <1>1 DEF Values, Columns
<1>5. Written(share, Changes(r, live)).restricted
        = IF "restricted" \in DOMAIN Changes(r, live) THEN Changes(r, live)["restricted"]
          ELSE share.restricted
  BY DEF Written, ShareRows
<1>6. DOMAIN Changes(r, live) = C
  BY <1>1
<1> QED
  BY <1>2, <1>3, <1>4, <1>5, <1>6

LEMMA WrittenType ==
  ASSUME share \in ShareRows, NEW w \in UNION {[C -> BOOLEAN] : C \in SUBSET Columns}
  PROVE  /\ Written(share, w) \in ShareRows
         /\ Written(share, w).link = share.link
         /\ Written(share, w).restricted
              = IF "restricted" \in DOMAIN w THEN w["restricted"] ELSE share.restricted
<1>1. PICK C \in SUBSET Columns : w \in [C -> BOOLEAN]
  OBVIOUS
<1>2. \A c \in DOMAIN w : w[c] \in BOOLEAN
  BY <1>1
<1> QED
  BY <1>2 DEF Written, ShareRows

-----------------------------------------------------------------------------
(* The owner's steps. *)

LEMMA OwnerRests ==
  ASSUME OwnerInv, UNCHANGED <<linkVars, edit, skewed>>
  PROVE  OwnerInv'
<1>1. UNCHANGED <<share, links, allow, edit, skewed>>
  BY DEF linkVars
<1>2. OwnerTypes'
  BY <1>1 DEF OwnerInv, OwnerTypes
<1>3. LinksGrow' /\ OneUpdate' /\ RestrictedHasEmails'
  BY <1>1 DEF OwnerInv, Owned, LinksGrow, OneUpdate, RestrictedHasEmails
<1>4. ASSUME NEW o \in Tabs PROVE KeepsWhenCommitted(o)'
  BY <1>1 DEF OwnerInv, Owned, KeepsWhenCommitted, Written
<1> QED
  BY <1>2, <1>3, <1>4 DEF OwnerInv, Owned

\* A request that has read and checked.
LEMMA Begins ==
  ASSUME OwnerInv, NEW o \in Tabs, NEW x \in Edits, ~Busy(o), Begin(o, x), UNCHANGED linkVars,
         x.link <= links,
         x.op = "enable" => DOMAIN x.write = Columns /\ KeepsAnEmail(x.write["restricted"], x.add),
         x.op = "update" => /\ x.link # 0
                            /\ KeepsAnEmail(Written(share, x.write).restricted,
                                            (allow \ x.remove) \union x.add)
  PROVE  OwnerInv'
<1>1. /\ UNCHANGED <<share, links, allow>>
      /\ edit' = [edit EXCEPT ![o] = x]
      /\ skewed' = (skewed \/ (x.op = "update" /\ \E other \in Tabs : edit[other].op = "update"))
  BY DEF linkVars, Begin
<1>2. OwnerTypes
  BY DEF OwnerInv
<1>3. edit'[o] = x /\ \A p \in Tabs \ {o} : edit'[p] = edit[p]
  BY <1>1, <1>2 DEF OwnerTypes
<1>4. OwnerTypes'
  BY <1>1, <1>2 DEF OwnerTypes
<1>5. LinksGrow' /\ RestrictedHasEmails'
  BY <1>1, <1>3 DEF OwnerInv, Owned, LinksGrow, RestrictedHasEmails
<1>6. OneUpdate'
  <2> SUFFICES ASSUME ~skewed', NEW p \in Tabs, NEW q \in Tabs,
                      edit'[p].op = "update", edit'[q].op = "update"
               PROVE  p = q
    BY DEF OneUpdate
  <2>1. ~skewed /\ (x.op = "update" => \A r \in Tabs : edit[r].op # "update")
    BY <1>1
  <2> QED
    BY <1>3, <2>1 DEF OwnerInv, Owned, OneUpdate
<1>7. ASSUME NEW p \in Tabs PROVE KeepsWhenCommitted(p)'
  <2>1. skewed => skewed'
    BY <1>1
  <2> QED
    BY <1>1, <1>3, <2>1 DEF OwnerInv, Owned, KeepsWhenCommitted
<1> QED
  BY <1>4, <1>5, <1>6, <1>7 DEF OwnerInv, Owned

\* A request whose row has gone, or that finds a share there already.
LEMMA EndsWithoutEffect ==
  ASSUME OwnerInv, NEW o \in Tabs, End(o), UNCHANGED linkVars
  PROVE  OwnerInv'
<1>1. UNCHANGED <<share, links, allow, skewed>> /\ edit' = [edit EXCEPT ![o] = NoEdit]
  BY DEF linkVars, End
<1>2. OwnerTypes
  BY DEF OwnerInv
<1>3. edit'[o] = NoEdit /\ \A p \in Tabs \ {o} : edit'[p] = edit[p]
  BY <1>1, <1>2 DEF OwnerTypes
<1>4. OwnerTypes'
  BY <1>1, <1>2, NoEditType DEF OwnerTypes
<1>5. links \in Nat
  BY <1>2, ConstantsAssumption DEF OwnerTypes
<1>6. LinksGrow' /\ RestrictedHasEmails' /\ OneUpdate'
  BY <1>1, <1>3, <1>5, NoEditType DEF OwnerInv, Owned, LinksGrow, RestrictedHasEmails, OneUpdate
<1>7. ASSUME NEW p \in Tabs PROVE KeepsWhenCommitted(p)'
  BY <1>1, <1>3, NoEditType DEF OwnerInv, Owned, KeepsWhenCommitted
<1> QED
  BY <1>4, <1>6, <1>7 DEF OwnerInv, Owned

\* A new link has a number no request has read.
LEMMA Enables ==
  ASSUME OwnerInv, NEW o \in Tabs, CommitEnable(o), share.link = 0
  PROVE  OwnerInv'
<1>1. /\ edit[o].op = "enable" /\ links < MaxLinks
      /\ links' = links + 1
      /\ share' = [Written(share, edit[o].write) EXCEPT !.link = links + 1]
      /\ allow' = edit[o].add
      /\ skewed' = skewed /\ edit' = [edit EXCEPT ![o] = NoEdit]
  BY DEF CommitEnable, End
<1>2. OwnerTypes
  BY DEF OwnerInv
<1>3. edit'[o] = NoEdit /\ \A p \in Tabs \ {o} : edit'[p] = edit[p]
  BY <1>1, <1>2 DEF OwnerTypes
<1>4. Written(share, edit[o].write) \in ShareRows /\ links \in Nat
  BY <1>2, EditFields, WrittenType, ConstantsAssumption DEF OwnerTypes
<1>5. /\ share' \in ShareRows /\ share'.link = links + 1
      /\ share'.restricted = Written(share, edit[o].write).restricted
  BY <1>1, <1>4, ConstantsAssumption DEF ShareRows
<1>6. OwnerTypes'
  BY <1>1, <1>2, <1>5, NoEditType, EditFields, ConstantsAssumption DEF OwnerTypes
<1>7. \A p \in Tabs : edit'[p].link <= links
  BY <1>3, <1>4, NoEditType DEF OwnerInv, Owned, LinksGrow
<1>8. LinksGrow'
  <2>1. ASSUME NEW p \in Tabs PROVE edit'[p].link <= links + 1
    <3>1. edit'[p].link \in Nat
      BY <1>6 DEF OwnerTypes, Edits
    <3> QED
      BY <1>4, <1>7, <3>1
  <2> QED
    BY <1>1, <1>4, <1>5, <2>1 DEF LinksGrow
<1>9. OneUpdate'
  BY <1>1, <1>3, NoEditType DEF OwnerInv, Owned, OneUpdate
<1>10. RestrictedHasEmails'
  <2>1. share'.restricted = edit[o].write["restricted"]
    BY <1>1, <1>2, <1>5, EditFields, WrittenType
       DEF OwnerInv, Owned, KeepsWhenCommitted, Columns, OwnerTypes
  <2> QED
    BY <1>1, <2>1 DEF OwnerInv, Owned, KeepsWhenCommitted, RestrictedHasEmails
<1>11. ASSUME NEW p \in Tabs PROVE KeepsWhenCommitted(p)'
  <2>1. edit'[p].link # share'.link
    <3>1. edit'[p].link \in Nat
      BY <1>6 DEF OwnerTypes, Edits
    <3> QED
      BY <1>4, <1>5, <1>7, <3>1
  <2> QED
    BY <1>3, <2>1, NoEditType DEF OwnerInv, Owned, KeepsWhenCommitted
<1> QED
  BY <1>6, <1>8, <1>9, <1>10, <1>11 DEF OwnerInv, Owned

LEMMA Updates ==
  ASSUME OwnerInv, NEW o \in Tabs, CommitUpdate(o),
         share.link = edit[o].link, edit[o].add \cap allow = {}
  PROVE  OwnerInv'
<1>1. /\ edit[o].op = "update"
      /\ share' = Written(share, edit[o].write)
      /\ allow' = (allow \ edit[o].remove) \union edit[o].add
      /\ links' = links /\ skewed' = skewed /\ edit' = [edit EXCEPT ![o] = NoEdit]
  BY DEF CommitUpdate, End
<1>2. OwnerTypes
  BY DEF OwnerInv
<1>3. edit'[o] = NoEdit /\ \A p \in Tabs \ {o} : edit'[p] = edit[p]
  BY <1>1, <1>2 DEF OwnerTypes
<1>4. share' \in ShareRows /\ share'.link = share.link /\ links \in Nat
  BY <1>1, <1>2, EditFields, WrittenType, ConstantsAssumption DEF OwnerTypes
<1>5. OwnerTypes'
  BY <1>1, <1>2, <1>4, NoEditType, EditFields DEF OwnerTypes
<1>6. LinksGrow' /\ OneUpdate'
  BY <1>1, <1>3, <1>4, NoEditType DEF OwnerInv, Owned, LinksGrow, OneUpdate
<1>7. RestrictedHasEmails'
  BY <1>1 DEF OwnerInv, Owned, KeepsWhenCommitted, RestrictedHasEmails
<1>8. ASSUME NEW p \in Tabs PROVE KeepsWhenCommitted(p)'
  <2>1. ~skewed /\ edit'[p].op = "update" => FALSE
    BY <1>1, <1>3, NoEditType DEF OwnerInv, Owned, OneUpdate
  <2> QED
    BY <1>1, <1>3, <2>1, NoEditType DEF OwnerInv, Owned, KeepsWhenCommitted
<1> QED
  BY <1>5, <1>6, <1>7, <1>8 DEF OwnerInv, Owned

LEMMA Disables ==
  ASSUME OwnerInv, NEW o \in Tabs, CommitDisable(o), share.link = edit[o].link
  PROVE  OwnerInv'
<1>1. /\ share' = NoShare /\ allow' = {}
      /\ links' = links /\ skewed' = skewed /\ edit' = [edit EXCEPT ![o] = NoEdit]
  BY DEF CommitDisable, End
<1>2. OwnerTypes
  BY DEF OwnerInv
<1>3. edit'[o] = NoEdit /\ \A p \in Tabs \ {o} : edit'[p] = edit[p]
  BY <1>1, <1>2 DEF OwnerTypes
<1>4. /\ share' \in ShareRows /\ share'.link = 0 /\ share'.restricted = FALSE
      /\ links \in Nat
  BY <1>1, <1>2, ConstantsAssumption DEF OwnerTypes, NoShare, ShareRows
<1>5. OwnerTypes'
  BY <1>1, <1>2, <1>4, NoEditType DEF OwnerTypes
<1>6. LinksGrow' /\ OneUpdate' /\ RestrictedHasEmails'
  BY <1>1, <1>3, <1>4, NoEditType DEF OwnerInv, Owned, LinksGrow, OneUpdate, RestrictedHasEmails
<1>7. ASSUME NEW p \in Tabs PROVE KeepsWhenCommitted(p)'
  BY <1>3, <1>4, NoEditType DEF OwnerInv, Owned, KeepsWhenCommitted
<1> QED
  BY <1>5, <1>6, <1>7 DEF OwnerInv, Owned

-----------------------------------------------------------------------------
(* The recipients' steps. *)

\* What a code's row says about its number, in one place.
LEMMA RowFacts ==
  ASSUME GuestInv, NEW e \in Emails, codes[e].id # 0
  PROVE  /\ share.link # 0 /\ codes[e].code \in 1 .. Len(issued) /\ codes[e].code \in 1 .. MaxCodes
         /\ issued[codes[e].code] = <<share.link, e>> /\ issued[codes[e].code][2] = e
         /\ Latest(codes[e].code, share.link, e)
<1>1. IsFor(codes[e].code, share.link, e) /\ Latest(codes[e].code, share.link, e) /\ share.link # 0
  BY DEF GuestInv, Earned, RowIsCurrent
<1>2. Len(issued) \in Nat /\ Len(issued) <= MaxCodes
  BY DEF GuestInv, GuestTypes
<1> QED
  BY <1>1, <1>2, ConstantsAssumption DEF IsFor

\* The owner, the clock and other tables: rows stay, or all go.
LEMMA GuestsRest ==
  ASSUME GuestInv, UNCHANGED <<smtp, guestVars>>, codes' \in [Emails -> CodeRows],
         \A e \in Emails :
           \/ codes'[e] = NoRow
           \/ /\ codes[e].id # 0 /\ codes'[e].id = codes[e].id /\ codes'[e].code = codes[e].code
              /\ codes'[e].tries = codes[e].tries /\ share'.link = share.link
  PROVE  GuestInv'
<1>1. UNCHANGED <<smtp, job, inbox, issued, tokens, grants, misses, mixed>>
  BY DEF guestVars
<1>2. GuestTypes'
  BY <1>1 DEF GuestInv, GuestTypes
<1>3. UnissuedIsUnused' /\ TokensHaveCodes'
  BY <1>1 DEF GuestInv, Earned, UnissuedIsUnused, TokensHaveCodes, IsFor
<1>4. ASSUME NEW g \in Guests PROVE JobIsFor(g)'
  BY <1>1 DEF GuestInv, Earned, JobIsFor, IsFor, Judging, Serving
<1>5. ASSUME NEW e \in Emails PROVE RowIsCurrent(e)'
  BY <1>1, NoRowType DEF GuestInv, Earned, RowIsCurrent, IsFor, Latest
<1>6. ASSUME NEW e \in Emails PROVE Serial(e)'
  <2> SUFFICES ASSUME e \notin mixed
               PROVE  (OneAt(e) /\ RowIsUnspent(e) /\ CodesKeepBudget(e)
                        /\ \A g \in Guests : At(g, e) => RowAsRead(g, e) /\ Judged(g, e))'
    BY <1>1 DEF Serial
  <2>1. /\ OneAt(e) /\ RowIsUnspent(e) /\ CodesKeepBudget(e)
        /\ \A g \in Guests : At(g, e) => RowAsRead(g, e) /\ Judged(g, e)
    BY DEF GuestInv, Earned, Serial
  <2>2. OneAt(e)' /\ CodesKeepBudget(e)'
    BY <1>1, <2>1 DEF OneAt, CodesKeepBudget, At, Serving
  <2>3. RowIsUnspent(e)'
    BY <1>1, <2>1, NoRowType DEF RowIsUnspent, At, Serving
  <2>4. ASSUME NEW g \in Guests, At(g, e)' PROVE (RowAsRead(g, e) /\ Judged(g, e))'
    BY <1>1, <2>1, <2>4, NoRowType DEF RowAsRead, Judged, Latest, At, Serving
  <2> QED
    BY <2>2, <2>3, <2>4
<1> QED
  BY <1>2, <1>3, <1>4, <1>5, <1>6 DEF GuestInv, Earned

\* A request has read the row and, if there was a guess, judged it.
LEMMA Takes ==
  ASSUME GuestInv, NEW g \in Guests, NEW x \in Jobs, ~Serving(g), Take(g, x),
         x.op # "none", x.link = share.link, share.link # 0, x.row = codes[x.email],
         x.op \in {"discard", "consume", "miss"} => x.row.id # 0,
         x.op = "miss" => x.row.tries < MaxTries,
         \/ x.op # "miss" /\ UNCHANGED misses
         \/ x.op = "miss" /\ misses' = IF misses[x.row.code] <= MaxTries
                                       THEN [misses EXCEPT ![x.row.code] = @ + 1] ELSE misses,
         UNCHANGED <<smtp, share, codes, inbox, issued, tokens, grants>>
  PROVE  GuestInv'
<1>1. /\ job' = [job EXCEPT ![g] = x]
      /\ mixed' = IF \E other \in Guests : Serving(other) /\ job[other].email = x.email
                  THEN mixed \union {x.email} ELSE mixed
  BY DEF Take
<1>t. GuestTypes
  BY DEF GuestInv
<1>x. x.email \in Emails /\ x.row \in CodeRows
  BY DEF Jobs
<1>2. job'[g] = x /\ \A h \in Guests \ {g} : job'[h] = job[h]
  BY <1>1, <1>t DEF GuestTypes
<1>3. /\ misses' \in [1 .. MaxCodes -> 0 .. MaxTries + 1]
      /\ \A n \in 1 .. MaxCodes : misses'[n] = misses[n]
           \/ (x.op = "miss" /\ n = x.row.code /\ misses'[n] <= misses[n] + 1)
  <2>t. misses \in [1 .. MaxCodes -> 0 .. MaxTries + 1]
    BY <1>t DEF GuestTypes
  <2>1. CASE x.op = "miss" /\ misses[x.row.code] <= MaxTries
    <3> DEFINE c == x.row.code
    <3>1. c \in 1 .. MaxCodes /\ misses' = [misses EXCEPT ![c] = @ + 1]
      BY <2>1, <1>x, RowFacts
    <3>2. misses[c] \in Nat /\ misses[c] + 1 \in 0 .. MaxTries + 1
      BY <2>t, <2>1, <3>1, ConstantsAssumption
    <3>3. misses'[c] = misses[c] + 1 /\ \A n \in (1 .. MaxCodes) \ {c} : misses'[n] = misses[n]
      BY <2>t, <3>1
    <3>4. misses' \in [1 .. MaxCodes -> 0 .. MaxTries + 1]
      BY <2>t, <3>1, <3>2
    <3>5. misses'[c] <= misses[c] + 1
      BY <3>2, <3>3
    <3> HIDE DEF c
    <3>6. ASSUME NEW n \in 1 .. MaxCodes
          PROVE  misses'[n] = misses[n] \/ (n = c /\ misses'[n] <= misses[n] + 1)
      BY <3>3, <3>5
    <3> QED
      BY <2>1, <3>4, <3>6 DEF c
  <2>2. CASE misses' = misses
    <3>1. misses' \in [1 .. MaxCodes -> 0 .. MaxTries + 1]
      BY <2>t, <2>2
    <3>2. \A n \in 1 .. MaxCodes : misses'[n] = misses[n]
      BY <2>2
    <3> QED
      BY <3>1, <3>2
  <2>3. \/ x.op = "miss" /\ misses[x.row.code] <= MaxTries
        \/ misses' = misses
    OBVIOUS
  <2> QED
    BY <2>1, <2>2, <2>3
<1>4. GuestTypes'
  BY <1>1, <1>t, <1>x, <1>3 DEF GuestTypes
<1>5. UnissuedIsUnused'
  <2> SUFFICES ASSUME NEW n \in 1 .. MaxCodes, n > Len(issued)
               PROVE  grants[n] = 0 /\ misses'[n] = 0
    BY DEF UnissuedIsUnused
  <2>1. x.op = "miss" => n # x.row.code
    BY <1>x, <1>t, RowFacts DEF GuestTypes
  <2> QED
    BY <1>3, <2>1 DEF GuestInv, Earned, UnissuedIsUnused
<1>6. TokensHaveCodes'
  BY DEF GuestInv, Earned, TokensHaveCodes, IsFor
<1>7. ASSUME NEW e \in Emails PROVE RowIsCurrent(e)'
  BY DEF GuestInv, Earned, RowIsCurrent, IsFor, Latest
<1>8. ASSUME NEW h \in Guests PROVE JobIsFor(h)'
  <2>1. CASE h = g
    BY <1>2, <1>x, <2>1, RowFacts DEF GuestInv, Earned, JobIsFor, IsFor, Judging, Serving, RowIsCurrent
  <2>2. CASE h # g
    BY <1>2, <2>2 DEF GuestInv, Earned, JobIsFor, IsFor, Judging, Serving
  <2> QED
    BY <2>1, <2>2
<1>9. ASSUME NEW e \in Emails PROVE Serial(e)'
  <2> SUFFICES ASSUME e \notin mixed'
               PROVE  (OneAt(e) /\ RowIsUnspent(e) /\ CodesKeepBudget(e)
                        /\ \A h \in Guests : At(h, e) => RowAsRead(h, e) /\ Judged(h, e))'
    BY DEF Serial
  <2>1. /\ OneAt(e) /\ RowIsUnspent(e) /\ CodesKeepBudget(e)
        /\ \A h \in Guests : At(h, e) => RowAsRead(h, e) /\ Judged(h, e)
    BY <1>1 DEF GuestInv, Earned, Serial
  <2>2. CASE e # x.email
    <3>1. \A h \in Guests : At(h, e)' <=> At(h, e) /\ h # g
      BY <1>2, <2>2 DEF At, Serving
    <3>2. \A n \in 1 .. Len(issued) : issued[n][2] = e => misses'[n] = misses[n]
      <4> SUFFICES ASSUME NEW n \in 1 .. Len(issued), issued[n][2] = e PROVE misses'[n] = misses[n]
        OBVIOUS
      <4>1. n \in 1 .. MaxCodes
        BY <1>t, ConstantsAssumption DEF GuestTypes
      <4>2. x.op = "miss" => issued[x.row.code][2] = x.email
        BY <1>x, RowFacts
      <4> QED
        BY <1>3, <2>2, <4>1, <4>2
    <3>3. OneAt(e)' /\ CodesKeepBudget(e)'
      BY <2>1, <3>1, <3>2 DEF OneAt, CodesKeepBudget
    <3>4. RowIsUnspent(e)'
      <4> SUFFICES ASSUME codes[e].id # 0
                   PROVE  /\ grants[codes[e].code] = 0
                          /\ (\A h \in Guests : At(h, e)' => job'[h].op # "miss")
                               => misses'[codes[e].code] <= codes[e].tries
        BY DEF RowIsUnspent
      <4>1. misses'[codes[e].code] = misses[codes[e].code]
        BY <3>2, RowFacts
      <4>2. \A h \in Guests : At(h, e) => At(h, e)' /\ job'[h] = job[h]
        BY <1>2, <3>1 DEF At
      <4> QED
        BY <2>1, <4>1, <4>2 DEF RowIsUnspent
    <3>5. ASSUME NEW h \in Guests, At(h, e)' PROVE (RowAsRead(h, e) /\ Judged(h, e))'
      <4>1. At(h, e) /\ job'[h] = job[h]
        BY <1>2, <3>1, <3>5
      <4>2. Judging(h) => job[h].row.code \in 1 .. Len(issued) /\ issued[job[h].row.code][2] = e
        BY <4>1 DEF GuestInv, Earned, JobIsFor, IsFor, At
      <4>3. Judging(h) => misses'[job[h].row.code] = misses[job[h].row.code]
        BY <3>2, <4>2
      <4> QED
        BY <2>1, <4>1, <4>3 DEF RowAsRead, Judged, Judging, Latest
    <3> QED
      BY <3>3, <3>4, <3>5
  <2>3. CASE e = x.email
    <3>1. \A h \in Guests : ~At(h, e)
      BY <1>1, <2>3 DEF At
    <3>2. \A h \in Guests : At(h, e)' <=> h = g
      BY <1>2, <2>3, <3>1 DEF At, Serving
    <3>3. OneAt(e)'
      BY <3>2 DEF OneAt
    <3>4. codes[e].id # 0 => grants[codes[e].code] = 0 /\ misses[codes[e].code] <= codes[e].tries
      BY <2>1, <3>1 DEF RowIsUnspent
    <3>5. RowIsUnspent(e)'
      BY <1>2, <3>2, <3>4 DEF RowIsUnspent
    <3>6. x.op = "miss" => /\ misses'[x.row.code] <= x.row.tries + 1 /\ misses'[x.row.code] <= MaxTries
      <4> SUFFICES ASSUME x.op = "miss"
                   PROVE  misses'[x.row.code] <= x.row.tries + 1 /\ misses'[x.row.code] <= MaxTries
        OBVIOUS
      <4>1. x.row.code \in 1 .. MaxCodes /\ x.row.tries \in Nat
        BY <1>x, RowFacts, CodeFields, <1>t
      <4>2. misses'[x.row.code] \in Nat /\ misses[x.row.code] \in Nat
        BY <4>1, <1>3, <1>t DEF GuestTypes
      <4>3. misses'[x.row.code] <= misses[x.row.code] + 1 /\ misses[x.row.code] <= x.row.tries
        BY <1>3, <2>3, <3>4, <4>1, <4>2
      <4> QED
        BY <4>1, <4>2, <4>3, ConstantsAssumption
    <3>7. CodesKeepBudget(e)'
      <4> SUFFICES ASSUME NEW n \in 1 .. Len(issued), issued[n][2] = e
                   PROVE  grants[n] <= 1 /\ misses'[n] <= MaxTries
        BY DEF CodesKeepBudget
      <4>1. n \in 1 .. MaxCodes
        BY <1>t, ConstantsAssumption DEF GuestTypes
      <4> QED
        BY <1>3, <2>1, <3>6, <4>1 DEF CodesKeepBudget
    <3>8. (RowAsRead(g, e) /\ Judged(g, e))'
      <4>1. RowAsRead(g, e)'
        BY <1>2, <2>3 DEF RowAsRead
      <4>2. x.op = "consume" => grants[x.row.code] = 0 /\ Latest(x.row.code, x.link, e)
        BY <1>x, <2>3, <3>4, RowFacts
      <4> QED
        BY <1>2, <3>6, <4>1, <4>2 DEF Judged, Latest
    <3> QED
      BY <3>2, <3>3, <3>5, <3>7, <3>8
  <2> QED
    BY <2>2, <2>3
<1> QED
  BY <1>4, <1>5, <1>6, <1>7, <1>8, <1>9 DEF GuestInv, Earned

\* A request has done to its address's row what it came for, or nothing.
LEMMA Leaves ==
  ASSUME GuestInv, NEW g \in Guests, Serving(g), Leave(g),
         UNCHANGED <<smtp, share, inbox, issued, misses>>,
         codes' \in [Emails -> CodeRows],
         \A e \in Emails :
           \/ codes'[e] = codes[e]
           \/ e = job[g].email /\ codes'[e] = NoRow
           \/ /\ e = job[g].email /\ codes[e].id # 0
              /\ codes'[e].id = codes[e].id /\ codes'[e].code = codes[e].code,
         job[g].email \notin mixed /\ codes'[job[g].email].id # 0 =>
           /\ grants[codes'[job[g].email].code] = 0
           /\ misses[codes'[job[g].email].code] <= codes'[job[g].email].tries,
         tokens' \subseteq [link : 1 .. MaxLinks, email : Emails, code : 0 .. MaxCodes],
         TokensHaveCodes',
         \/ UNCHANGED grants
         \/ /\ job[g].op = "consume" /\ grants' = [grants EXCEPT ![job[g].row.code] = @ + 1]
            /\ job[g].email \notin mixed => codes'[job[g].email].id = 0
  PROVE  GuestInv'
<1> DEFINE mine == job[g].email
           c == job[g].row.code
<1>1. job' = [job EXCEPT ![g] = NoJob] /\ mixed' = mixed
  BY DEF Leave
<1>t. GuestTypes
  BY DEF GuestInv
<1>2. job'[g] = NoJob /\ \A h \in Guests \ {g} : job'[h] = job[h]
  BY <1>1, <1>t DEF GuestTypes
<1>3. \A h \in Guests : Serving(h)' <=> Serving(h) /\ h # g
  BY <1>2, NoJobType DEF Serving
<1>4. job[g].op = "consume" => c \in 1 .. Len(issued) /\ c \in 1 .. MaxCodes /\ issued[c][2] = mine
  <2>1. Len(issued) \in Nat /\ Len(issued) <= MaxCodes
    BY <1>t DEF GuestTypes
  <2> QED
    BY <2>1, ConstantsAssumption DEF GuestInv, Earned, JobIsFor, IsFor, Judging
<1>5. /\ grants' \in [1 .. MaxCodes -> Nat]
      /\ \A n \in 1 .. MaxCodes :
           \/ grants'[n] = grants[n]
           \/ (job[g].op = "consume" /\ n = c /\ grants'[n] = grants[n] + 1)
  <2>t. grants \in [1 .. MaxCodes -> Nat]
    BY <1>t DEF GuestTypes
  <2>1. CASE UNCHANGED grants
    BY <2>t, <2>1
  <2>2. CASE job[g].op = "consume" /\ grants' = [grants EXCEPT ![c] = @ + 1]
    <3> HIDE DEF c
    <3> QED
      BY <2>t, <2>2, <1>4
  <2> QED
    BY <2>1, <2>2
<1>6. GuestTypes'
  BY <1>1, <1>t, <1>5, NoJobType DEF GuestTypes
<1>7. UnissuedIsUnused'
  <2> SUFFICES ASSUME NEW n \in 1 .. MaxCodes, n > Len(issued) PROVE grants'[n] = 0 /\ misses[n] = 0
    BY DEF UnissuedIsUnused
  <2>1. job[g].op = "consume" => n # c
    BY <1>4, <1>t DEF GuestTypes
  <2> QED
    BY <1>5, <2>1 DEF GuestInv, Earned, UnissuedIsUnused
<1>8. ASSUME NEW h \in Guests PROVE JobIsFor(h)'
  BY <1>2, NoJobType, NoRowType DEF GuestInv, Earned, JobIsFor, IsFor, Judging, Serving
<1>9. ASSUME NEW e \in Emails PROVE RowIsCurrent(e)'
  BY NoRowType DEF GuestInv, Earned, RowIsCurrent, IsFor, Latest
<1>10. ASSUME NEW e \in Emails PROVE Serial(e)'
  <2> SUFFICES ASSUME e \notin mixed
               PROVE  (OneAt(e) /\ RowIsUnspent(e) /\ CodesKeepBudget(e)
                        /\ \A h \in Guests : At(h, e) => RowAsRead(h, e) /\ Judged(h, e))'
    BY <1>1 DEF Serial
  <2>1. /\ OneAt(e) /\ RowIsUnspent(e) /\ CodesKeepBudget(e)
        /\ \A h \in Guests : At(h, e) => RowAsRead(h, e) /\ Judged(h, e)
    BY DEF GuestInv, Earned, Serial
  <2>2. \A h \in Guests : At(h, e)' <=> At(h, e) /\ h # g
    BY <1>2, <1>3 DEF At
  <2>3. OneAt(e)'
    BY <2>1, <2>2 DEF OneAt
  <2>4. CodesKeepBudget(e)'
    <3> SUFFICES ASSUME NEW n \in 1 .. Len(issued), issued[n][2] = e
                 PROVE  grants'[n] <= 1 /\ misses[n] <= MaxTries
      BY DEF CodesKeepBudget
    <3>1. n \in 1 .. MaxCodes
      BY <1>t, ConstantsAssumption DEF GuestTypes
    <3>2. grants[n] <= 1 /\ misses[n] <= MaxTries
      BY <2>1 DEF CodesKeepBudget
    <3>3. CASE grants'[n] = grants[n]
      BY <3>2, <3>3
    <3>4. CASE job[g].op = "consume" /\ n = c /\ grants'[n] = grants[n] + 1
      <4>1. At(g, e)
        BY <1>4, <3>4 DEF At
      <4>2. grants[n] = 0
        BY <2>1, <3>4, <4>1 DEF Judged
      <4> QED
        BY <3>2, <3>4, <4>2
    <3> QED
      BY <1>5, <3>1, <3>3, <3>4
  <2>5. CASE e = mine
    <3>1. \A h \in Guests : ~At(h, e)'
      BY <2>1, <2>2, <2>5 DEF OneAt, At
    <3>2. RowIsUnspent(e)'
      BY <2>5 DEF RowIsUnspent
    <3> QED
      BY <2>3, <2>4, <3>1, <3>2
  <2>6. CASE e # mine
    <3>1. codes'[e] = codes[e]
      BY <2>6
    <3>2. \A n \in 1 .. Len(issued) : issued[n][2] = e => grants'[n] = grants[n]
      <4>1. \A n \in 1 .. Len(issued) : n \in 1 .. MaxCodes
        BY <1>t, ConstantsAssumption DEF GuestTypes
      <4> QED
        BY <1>4, <1>5, <2>6, <4>1
    <3>3. RowIsUnspent(e)'
      <4> SUFFICES ASSUME codes[e].id # 0
                   PROVE  /\ grants'[codes[e].code] = 0
                          /\ (\A h \in Guests : At(h, e)' => job'[h].op # "miss")
                               => misses[codes[e].code] <= codes[e].tries
        BY <3>1 DEF RowIsUnspent
      <4>1. grants'[codes[e].code] = grants[codes[e].code]
        BY <3>2, RowFacts
      <4>2. \A h \in Guests : At(h, e) => At(h, e)' /\ job'[h] = job[h]
        BY <1>2, <2>2, <2>6 DEF At
      <4> QED
        BY <2>1, <4>1, <4>2 DEF RowIsUnspent
    <3>4. ASSUME NEW h \in Guests, At(h, e)' PROVE (RowAsRead(h, e) /\ Judged(h, e))'
      <4>1. At(h, e) /\ job'[h] = job[h]
        BY <1>2, <2>2, <3>4
      <4>2. Judging(h) => job[h].row.code \in 1 .. Len(issued) /\ issued[job[h].row.code][2] = e
        BY <4>1 DEF GuestInv, Earned, JobIsFor, IsFor, At
      <4>3. Judging(h) => grants'[job[h].row.code] = grants[job[h].row.code]
        BY <3>2, <4>2
      <4> QED
        BY <2>1, <3>1, <4>1, <4>3 DEF RowAsRead, Judged, Judging, Latest
    <3> QED
      BY <2>3, <2>4, <3>3, <3>4
  <2> QED
    BY <2>5, <2>6
<1> QED
  BY <1>6, <1>7, <1>8, <1>9, <1>10 DEF GuestInv, Earned

\* The row is as the only request for its address has read it, or gone.
LEMMA ReadRow ==
  ASSUME GuestInv, NEW g \in Guests, Serving(g), job[g].email \notin mixed
  PROVE  RowAsRead(g, job[g].email) /\ Judged(g, job[g].email) /\ RowIsUnspent(job[g].email)
         /\ \A h \in Guests : At(h, job[g].email) => h = g
<1>1. job[g].email \in Emails /\ At(g, job[g].email)
  BY JobFields DEF GuestInv, At
<1> QED
  BY <1>1 DEF GuestInv, Earned, Serial, OneAt

\* Deleting the row: no other row, no row left if it is as it was read.
LEMMA Deleted ==
  ASSUME GuestInv, NEW g \in Guests, Serving(g), DeleteRow(g)
  PROVE  /\ codes' \in [Emails -> CodeRows]
         /\ \A e \in Emails : \/ codes'[e] = codes[e]
                              \/ e = job[g].email /\ codes'[e] = NoRow
         /\ job[g].email \notin mixed => codes'[job[g].email].id = 0
<1>1. codes \in [Emails -> CodeRows] /\ job[g].email \in Emails
  BY JobFields DEF GuestInv, GuestTypes
<1>2. CASE codes[job[g].email].id = job[g].row.id
  <2>1. codes' = [codes EXCEPT ![job[g].email] = NoRow]
    BY <1>2 DEF DeleteRow
  <2> QED
    BY <1>1, <2>1, NoRowType
<1>3. CASE codes[job[g].email].id # job[g].row.id
  <2>1. codes' = codes
    BY <1>3 DEF DeleteRow
  <2> QED
    BY <1>1, <1>3, <2>1, ReadRow DEF RowAsRead
<1> QED
  BY <1>2, <1>3

LEMMA Discards ==
  ASSUME GuestInv, NEW g \in Guests, DiscardCode(g), UNCHANGED share
  PROVE  GuestInv'
<1>1. /\ Serving(g) /\ Leave(g) /\ DeleteRow(g)
      /\ UNCHANGED <<smtp, inbox, issued, tokens, grants, misses>>
  BY DEF DiscardCode, Serving
<1>2. tokens \subseteq [link : 1 .. MaxLinks, email : Emails, code : 0 .. MaxCodes]
  BY DEF GuestInv, GuestTypes
<1>3. TokensHaveCodes'
  BY <1>1 DEF GuestInv, Earned, TokensHaveCodes, IsFor
<1> QED
  BY <1>1, <1>2, <1>3, Deleted, Leaves

\* What the token of a right code is for, and what is granted for which code.
LEMMA Consumed ==
  ASSUME GuestInv, NEW g \in Guests, ConsumeCode(g), UNCHANGED <<share, issued>>
  PROVE  /\ Serving(g) /\ Leave(g) /\ DeleteRow(g) /\ UNCHANGED <<smtp, inbox, issued, misses>>
         /\ job[g].row.code \in 1 .. MaxCodes
         /\ \/ UNCHANGED <<grants, tokens>>
            \/ /\ grants' = [grants EXCEPT ![job[g].row.code] = @ + 1]
               /\ tokens' = tokens \union
                    {[link |-> job[g].link, email |-> job[g].email, code |-> job[g].row.code]}
<1>1. IsFor(job[g].row.code, job[g].link, job[g].email)
  BY DEF GuestInv, Earned, JobIsFor, Judging, ConsumeCode
<1>2. job[g].row.code \in 1 .. MaxCodes
  BY <1>1, ConstantsAssumption DEF IsFor, GuestInv, GuestTypes
<1> QED
  BY <1>2 DEF ConsumeCode, Serving, Grant, Token

LEMMA Consumes ==
  ASSUME GuestInv, NEW g \in Guests, ConsumeCode(g), UNCHANGED share
  PROVE  GuestInv'
<1>1. UNCHANGED issued /\ job[g].op = "consume"
  BY DEF ConsumeCode
<1>2. tokens \subseteq [link : 1 .. MaxLinks, email : Emails, code : 0 .. MaxCodes]
  BY DEF GuestInv, GuestTypes
<1>3. IsFor(job[g].row.code, job[g].link, job[g].email) /\ job[g].link # 0
  BY <1>1 DEF GuestInv, Earned, JobIsFor, Judging, Serving
<1>4. [link |-> job[g].link, email |-> job[g].email, code |-> job[g].row.code]
        \in [link : 1 .. MaxLinks, email : Emails, code : 0 .. MaxCodes]
  BY <1>3, JobFields, ConstantsAssumption DEF GuestInv
<1>5. tokens' \subseteq [link : 1 .. MaxLinks, email : Emails, code : 0 .. MaxCodes]
  BY <1>1, <1>2, <1>4, Consumed
<1>6. UNCHANGED smtp /\ (\A t \in tokens' : t \in tokens \/
        t = [link |-> job[g].link, email |-> job[g].email, code |-> job[g].row.code])
  BY <1>1, Consumed
<1>7. TokensHaveCodes'
  BY <1>1, <1>3, <1>6 DEF GuestInv, Earned, TokensHaveCodes, IsFor
<1> QED
  BY <1>1, <1>5, <1>7, Consumed, Deleted, Leaves

LEMMA Counts ==
  ASSUME GuestInv, NEW g \in Guests, CountMiss(g), UNCHANGED share
  PROVE  GuestInv'
<1> DEFINE e == job[g].email
<1>1. /\ Serving(g) /\ Leave(g) /\ job[g].op = "miss"
      /\ codes' = IF codes[e].id = job[g].row.id
                  THEN [codes EXCEPT ![e].tries = job[g].row.tries + 1] ELSE codes
      /\ UNCHANGED <<smtp, inbox, issued, tokens, grants, misses>>
  BY DEF CountMiss, Serving
<1>2. /\ codes \in [Emails -> CodeRows] /\ e \in Emails
      /\ tokens \subseteq [link : 1 .. MaxLinks, email : Emails, code : 0 .. MaxCodes]
  BY JobFields DEF GuestInv, GuestTypes
<1>3. TokensHaveCodes'
  BY <1>1 DEF GuestInv, Earned, TokensHaveCodes, IsFor
<1>4. /\ job[g].row.id # 0 /\ job[g].row.tries < MaxTries /\ job[g].row.tries \in Nat
  BY <1>1, JobFields DEF GuestInv, Earned, JobIsFor, Judging
<1>5. CASE codes[e].id = job[g].row.id
  <2> DEFINE row == [codes[e] EXCEPT !.tries = job[g].row.tries + 1]
  <2>1. /\ row \in CodeRows /\ row.id = codes[e].id /\ row.code = codes[e].code
        /\ row.tries = job[g].row.tries + 1
    BY <1>2, <1>4, ConstantsAssumption DEF CodeRows
  <2>2. codes' = [codes EXCEPT ![e] = row]
    BY <1>1, <1>5
  <2> HIDE DEF row
  <2>3. /\ codes' \in [Emails -> CodeRows] /\ codes'[e] = row
        /\ \A other \in Emails \ {e} : codes'[other] = codes[other]
    BY <1>2, <2>1, <2>2
  <2>4. ASSUME e \notin mixed
        PROVE  grants[codes'[e].code] = 0 /\ misses[codes'[e].code] <= codes'[e].tries
    <3>1. RowAsRead(g, e) /\ Judged(g, e) /\ RowIsUnspent(e)
      BY <1>1, <2>4, ReadRow
    <3> QED
      BY <1>1, <1>4, <1>5, <2>1, <2>3, <3>1 DEF RowAsRead, Judged, RowIsUnspent
  <2>5. \A other \in Emails :
          \/ codes'[other] = codes[other]
          \/ /\ other = e /\ codes[other].id # 0
             /\ codes'[other].id = codes[other].id /\ codes'[other].code = codes[other].code
    BY <1>4, <1>5, <2>1, <2>3
  <2> QED
    BY <1>1, <1>2, <1>3, <2>3, <2>4, <2>5, Leaves
<1>6. CASE codes[e].id # job[g].row.id
  <2>1. codes' = codes
    BY <1>1, <1>6
  <2>2. e \notin mixed => codes'[e].id = 0
    BY <1>1, <1>6, <2>1, ReadRow DEF RowAsRead
  <2> QED
    BY <1>1, <1>2, <1>3, <2>1, <2>2, Leaves
<1> QED
  BY <1>5, <1>6

LEMMA GrantsDirectly ==
  ASSUME GuestInv, OwnerTypes, NEW g \in Guests, GrantDirectly(g), UNCHANGED share
  PROVE  GuestInv'
<1>1. /\ ~smtp /\ share.link # 0
      /\ \E e \in allow : tokens' = tokens \union {[link |-> share.link, email |-> e, code |-> Wrong]}
      /\ UNCHANGED <<smtp, codes, job, inbox, issued, grants, misses, mixed>>
  BY DEF GrantDirectly, Active, Token
<1>2. share.link \in 1 .. MaxLinks /\ allow \subseteq Emails
  BY <1>1, ConstantsAssumption DEF OwnerTypes, ShareRows
<1>3. tokens' \subseteq [link : 1 .. MaxLinks, email : Emails, code : 0 .. MaxCodes]
  <2>1. PICK e \in allow : tokens' = tokens \union {[link |-> share.link, email |-> e, code |-> Wrong]}
    BY <1>1
  <2>2. tokens \subseteq [link : 1 .. MaxLinks, email : Emails, code : 0 .. MaxCodes]
    BY DEF GuestInv, GuestTypes
  <2>3. [link |-> share.link, email |-> e, code |-> Wrong]
          \in [link : 1 .. MaxLinks, email : Emails, code : 0 .. MaxCodes]
    BY <1>2, ConstantsAssumption DEF Wrong
  <2> QED
    BY <2>1, <2>2, <2>3
<1>4. GuestTypes'
  BY <1>1, <1>3 DEF GuestInv, GuestTypes
<1>5. UnissuedIsUnused' /\ TokensHaveCodes'
  BY <1>1 DEF GuestInv, Earned, UnissuedIsUnused, TokensHaveCodes
<1>6. ASSUME NEW h \in Guests PROVE JobIsFor(h)'
  BY <1>1 DEF GuestInv, Earned, JobIsFor, IsFor, Judging, Serving
<1>7. ASSUME NEW e \in Emails PROVE (RowIsCurrent(e) /\ Serial(e))'
  <2>1. RowIsCurrent(e)'
    BY <1>1 DEF GuestInv, Earned, RowIsCurrent, IsFor, Latest
  <2>2. Serial(e)'
    BY <1>1 DEF GuestInv, Earned, Serial, OneAt, RowIsUnspent, CodesKeepBudget, RowAsRead, Judged,
                Latest, At, Serving
  <2> QED
    BY <2>1, <2>2
<1> QED
  BY <1>4, <1>5, <1>6, <1>7 DEF GuestInv, Earned

\* A new code, in the row that was read or in a new one.
LEMMA Issues ==
  ASSUME GuestInv, NEW g \in Guests, IssueCode(g), UNCHANGED share
  PROVE  GuestInv'
<1> DEFINE e == job[g].email
           old == job[g].row
           n == Len(issued) + 1
           new == [id |-> IF old = NoRow THEN n ELSE old.id, code |-> n,
                   tries |-> IF old.tries > 0 THEN 0 ELSE codes[e].tries, expired |-> FALSE]
<1>t. GuestTypes
  BY DEF GuestInv
<1>1. /\ Serving(g) /\ job[g].op = "issue" /\ Leave(g) /\ n <= MaxCodes
      /\ UNCHANGED <<smtp, tokens, grants, misses>>
  BY DEF IssueCode, Serving
<1>2. CASE ~(share.link = job[g].link /\ codes[e].id = old.id)
  <2>1. UNCHANGED <<codes, issued, inbox>>
    BY <1>2 DEF IssueCode
  <2>2. /\ codes \in [Emails -> CodeRows]
        /\ tokens \subseteq [link : 1 .. MaxLinks, email : Emails, code : 0 .. MaxCodes]
    BY <1>t DEF GuestTypes
  <2>3. TokensHaveCodes'
    BY <1>1, <2>1 DEF GuestInv, Earned, TokensHaveCodes, IsFor
  <2>4. e \notin mixed /\ codes[e].id # 0 =>
          grants[codes[e].code] = 0 /\ misses[codes[e].code] <= codes[e].tries
    BY <1>1, ReadRow DEF RowIsUnspent
  <2> QED
    BY <1>1, <2>1, <2>2, <2>3, <2>4, Leaves
<1>3. CASE share.link = job[g].link /\ codes[e].id = old.id
  <2>1. /\ codes' = [codes EXCEPT ![e] = new]
        /\ issued' = Append(issued, <<job[g].link, e>>)
        /\ (inbox' = inbox \union {n} \/ UNCHANGED inbox)
        /\ job' = [job EXCEPT ![g] = NoJob] /\ mixed' = mixed
    BY <1>3 DEF IssueCode, Leave
  <2>2. /\ e \in Emails /\ job[g].link \in 1 .. MaxLinks
        /\ n \in 1 .. MaxCodes /\ Len(issued) \in Nat
    <3>1. Len(issued) \in Nat
      BY <1>t DEF GuestTypes
    <3>2. job[g].link # 0
      BY <1>1 DEF GuestInv, Earned, JobIsFor
    <3> QED
      BY <1>1, <1>t, <3>1, <3>2, JobFields, ConstantsAssumption
  <2>3. new \in CodeRows /\ new.id # 0 /\ new.code = n /\ new.tries \in Nat
    <3>1. old.id = 0 => old = NoRow
      BY DEF GuestInv, Earned, JobIsFor
    <3>2. /\ old.id \in 0 .. MaxCodes /\ old.tries \in 0 .. MaxTries /\ codes[e].tries \in 0 .. MaxTries
      BY <1>t, <2>2, JobFields, CodeFields
    <3>3. (IF old = NoRow THEN n ELSE old.id) \in 0 .. MaxCodes /\ (IF old = NoRow THEN n ELSE old.id) # 0
      BY <2>2, <3>1, <3>2
    <3>4. (IF old.tries > 0 THEN 0 ELSE codes[e].tries) \in 0 .. MaxTries
      BY <3>2, ConstantsAssumption
    <3>5. \A i, k \in 0 .. MaxCodes, t \in 0 .. MaxTries :
            [id |-> i, code |-> k, tries |-> t, expired |-> FALSE] \in CodeRows
      BY DEF CodeRows
    <3>6. n \in 0 .. MaxCodes
      BY <2>2
    <3> QED
      BY <3>3, <3>4, <3>5, <3>6, ConstantsAssumption
  <2>4. /\ job'[g] = NoJob /\ \A h \in Guests \ {g} : job'[h] = job[h]
        /\ codes'[e] = new /\ \A other \in Emails \ {e} : codes'[other] = codes[other]
    BY <1>t, <2>1, <2>2 DEF GuestTypes
  <2>5. /\ issued' \in Seq((1 .. MaxLinks) \X Emails) /\ Len(issued') = n
        /\ issued'[n] = <<job[g].link, e>>
        /\ \A i \in 1 .. Len(issued) : issued'[i] = issued[i]
    BY <1>t, <2>1, <2>2 DEF GuestTypes
  <2> HIDE DEF new
  <2>6. GuestTypes'
    BY <1>t, <1>1, <2>1, <2>2, <2>3, <2>5, NoJobType DEF GuestTypes
  <2>7. \A k \in 1 .. Len(issued') : k = n \/ k \in 1 .. Len(issued)
    BY <2>2, <2>5
  <2>8. n \notin 1 .. Len(issued) /\ n \in 1 .. Len(issued') /\ 1 .. Len(issued) \subseteq 1 .. Len(issued')
    BY <2>2, <2>5
  <2>9. grants[n] = 0 /\ misses[n] = 0
    BY <2>2 DEF GuestInv, Earned, UnissuedIsUnused
  <2>10. UnissuedIsUnused'
    BY <1>1, <2>2, <2>5 DEF GuestInv, Earned, UnissuedIsUnused
  <2>11. \A k, link, a : IsFor(k, link, a) => IsFor(k, link, a)'
    BY <2>5, <2>8 DEF IsFor
  <2>12. TokensHaveCodes'
    BY <1>1, <2>11 DEF GuestInv, Earned, TokensHaveCodes
  <2>13. ASSUME NEW k \in 1 .. Len(issued), NEW link, NEW a, a # e, Latest(k, link, a)
         PROVE  Latest(k, link, a)'
    <3> SUFFICES ASSUME NEW later \in k + 1 .. Len(issued') PROVE issued'[later] # <<link, a>>
      BY DEF Latest
    <3>1. later = n \/ later \in k + 1 .. Len(issued)
      BY <2>2, <2>5
    <3>2. CASE later = n
      <4>1. <<job[g].link, e>> # <<link, a>>
        BY <2>13
      <4> QED
        BY <2>5, <3>2, <4>1
    <3>3. CASE later \in k + 1 .. Len(issued)
      <4>1. issued'[later] = issued[later]
        BY <2>2, <2>5, <3>3
      <4> QED
        BY <2>13, <3>3, <4>1 DEF Latest
    <3> QED
      BY <3>1, <3>2, <3>3
  <2>14. ASSUME NEW h \in Guests PROVE JobIsFor(h)'
    BY <2>4, <2>11, NoJobType, NoRowType DEF GuestInv, Earned, JobIsFor, Judging, Serving
  <2>15. ASSUME NEW a \in Emails PROVE RowIsCurrent(a)'
    <3>1. CASE a = e
      <4>1. share.link # 0
        BY <1>1, <1>3 DEF GuestInv, Earned, JobIsFor
      <4>2. n + 1 .. Len(issued') = {}
        BY <2>2, <2>5
      <4>3. issued'[n] = <<share.link, e>>
        BY <1>3, <2>5
      <4>4. codes'[a].id # 0 /\ codes'[a].code = n
        BY <2>3, <2>4, <3>1
      <4> QED
        BY <2>8, <3>1, <4>1, <4>2, <4>3, <4>4 DEF RowIsCurrent, IsFor, Latest
    <3>2. CASE a # e
      BY <2>4, <2>11, <2>13, <3>2 DEF GuestInv, Earned, RowIsCurrent, IsFor
    <3> QED
      BY <3>1, <3>2
  <2>16. ASSUME NEW a \in Emails PROVE Serial(a)'
    <3> SUFFICES ASSUME a \notin mixed
                 PROVE  (OneAt(a) /\ RowIsUnspent(a) /\ CodesKeepBudget(a)
                          /\ \A h \in Guests : At(h, a) => RowAsRead(h, a) /\ Judged(h, a))'
      BY <2>1 DEF Serial
    <3>1. /\ OneAt(a) /\ RowIsUnspent(a) /\ CodesKeepBudget(a)
          /\ \A h \in Guests : At(h, a) => RowAsRead(h, a) /\ Judged(h, a)
      BY DEF GuestInv, Earned, Serial
    <3>2. \A h \in Guests : At(h, a)' <=> At(h, a) /\ h # g
      BY <2>4, NoJobType DEF At, Serving
    <3>3. OneAt(a)'
      BY <3>1, <3>2 DEF OneAt
    <3>4. CodesKeepBudget(a)'
      <4>1. grants[n] <= 1 /\ misses[n] <= MaxTries
        BY <2>9, ConstantsAssumption
      <4> QED
        BY <1>1, <2>5, <2>7, <3>1, <4>1 DEF CodesKeepBudget
    <3>5. CASE a = e
      <4>1. \A h \in Guests : ~At(h, a)'
        BY <1>1, <3>1, <3>2, <3>5 DEF OneAt, At
      <4>2. RowIsUnspent(a)'
        BY <1>1, <2>3, <2>4, <2>9, <3>5 DEF RowIsUnspent
      <4> QED
        BY <3>3, <3>4, <4>1, <4>2
    <3>6. CASE a # e
      <4>1. codes'[a] = codes[a] /\ \A h \in Guests : At(h, a) => At(h, a)' /\ job'[h] = job[h]
        BY <2>4, <3>2, <3>6 DEF At
      <4>2. RowIsUnspent(a)'
        BY <1>1, <3>1, <4>1 DEF RowIsUnspent
      <4>3. ASSUME NEW h \in Guests, At(h, a)' PROVE (RowAsRead(h, a) /\ Judged(h, a))'
        <5>1. At(h, a) /\ job'[h] = job[h]
          BY <2>4, <3>2, <4>3
        <5>2. job[h].op = "consume" => job[h].row.code \in 1 .. Len(issued)
          BY DEF GuestInv, Earned, JobIsFor, IsFor, Judging
        <5>3. job[h].op = "consume" => Latest(job[h].row.code, job[h].link, a)'
          BY <2>13, <3>1, <3>6, <5>1, <5>2 DEF Judged
        <5> QED
          BY <1>1, <3>1, <4>1, <5>1, <5>3 DEF RowAsRead, Judged
      <4> QED
        BY <3>3, <3>4, <4>2, <4>3
    <3> QED
      BY <3>5, <3>6
  <2> QED
    BY <2>6, <2>10, <2>12, <2>14, <2>15, <2>16 DEF GuestInv, Earned
<1> QED
  BY <1>2, <1>3

-----------------------------------------------------------------------------
(* All steps. *)

\* The rows are as they were, and so is the link -- or there was no link.
LEMMA CodesRest ==
  ASSUME GuestInv, UNCHANGED <<smtp, codes, guestVars>>, share.link = 0 \/ share'.link = share.link
  PROVE  GuestInv'
<1>1. codes' \in [Emails -> CodeRows]
  BY DEF GuestInv, GuestTypes
<1>2. ASSUME NEW e \in Emails
      PROVE  \/ codes'[e] = NoRow
             \/ /\ codes[e].id # 0 /\ codes'[e].id = codes[e].id /\ codes'[e].code = codes[e].code
                /\ codes'[e].tries = codes[e].tries /\ share'.link = share.link
  BY DEF GuestInv, Earned, RowIsCurrent
<1> QED
  BY <1>1, <1>2, GuestsRest

LEMMA OwnerSteps ==
  ASSUME IInv, NEW o \in Tabs, Owner(o)
  PROVE  IInv'
<1>t. OwnerInv /\ GuestInv /\ OwnerTypes /\ share \in ShareRows /\ links \in 0 .. MaxLinks
  BY DEF IInv, OwnerInv, OwnerTypes
<1>n. share.link \in 0 .. MaxLinks
  BY <1>t DEF ShareRows
<1>1. CASE ReadForEnable(o)
  <2>1. PICK r \in BOOLEAN, live \in BOOLEAN, emails \in SUBSET Emails :
          /\ KeepsAnEmail(r, emails)
          /\ Begin(o, [op |-> "enable", link |-> 0, write |-> Values(r, live),
                       add |-> emails, remove |-> {}])
    BY <1>1 DEF ReadForEnable
  <2> DEFINE x == [op |-> "enable", link |-> 0, write |-> Values(r, live), add |-> emails, remove |-> {}]
  <2>2. x \in Edits
    BY ValuesType, ConstantsAssumption DEF Edits
  <2>3. /\ x.op = "enable" /\ x.link <= links
        /\ DOMAIN x.write = Columns /\ KeepsAnEmail(x.write["restricted"], x.add)
    BY <1>t, <2>1, ValuesType, ConstantsAssumption
  <2>4. ~Busy(o) /\ UNCHANGED <<smtp, linkVars, codes, guestVars>> /\ Begin(o, x)
    BY <1>1, <2>1 DEF ReadForEnable
  <2> HIDE DEF x
  <2>5. OwnerInv'
    BY <1>t, <2>2, <2>3, <2>4, Begins
  <2> QED
    BY <1>t, <2>4, <2>5, CodesRest DEF IInv, linkVars
<1>2. CASE CommitEnable(o)
  <2>1. UNCHANGED <<smtp, codes, guestVars>> /\ End(o)
    BY <1>2 DEF CommitEnable
  <2>2. CASE share.link = 0
    BY <1>t, <1>2, <2>1, <2>2, Enables, CodesRest DEF IInv
  <2>3. CASE share.link # 0
    <3>1. UNCHANGED linkVars
      BY <1>2, <2>3 DEF CommitEnable
    <3>2. UNCHANGED share
      BY <3>1 DEF linkVars
    <3> QED
      BY <1>t, <2>1, <3>1, <3>2, EndsWithoutEffect, CodesRest DEF IInv
  <2> QED
    BY <2>2, <2>3
<1>3. CASE ReadForUpdate(o)
  <2>1. PICK r \in BOOLEAN, live \in BOOLEAN, emails \in SUBSET Emails :
          /\ KeepsAnEmail(r, emails)
          /\ Begin(o, [op |-> "update", link |-> share.link, write |-> Changes(r, live),
                       add |-> Added(emails), remove |-> Removed(emails)])
    BY <1>3 DEF ReadForUpdate
  <2> DEFINE x == [op |-> "update", link |-> share.link, write |-> Changes(r, live),
                   add |-> Added(emails), remove |-> Removed(emails)]
  <2>2. Added(emails) \in SUBSET Emails /\ Removed(emails) \in SUBSET Emails
    BY <1>t DEF Added, Removed, OwnerTypes
  <2>3. x \in Edits
    BY <1>t, <1>n, <2>2, ChangesType DEF Edits
  <2>4. (allow \ Removed(emails)) \union Added(emails) = emails
    BY DEF Added, Removed
  <2>5. KeepsAnEmail(Written(share, x.write).restricted, (allow \ x.remove) \union x.add)
    BY <1>t, <2>1, <2>4, ChangesType
  <2>6. x.op = "update" /\ x.link <= links /\ x.link # 0
    BY <1>t, <1>3 DEF ReadForUpdate, OwnerInv, Owned, LinksGrow
  <2>7. ~Busy(o) /\ UNCHANGED <<smtp, linkVars, codes, guestVars>> /\ Begin(o, x)
    BY <1>3, <2>1 DEF ReadForUpdate
  <2> HIDE DEF x
  <2>8. OwnerInv'
    BY <1>t, <2>3, <2>5, <2>6, <2>7, Begins
  <2> QED
    BY <1>t, <2>7, <2>8, CodesRest DEF IInv, linkVars
<1>4. CASE CommitUpdate(o)
  <2>1. UNCHANGED <<smtp, links, codes, guestVars>> /\ End(o)
    BY <1>4 DEF CommitUpdate
  <2>2. CASE share.link = edit[o].link /\ edit[o].add \cap allow = {}
    <3>1. share' = Written(share, edit[o].write)
      BY <1>4, <2>2 DEF CommitUpdate
    <3>2. share'.link = share.link
      BY <1>t, <3>1, EditFields, WrittenType
    <3> QED
      BY <1>t, <1>4, <2>1, <2>2, <3>2, Updates, CodesRest DEF IInv
  <2>3. CASE ~(share.link = edit[o].link /\ edit[o].add \cap allow = {})
    <3>1. UNCHANGED <<share, allow>>
      BY <1>4, <2>3 DEF CommitUpdate
    <3>2. UNCHANGED linkVars
      BY <2>1, <3>1 DEF linkVars
    <3> QED
      BY <1>t, <2>1, <3>1, <3>2, EndsWithoutEffect, CodesRest DEF IInv
  <2> QED
    BY <2>2, <2>3
<1>5. CASE ReadForDisable(o)
  <2> DEFINE x == [NoEdit EXCEPT !.op = "disable", !.link = share.link]
  <2>1. x \in Edits /\ x.op = "disable" /\ x.link = share.link
    BY <1>n, NoEditType DEF Edits
  <2>2. x.link <= links
    BY <1>t, <2>1 DEF OwnerInv, Owned, LinksGrow
  <2>3. ~Busy(o) /\ UNCHANGED <<smtp, linkVars, codes, guestVars>> /\ Begin(o, x)
    BY <1>5 DEF ReadForDisable
  <2> HIDE DEF x
  <2>4. OwnerInv'
    BY <1>t, <2>1, <2>2, <2>3, Begins
  <2> QED
    BY <1>t, <2>3, <2>4, CodesRest DEF IInv, linkVars
<1>6. CASE CommitDisable(o)
  <2>1. UNCHANGED <<smtp, links, guestVars>> /\ End(o)
    BY <1>6 DEF CommitDisable
  <2>2. CASE share.link = edit[o].link
    <3>1. codes' = [e \in Emails |-> NoRow]
      BY <1>6, <2>2 DEF CommitDisable
    <3>2. GuestInv'
      BY <1>t, <2>1, <3>1, NoRowType, GuestsRest
    <3> QED
      BY <1>t, <1>6, <2>2, <3>2, Disables DEF IInv
  <2>3. CASE share.link # edit[o].link
    <3>1. UNCHANGED <<share, allow, codes>>
      BY <1>6, <2>3 DEF CommitDisable
    <3>2. UNCHANGED linkVars
      BY <2>1, <3>1 DEF linkVars
    <3> QED
      BY <1>t, <2>1, <3>1, <3>2, EndsWithoutEffect, CodesRest DEF IInv
  <2> QED
    BY <2>2, <2>3
<1> QED
  BY <1>1, <1>2, <1>3, <1>4, <1>5, <1>6 DEF Owner

LEMMA GuestSteps ==
  ASSUME IInv, NEW g \in Guests, Guest(g)
  PROVE  IInv'
<1>t. /\ OwnerInv /\ GuestInv /\ OwnerTypes /\ GuestTypes
      /\ share.link \in 0 .. MaxLinks /\ allow \subseteq Emails
  BY DEF IInv, OwnerInv, GuestInv, OwnerTypes, ShareRows
<1>1. UNCHANGED <<linkVars, edit, skewed>> /\ UNCHANGED share
  BY DEF Guest, ReadForCode, IssueCode, GrantDirectly, SubmitCode, DiscardCode, ConsumeCode,
         CountMiss, linkVars
<1>2. OwnerInv'
  BY <1>t, <1>1, OwnerRests
<1>3. CASE ReadForCode(g)
  <2>1. PICK e \in allow :
          Take(g, [op |-> "issue", email |-> e, link |-> share.link, row |-> codes[e]])
    BY <1>3 DEF ReadForCode
  <2> DEFINE x == [op |-> "issue", email |-> e, link |-> share.link, row |-> codes[e]]
  <2>2. x \in Jobs
    BY <1>t, CodeFields DEF Jobs
  <2>3. /\ x.op = "issue" /\ x.link = share.link /\ x.row = codes[x.email]
        /\ share.link # 0 /\ ~Serving(g) /\ Take(g, x)
        /\ UNCHANGED <<smtp, share, codes, inbox, issued, tokens, grants, misses>>
    BY <1>1, <1>3, <2>1 DEF ReadForCode, Active
  <2> HIDE DEF x
  <2> QED
    BY <1>t, <1>2, <2>2, <2>3, Takes DEF IInv
<1>4. CASE SubmitCode(g)
  <2>1. PICK e \in allow, guess \in inbox \union {Wrong} :
          LET row == codes[e]
              op == IF row.expired \/ row.tries >= MaxTries THEN "discard"
                    ELSE IF row.code = guess THEN "consume" ELSE "miss"
          IN /\ row # NoRow
             /\ Take(g, [op |-> op, email |-> e, link |-> share.link, row |-> row])
             /\ misses' = IF op = "miss" /\ misses[row.code] <= MaxTries
                          THEN [misses EXCEPT ![row.code] = @ + 1] ELSE misses
    BY <1>4 DEF SubmitCode, Matches
  <2> DEFINE row == codes[e]
             op == IF row.expired \/ row.tries >= MaxTries THEN "discard"
                   ELSE IF row.code = guess THEN "consume" ELSE "miss"
             x == [op |-> op, email |-> e, link |-> share.link, row |-> row]
  <2>e. e \in Emails /\ row \in CodeRows /\ row.tries \in 0 .. MaxTries
    BY <1>t, CodeFields
  <2>2. op \in {"discard", "consume", "miss"} /\ (op = "miss" => row.tries < MaxTries)
    BY <2>e, ConstantsAssumption
  <2>3. row.id # 0
    BY <1>t, <2>1, <2>e DEF GuestInv, Earned, RowIsCurrent
  <2> HIDE DEF op
  <2>4. x \in Jobs /\ x.op = op /\ x.email = e /\ x.link = share.link /\ x.row = row
    BY <1>t, <2>e, <2>2 DEF Jobs
  <2>5. /\ share.link # 0 /\ ~Serving(g) /\ Take(g, x)
        /\ UNCHANGED <<smtp, share, codes, inbox, issued, tokens, grants>>
    BY <1>1, <1>4, <2>1 DEF SubmitCode, Active, op
  <2>6. \/ x.op # "miss" /\ UNCHANGED misses
        \/ /\ x.op = "miss"
           /\ misses' = IF misses[x.row.code] <= MaxTries
                        THEN [misses EXCEPT ![x.row.code] = @ + 1] ELSE misses
    BY <2>1, <2>4 DEF op
  <2>7. x.row = codes[x.email]
    BY <2>4
  <2> HIDE DEF x, row
  <2> QED
    BY <1>t, <1>2, <2>2, <2>3, <2>4, <2>5, <2>6, <2>7, Takes DEF IInv
<1>5. CASE IssueCode(g)
  BY <1>t, <1>1, <1>2, <1>5, Issues DEF IInv
<1>6. CASE GrantDirectly(g)
  BY <1>t, <1>1, <1>2, <1>6, GrantsDirectly DEF IInv
<1>7. CASE DiscardCode(g)
  BY <1>t, <1>1, <1>2, <1>7, Discards DEF IInv
<1>8. CASE ConsumeCode(g)
  BY <1>t, <1>1, <1>2, <1>8, Consumes DEF IInv
<1>9. CASE CountMiss(g)
  BY <1>t, <1>1, <1>2, <1>9, Counts DEF IInv
<1> QED
  BY <1>3, <1>4, <1>5, <1>6, <1>7, <1>8, <1>9 DEF Guest

LEMMA LinkElapses == IInv /\ LinkExpires => IInv'
<1> SUFFICES ASSUME IInv, LinkExpires PROVE IInv'
  OBVIOUS
<1>t. OwnerTypes /\ GuestInv
  BY DEF IInv, OwnerInv
<1>1. /\ share' = [share EXCEPT !.live = FALSE]
      /\ UNCHANGED <<smtp, links, allow, codes, edit, guestVars, skewed>>
  BY DEF LinkExpires
<1>2. /\ share' \in ShareRows /\ share'.link = share.link /\ share'.restricted = share.restricted
  BY <1>t, <1>1 DEF OwnerTypes, ShareRows
<1>3. OwnerTypes'
  BY <1>t, <1>1, <1>2 DEF OwnerTypes
<1>4. (LinksGrow /\ OneUpdate /\ RestrictedHasEmails)'
  BY <1>1, <1>2 DEF IInv, OwnerInv, Owned, LinksGrow, OneUpdate, RestrictedHasEmails
<1>5. ASSUME NEW o \in Tabs PROVE KeepsWhenCommitted(o)'
  <2>1. Written(share', edit[o].write).restricted = Written(share, edit[o].write).restricted
    BY <1>t, <1>2, EditFields DEF Written, OwnerTypes, ShareRows
  <2> QED
    BY <1>1, <1>2, <2>1 DEF IInv, OwnerInv, Owned, KeepsWhenCommitted
<1>6. GuestInv'
  BY <1>t, <1>1, <1>2, CodesRest
<1> QED
  BY <1>3, <1>4, <1>5, <1>6 DEF IInv, OwnerInv, Owned

LEMMA CodeElapses ==
  ASSUME IInv, NEW e \in Emails, CodeExpires(e)
  PROVE  IInv'
<1>t. OwnerInv /\ GuestInv /\ codes \in [Emails -> CodeRows]
  BY DEF IInv, GuestInv, GuestTypes
<1>1. /\ codes' = [codes EXCEPT ![e].expired = TRUE]
      /\ UNCHANGED <<smtp, linkVars, edit, guestVars, skewed>> /\ UNCHANGED share
  BY DEF CodeExpires, linkVars
<1>2. OwnerInv'
  BY <1>t, <1>1, OwnerRests
<1> DEFINE row == [codes[e] EXCEPT !.expired = TRUE]
<1>3. row \in CodeRows /\ row.id = codes[e].id /\ row.code = codes[e].code /\ row.tries = codes[e].tries
  BY <1>t DEF CodeRows
<1>4. codes' = [codes EXCEPT ![e] = row]
  BY <1>1
<1> HIDE DEF row
<1>5. /\ codes' \in [Emails -> CodeRows] /\ codes'[e] = row
      /\ \A other \in Emails \ {e} : codes'[other] = codes[other]
  BY <1>t, <1>3, <1>4
<1>6. codes[e].id # 0
  BY <1>t DEF CodeExpires, GuestInv, Earned, RowIsCurrent
<1>7. ASSUME NEW a \in Emails
      PROVE  \/ codes'[a] = NoRow
             \/ /\ codes[a].id # 0 /\ codes'[a].id = codes[a].id /\ codes'[a].code = codes[a].code
                /\ codes'[a].tries = codes[a].tries /\ share'.link = share.link
  BY <1>t, <1>1, <1>3, <1>5, <1>6 DEF GuestInv, Earned, RowIsCurrent
<1>8. GuestInv'
  BY <1>t, <1>1, <1>5, <1>7, GuestsRest
<1> QED
  BY <1>2, <1>8 DEF IInv

LEMMA InitIInv == Init => IInv
<1> SUFFICES ASSUME Init PROVE IInv
  OBVIOUS
<1>1. share \in ShareRows /\ share.link = 0 /\ share.restricted = FALSE
  BY ConstantsAssumption DEF Init, NoShare, ShareRows
<1>2. OwnerTypes
  <2>1. edit \in [Tabs -> Edits]
    BY NoEditType DEF Init
  <2>2. links \in 0 .. MaxLinks
    BY ConstantsAssumption DEF Init
  <2>3. skewed \in BOOLEAN /\ allow \subseteq Emails
    BY DEF Init
  <2> QED
    BY <1>1, <2>1, <2>2, <2>3 DEF OwnerTypes
<1>3. Owned
  BY <1>1, NoEditType, ConstantsAssumption
     DEF Init, Owned, LinksGrow, OneUpdate, RestrictedHasEmails, KeepsWhenCommitted
<1>4. GuestTypes
  BY NoRowType, NoJobType, ConstantsAssumption DEF Init, GuestTypes
<1>5. issued = <<>> /\ Len(issued) = 0
  BY DEF Init
<1>6. UnissuedIsUnused /\ TokensHaveCodes
  BY DEF Init, UnissuedIsUnused, TokensHaveCodes
<1>7. ASSUME NEW g \in Guests PROVE JobIsFor(g) /\ ~Serving(g)
  BY NoJobType DEF Init, JobIsFor, Judging, Serving
<1>8. ASSUME NEW e \in Emails PROVE RowIsCurrent(e) /\ Serial(e)
  <2>1. codes[e] = NoRow /\ codes[e].id = 0
    BY NoRowType DEF Init
  <2> QED
    BY <1>5, <1>7, <2>1 DEF RowIsCurrent, Serial, OneAt, RowIsUnspent, CodesKeepBudget, At
<1> QED
  BY <1>2, <1>3, <1>4, <1>6, <1>7, <1>8 DEF IInv, OwnerInv, GuestInv, Earned

LEMMA StepIInv == IInv /\ [Next]_vars => IInv'
<1> SUFFICES ASSUME IInv, [Next]_vars PROVE IInv'
  OBVIOUS
<1>1. CASE UNCHANGED vars
  <2>1. UNCHANGED <<linkVars, edit, skewed>> /\ UNCHANGED share /\ UNCHANGED <<smtp, codes, guestVars>>
    BY <1>1 DEF vars, linkVars
  <2> QED
    BY <2>1, OwnerRests, CodesRest DEF IInv
<1>2. CASE UNCHANGED <<smtp, linkVars, codes, edit, guestVars, skewed>>
  <2>1. UNCHANGED <<linkVars, edit, skewed>> /\ UNCHANGED share /\ UNCHANGED <<smtp, codes, guestVars>>
    BY <1>2 DEF linkVars
  <2> QED
    BY <2>1, OwnerRests, CodesRest DEF IInv
<1> QED
  BY <1>1, <1>2, OwnerSteps, GuestSteps, LinkElapses, CodeElapses DEF Next

-----------------------------------------------------------------------------
(* Downloads: whoever runs one holds a token, and with email verification a  *)
(* token has been granted for its code.                                      *)

TokensAreGranted == smtp => \A t \in tokens : grants[t.code] > 0

HasToken(f) == f.op # "none" => \E t \in tokens : t.link = f.link /\ t.email = f.email

Downloading ==
  /\ fetch \in [Guests -> Fetches]
  /\ TokensAreGranted
  /\ \A g \in Guests : HasToken(fetch[g])

DInv == IInv /\ Downloading

LEMMA NoFetchType == NoFetch \in Fetches /\ NoFetch.op = "none"
<1>1. (CHOOSE e \in Emails : TRUE) \in Emails
  BY ConstantsAssumption
<1> QED
  BY <1>1, ConstantsAssumption DEF NoFetch, Fetches

\* Tokens and the count of grants only grow.
LEMMA AccessGrows ==
  ASSUME IInv, [Next]_vars
  PROVE  /\ tokens \subseteq tokens' /\ smtp' = smtp
         /\ TokensAreGranted => TokensAreGranted'
<1>t. GuestInv /\ GuestTypes /\ OwnerTypes /\ grants \in [1 .. MaxCodes -> Nat]
  BY DEF IInv, GuestInv, OwnerInv, GuestTypes
<1>1. CASE UNCHANGED <<smtp, tokens, grants>>
  BY <1>1 DEF TokensAreGranted
<1>2. ASSUME NEW g \in Guests, GrantDirectly(g) PROVE smtp' = smtp /\ ~smtp /\ tokens \subseteq tokens'
  BY <1>2 DEF GrantDirectly
<1>3. ASSUME NEW g \in Guests, ConsumeCode(g), ~UNCHANGED <<tokens, grants>>
      PROVE  /\ job[g].row.code \in 1 .. MaxCodes
             /\ grants' = [grants EXCEPT ![job[g].row.code] = @ + 1]
             /\ tokens' = tokens \union
                  {[link |-> job[g].link, email |-> job[g].email, code |-> job[g].row.code]}
             /\ smtp' = smtp
  <2>1. UNCHANGED <<share, issued>>
    BY <1>3 DEF ConsumeCode, linkVars
  <2> QED
    BY <1>t, <1>3, <2>1, Consumed
<1>4. ASSUME NEW g \in Guests, ConsumeCode(g), ~UNCHANGED <<tokens, grants>>, TokensAreGranted
      PROVE  TokensAreGranted'
  <2> DEFINE n == job[g].row.code
             new == [link |-> job[g].link, email |-> job[g].email, code |-> n]
  <2>1. ASSUME NEW t \in tokens', smtp PROVE grants'[t.code] > 0
    <3>1. CASE t.code = n
      <4>1. n \in 1 .. MaxCodes /\ grants[n] \in Nat /\ grants'[n] = grants[n] + 1
        BY <1>t, <1>3, <1>4
      <4> QED
        BY <3>1, <4>1
    <3>2. CASE t.code # n
      <4>1. t \in tokens
        <5>1. tokens' = tokens \union {new} /\ new.code = n
          BY <1>3, <1>4
        <5> QED
          BY <2>1, <3>2, <5>1
      <4>2. IsFor(t.code, t.link, t.email)
        BY <1>t, <2>1, <4>1 DEF GuestInv, Earned, TokensHaveCodes
      <4>3. t.code \in 1 .. MaxCodes
        BY <1>t, <4>2, ConstantsAssumption DEF IsFor, GuestTypes
      <4>4. grants'[t.code] = grants[t.code]
        BY <1>t, <1>3, <1>4, <3>2, <4>3
      <4> QED
        BY <1>4, <2>1, <4>1, <4>4 DEF TokensAreGranted
    <3> QED
      BY <3>1, <3>2
  <2> QED
    BY <1>3, <1>4, <2>1 DEF TokensAreGranted
<1>5. \/ UNCHANGED <<smtp, tokens, grants>>
      \/ \E g \in Guests : GrantDirectly(g) \/ ConsumeCode(g)
  BY DEF Next, vars, guestVars, linkVars, Owner, Guest, Download, ReadForEnable, CommitEnable, ReadForUpdate,
     CommitUpdate, ReadForDisable, CommitDisable, ReadForCode, IssueCode, SubmitCode, DiscardCode,
     CountMiss, LinkExpires, CodeExpires
<1>6. ASSUME NEW g \in Guests, ConsumeCode(g) PROVE smtp' = smtp
  BY <1>6 DEF ConsumeCode
<1> QED
  BY <1>1, <1>2, <1>3, <1>4, <1>5, <1>6 DEF TokensAreGranted

LEMMA StepDownloading == DInv /\ [Next]_vars => DInv'
<1> SUFFICES ASSUME DInv, [Next]_vars PROVE DInv'
  OBVIOUS
<1>1. IInv /\ IInv' /\ Downloading
  BY StepIInv DEF DInv
<1>2. tokens \subseteq tokens' /\ TokensAreGranted'
  BY <1>1, AccessGrows DEF Downloading
<1>3. CASE UNCHANGED fetch
  BY <1>1, <1>2, <1>3 DEF DInv, Downloading, HasToken
<1>4. ASSUME NEW g \in Guests, NEW f \in Fetches, fetch' = [fetch EXCEPT ![g] = f], HasToken(f)
      PROVE  DInv'
  <2>1. fetch' \in [Guests -> Fetches]
    BY <1>1, <1>4 DEF Downloading
  <2>2. ASSUME NEW h \in Guests, fetch'[h].op # "none"
        PROVE  \E t \in tokens' : t.link = fetch'[h].link /\ t.email = fetch'[h].email
    BY <1>1, <1>2, <1>4, <2>2 DEF Downloading, HasToken
  <2> QED
    BY <1>1, <1>2, <2>1, <2>2 DEF DInv, Downloading, HasToken
<1>5. ASSUME NEW g \in Guests, AskForFile(g) PROVE DInv'
  <2>1. PICK t \in TokensFor(share.link) :
          fetch' = [fetch EXCEPT ![g] = [op |-> "ask", link |-> share.link, email |-> t.email]]
    BY <1>5 DEF AskForFile
  <2>2. t \in tokens /\ t.link = share.link /\ t.email \in Emails /\ share.link \in 0 .. MaxLinks
    BY <1>1, <2>1 DEF TokensFor, IInv, GuestInv, GuestTypes, OwnerInv, OwnerTypes, ShareRows
  <2> DEFINE f == [op |-> "ask", link |-> share.link, email |-> t.email]
  <2>3. f \in Fetches /\ HasToken(f)
    BY <2>2 DEF Fetches, HasToken
  <2> HIDE DEF f
  <2>4. fetch' = [fetch EXCEPT ![g] = f]
    BY <2>1 DEF f
  <2> QED
    BY <1>4, <2>3, <2>4
<1>6. ASSUME NEW g \in Guests, ServeFile(g) PROVE DInv'
  <2> DEFINE f == [fetch[g] EXCEPT !.op = "stream"]
  <2>1. fetch[g] \in Fetches /\ HasToken(fetch[g]) /\ fetch[g].op # "none"
    BY <1>1, <1>6 DEF ServeFile, Downloading
  <2>2. f \in Fetches /\ f.link = fetch[g].link /\ f.email = fetch[g].email
    BY <2>1 DEF Fetches
  <2>3. HasToken(f) /\ fetch' = [fetch EXCEPT ![g] = f]
    BY <1>6, <2>1, <2>2 DEF HasToken, ServeFile
  <2> HIDE DEF f
  <2> QED
    BY <1>4, <2>2, <2>3
<1>7. ASSUME NEW g \in Guests, RefuseFile(g) \/ EndOfFile(g) PROVE DInv'
  BY <1>4, <1>7, NoFetchType DEF RefuseFile, EndOfFile, HasToken
<1> QED
  BY <1>3, <1>5, <1>6, <1>7 DEF Next, Download, vars

LEMMA InitDownloading == Init => DInv
<1> SUFFICES ASSUME Init PROVE DInv
  OBVIOUS
<1>1. fetch \in [Guests -> Fetches] /\ \A g \in Guests : fetch[g].op = "none"
  BY NoFetchType DEF Init
<1>2. TokensAreGranted
  BY DEF Init, TokensAreGranted
<1> QED
  BY <1>1, <1>2, InitIInv DEF DInv, Downloading, HasToken

-----------------------------------------------------------------------------

\* The inductive invariant holds in every reachable state.
THEOREM Invariance == Spec => []DInv
<1> QED
  BY InitDownloading, StepDownloading, PTL DEF Spec

\* The link, its rows and the requests under way keep their types.
THEOREM TypesHold == Spec => []TypeOK
<1>1. DInv => TypeOK
  BY DEF DInv, Downloading, IInv, OwnerInv, GuestInv, TypeOK
<1> QED
  BY <1>1, Invariance, PTL

\* _require_restricted_has_emails: a restricted link keeps an address as long as
\* no two updates overlap.
THEOREM RestrictedLinksKeepAnEmail == Spec => []RestrictedHasEmails
<1>1. DInv => RestrictedHasEmails
  BY DEF DInv, IInv, OwnerInv, Owned
<1> QED
  BY <1>1, Invariance, PTL

\* verify_share and _authorize_download: no token, and no download from a
\* restricted link, without a code that was issued for that link and address.
THEOREM NoAccessUnearned == Spec => []AccessIsEarned
<1>1. ASSUME DInv, smtp, NEW t \in tokens
      PROVE  /\ t.code # Wrong /\ t.code \in DOMAIN issued /\ issued[t.code] = <<t.link, t.email>>
             /\ grants[t.code] > 0
  <2>1. IsFor(t.code, t.link, t.email)
    BY <1>1 DEF DInv, IInv, GuestInv, Earned, TokensHaveCodes
  <2>2. Len(issued) \in Nat /\ DOMAIN issued = 1 .. Len(issued)
    BY <1>1 DEF DInv, IInv, GuestInv, GuestTypes
  <2> QED
    BY <1>1, <2>1, <2>2 DEF IsFor, Wrong, DInv, Downloading, TokensAreGranted
<1>2. ASSUME DInv, smtp, NEW g \in Guests, fetch[g].op = "stream"
      PROVE  \E n \in DOMAIN issued : issued[n] = <<fetch[g].link, fetch[g].email>> /\ grants[n] > 0
  <2>1. PICK t \in tokens : t.link = fetch[g].link /\ t.email = fetch[g].email
    BY <1>2 DEF DInv, Downloading, HasToken
  <2> QED
    BY <1>1, <1>2, <2>1
<1>3. DInv => AccessIsEarned
  BY <1>1, <1>2 DEF AccessIsEarned
<1> QED
  BY <1>3, Invariance, PTL

\* _consume_verification_code: one token for a code, and no more wrong guesses
\* than the budget, unless requests for the address overlap.
THEOREM CodesKeepTheirBudget == Spec => []CodesAreSpent
<1>1. ASSUME DInv, NEW n \in DOMAIN issued, issued[n][2] \notin mixed
      PROVE  grants[n] <= 1 /\ misses[n] <= MaxTries
  <2>1. n \in 1 .. Len(issued) /\ issued[n][2] \in Emails
    BY <1>1 DEF DInv, IInv, GuestInv, GuestTypes
  <2> QED
    BY <1>1, <2>1 DEF DInv, IInv, GuestInv, Earned, Serial, CodesKeepBudget
<1>2. DInv => CodesAreSpent
  BY <1>1 DEF CodesAreSpent
<1> QED
  BY <1>2, Invariance, PTL

\* _issue_verification_code: what is consumed is the last code of its link and
\* address, unless requests for the address overlap.
THEOREM OnlyLastCodesGrant == Spec => ReplacedCodesAreDead
<1> DEFINE Dead == \A n \in DOMAIN issued :
                     grants'[n] > grants[n] /\ issued[n][2] \notin mixed
                       => \A later \in n + 1 .. Len(issued) : issued[later] # issued[n]
<1>1. DInv /\ [Next]_vars => [Dead]_vars
  <2> SUFFICES ASSUME DInv, [Next]_vars, NEW n \in DOMAIN issued,
                      grants'[n] > grants[n], issued[n][2] \notin mixed,
                      NEW later \in n + 1 .. Len(issued)
               PROVE  issued[later] # issued[n]
    OBVIOUS
  <2>s. GuestInv /\ GuestTypes
    BY DEF DInv, IInv, GuestInv
  <2>t. /\ GuestInv /\ GuestTypes
        /\ n \in 1 .. Len(issued) /\ Len(issued) \in Nat /\ Len(issued) <= MaxCodes
    BY <2>s DEF GuestTypes
  <2>1. grants' # grants
    <3>1. grants[n] \in Nat
      BY <2>t, ConstantsAssumption DEF GuestTypes
    <3> QED
      BY <3>1
  <2>2. PICK g \in Guests : ConsumeCode(g)
    BY <2>1 DEF Next, vars, guestVars, Owner, Guest, Download, ReadForEnable, CommitEnable, ReadForUpdate,
         CommitUpdate, ReadForDisable, CommitDisable, ReadForCode, IssueCode, GrantDirectly,
         SubmitCode, DiscardCode, CountMiss, LinkExpires, CodeExpires
  <2>3. job[g].op = "consume" /\ UNCHANGED <<share, issued>>
    BY <2>2 DEF ConsumeCode, linkVars
  <2>4. /\ job[g].row.code \in 1 .. MaxCodes
        /\ grants' = [grants EXCEPT ![job[g].row.code] = @ + 1]
    BY <2>t, <2>1, <2>2, <2>3, Consumed
  <2>5. n = job[g].row.code
    <3>1. grants \in [1 .. MaxCodes -> Nat] /\ n \in 1 .. MaxCodes
      BY <2>t, ConstantsAssumption DEF GuestTypes
    <3>2. n # job[g].row.code => grants'[n] = grants[n]
      BY <2>4, <3>1
    <3>3. grants[n] \in Nat
      BY <3>1
    <3> QED
      BY <3>2, <3>3
  <2>6. issued[n] = <<job[g].link, job[g].email>> /\ Serving(g)
    BY <2>t, <2>3, <2>5 DEF GuestInv, Earned, JobIsFor, IsFor, Judging, Serving
  <2>7. Judged(g, job[g].email)
    BY <2>t, <2>6, ReadRow
  <2> QED
    BY <2>3, <2>5, <2>6, <2>7 DEF Judged, Latest
<1> QED
  BY <1>1, Invariance, PTL DEF Spec, ReplacedCodesAreDead
=============================================================================
