-------------------------- MODULE ItemCommandsProof --------------------------
(***************************************************************************)
(* Proofs about module ItemCommands, for every set of columns, of update   *)
(* and of delete commands, whatever fields and values the updates contain, *)
(* equal ones or not, and for every way the price column rounds.           *)
(***************************************************************************)
EXTENDS ItemCommands, TLAPS

-----------------------------------------------------------------------------
(* The inductive invariant.  Its core says of a row what the properties    *)
(* say, but as of a version t: of the row of the table now, and of the     *)
(* copy of every command as of the version it read.                        *)

By(c, t) == Committed(c) /\ committedAt[c] <= t

ContentsBy(r, t) ==
  \A k \in Touched :
    r[k] = NewRow[k] \/ \E u \in Updates : By(u, t) /\ k \in Assigned(u) /\ r[k] = Told(u, k)

LossBy(r, t) ==
  \A u \in Updates : By(u, t) => \A k \in Assigned(u) :
    r[k] = Told(u, k) \/ Missed(u, k) \/ \E v \in Updates : By(v, t) /\ Overwrote(v, u, k)

DeletionBy(r, t) == Visible(r) \/ \E d \in Deletes : By(d, t)

ReturnBy(r, t) ==
  Visible(r) => \/ \A d \in Deletes : ~By(d, t)
                \/ \E u \in Updates, d \in Deletes : Committed(d) /\ Stale(u, d)

Explained(r, t) == ContentsBy(r, t) /\ LossBy(r, t) /\ DeletionBy(r, t) /\ ReturnBy(r, t)

Anything == Values \cup Nat \cup {"active", "deleted"}

FormInv ==
  /\ row \in [Columns -> Anything]
  /\ found \in [Commands -> [Columns -> Anything]]
  /\ DOMAIN changes = Commands

TimeInv ==
  \A c \in Commands : /\ readAt[c] <= version
                      /\ committedAt[c] <= version
                      /\ phase[c] # "done" => committedAt[c] = 0

(* No row, copy or update is ahead of the clock, and an update is not      *)
(* behind the copy it changes.                                             *)
ClockInv ==
  /\ row["updated_at"] <= clock
  /\ \A c \in Commands : found[c]["updated_at"] <= clock
  /\ \A u \in Updates : /\ stamp[u] <= clock
                        /\ phase[u] = "saved" => found[u]["updated_at"] <= stamp[u]

RowInv == Explained(row, version)

FoundInv ==
  \A c \in Commands : /\ Explained(found[c], readAt[c])
                      /\ Visible(found[c])
                      /\ phase[c] \in {"found", "saved"} /\ readAt[c] = version
                           => found[c] = row

(* An update that committed after c had read wrote column k.               *)
Since(c, k) ==
  \E w \in Updates : Committed(w) /\ readAt[c] < committedAt[w] /\ k \in DOMAIN changes[w]

(* A copy is out of date only where an update has written since.           *)
CopyInv ==
  \A c \in Commands : phase[c] \in {"found", "saved"} =>
    \A k \in Touched : found[c][k] = row[k] \/ Since(c, k)

(* What a saved update will write: its own columns, and besides these only *)
(* what it had read.  A column of its own that it will not write holds its *)
(* content already, or has been written since.                             *)
UpdateInv ==
  \A u \in Updates : phase[u] = "saved" =>
    /\ \A k \in DOMAIN changes[u] : changes[u][k] = Updated(u, found[u], stamp[u])[k]
    /\ \A k \in Assigned(u) \ DOMAIN changes[u] : row[k] = Told(u, k) \/ Since(u, k)

(* What a saved delete will write: the flag, unless it was set already.    *)
DeleteInv ==
  \A d \in Deletes : phase[d] = "saved" =>
    /\ DOMAIN changes[d] \subseteq {"is_deleted"}
    /\ \A k \in DOMAIN changes[d] : changes[d][k] = "deleted"
    /\ DOMAIN changes[d] = {} => \E e \in Deletes : Committed(e)

ExactInv ==
  \A c \in Commands :
    phase[c] = "saved" /\ readAt[c] = version
      => changes[c] = Differing(Effect(c, row, stamp[c]), row)

IInv == /\ TypeOK /\ FormInv /\ TimeInv /\ ClockInv /\ RowInv
        /\ FoundInv /\ CopyInv /\ UpdateInv /\ DeleteInv /\ ExactInv

-----------------------------------------------------------------------------
(* Rows, what a session writes, and what is written. *)

LEMMA ColumnFacts ==
  /\ Touched \subseteq Columns
  /\ "is_deleted" \in Columns /\ "is_deleted" \notin Touched
  /\ "updated_at" \in Columns /\ "updated_at" \in Touched
  /\ Columns = Touched \cup {"is_deleted"}
  /\ \A u \in Updates : Assigned(u) \subseteq Touched /\ "updated_at" \in Assigned(u)
  BY ItemAssumption DEF Touched, Columns, Assigned

LEMMA ContentsFacts ==
  /\ Contents("is_deleted") = {"active", "deleted"}
  /\ Contents("updated_at") = Nat
  /\ \A k \in Fields : Contents(k) = Values
  /\ \A k \in Columns : Contents(k) \subseteq Anything
  BY ItemAssumption DEF Contents, Anything, Columns, Touched

(* A column keeps what it has stored. *)
LEMMA StoredFacts ==
  /\ \A k \in Columns : \A v \in Contents(k) :
       Stored(k, v) \in Contents(k) /\ Stored(k, Stored(k, v)) = Stored(k, v)
  /\ \A v : Stored("is_deleted", v) = v /\ Stored("updated_at", v) = v
  <1>1. ASSUME NEW k \in Columns, NEW v \in Contents(k)
        PROVE  Stored(k, v) \in Contents(k) /\ Stored(k, Stored(k, v)) = Stored(k, v)
    <2>1. CASE k = "price"
      <3>1. v \in Values /\ Contents(k) = Values
        BY <2>1 DEF Contents
      <3>2. QED
        BY <2>1, <3>1, ItemAssumption DEF Stored
    <2>2. CASE k # "price"
      BY <2>2 DEF Stored
    <2>3. QED
      BY <2>1, <2>2
  <1>2. QED
    BY <1>1 DEF Stored

LEMMA AssignmentFacts ==
  ASSUME NEW u \in Updates, NEW t \in Nat, NEW k \in Assigned(u)
  PROVE  Assignment(u, t, k) \in Contents(k)
  <1>1. CASE k = "updated_at"
    BY <1>1 DEF Assignment, Contents
  <1>2. CASE k # "updated_at"
    <2>1. k \in Fields
      BY <1>2, ItemAssumption DEF Assigned
    <2>2. Assignment(u, t, k) \in Values
      BY <1>2, ItemAssumption DEF Assignment
    <2>3. QED
      BY <2>1, <2>2, ContentsFacts
  <1>3. QED
    BY <1>1, <1>2

LEMMA DifferingFacts ==
  ASSUME NEW item, NEW base
  PROVE  /\ \A k : k \in DOMAIN Differing(item, base) <=> k \in Columns /\ item[k] # base[k]
         /\ \A k \in DOMAIN Differing(item, base) : Differing(item, base)[k] = item[k]
  BY DEF Differing

LEMMA WrittenFacts ==
  ASSUME NEW d, NEW r
  PROVE  /\ \A k \in Columns : k \in DOMAIN d => Written(d, r)[k] = Stored(k, d[k])
         /\ \A k \in Columns : k \notin DOMAIN d => Written(d, r)[k] = r[k]
         /\ DOMAIN Written(d, r) = Columns
  BY DEF Written

(* A row stays one, whatever columns are written to it. *)
LEMMA WrittenRow ==
  ASSUME NEW d, \A k \in DOMAIN d : d[k] \in Contents(k), NEW r, IsRow(r)
  PROVE  IsRow(Written(d, r)) /\ Written(d, r) \in [Columns -> Anything]
  <1>1. \A k \in Columns : /\ Written(d, r)[k] \in Contents(k)
                           /\ Stored(k, Written(d, r)[k]) = Written(d, r)[k]
    <2> SUFFICES ASSUME NEW k \in Columns
                 PROVE  /\ Written(d, r)[k] \in Contents(k)
                        /\ Stored(k, Written(d, r)[k]) = Written(d, r)[k]
      OBVIOUS
    <2>1. CASE k \in DOMAIN d
      <3>1. Written(d, r)[k] = Stored(k, d[k]) /\ d[k] \in Contents(k)
        BY <2>1, WrittenFacts
      <3>2. QED
        BY <3>1, StoredFacts
    <2>2. CASE k \notin DOMAIN d
      <3>1. Written(d, r)[k] = r[k]
        BY <2>2, WrittenFacts
      <3>2. QED
        BY <3>1 DEF IsRow
    <2>3. QED
      BY <2>1, <2>2
  <1>2. IsRow(Written(d, r))
    BY <1>1, WrittenFacts DEF IsRow
  <1>3. Written(d, r) = [k \in Columns |-> Written(d, r)[k]]
    BY DEF Written
  <1>4. \A k \in Columns : Written(d, r)[k] \in Anything
    BY <1>1, ContentsFacts
  <1>5. QED
    BY <1>2, <1>3, <1>4

(* Writing the difference to the row it was taken from gives the object,   *)
(* as the columns store it.                                                *)
LEMMA WrittenDiffering ==
  ASSUME NEW item, NEW base, IsRow(base), NEW k \in Columns
  PROVE  Written(Differing(item, base), base)[k] = Stored(k, item[k])
  <1> PICK d : d = Differing(item, base)
    OBVIOUS
  <1>1. CASE item[k] # base[k]
    <2>1. k \in DOMAIN d /\ d[k] = item[k]
      BY <1>1, DifferingFacts
    <2>2. QED
      BY <2>1, WrittenFacts
  <1>2. CASE item[k] = base[k]
    <2>1. k \notin DOMAIN d
      BY <1>2, DifferingFacts
    <2>2. Written(d, base)[k] = base[k]
      BY <2>1, WrittenFacts
    <2>3. QED
      BY <1>2, <2>2 DEF IsRow
  <1>3. QED
    BY <1>1, <1>2

LEMMA UpdatedFacts ==
  ASSUME NEW u \in Updates, NEW r, NEW t
  PROVE  /\ \A k \in Assigned(u) : Updated(u, r, t)[k] = Assignment(u, t, k)
         /\ \A k \in Columns \ Assigned(u) : Updated(u, r, t)[k] = r[k]
         /\ Updated(u, r, t)["is_deleted"] = r["is_deleted"]
         /\ Updated(u, r, t)["updated_at"] = t
  BY ColumnFacts DEF Updated, Assignment

LEMMA UpdatedContents ==
  ASSUME NEW u \in Updates, NEW r, IsRow(r), NEW t \in Nat, NEW k \in Columns
  PROVE  Updated(u, r, t)[k] \in Contents(k)
  BY UpdatedFacts, AssignmentFacts DEF IsRow

LEMMA GoneFacts ==
  ASSUME NEW r \in [Columns -> Anything]
  PROVE  /\ Gone(r)["is_deleted"] = "deleted"
         /\ \A k \in Columns : k # "is_deleted" => Gone(r)[k] = r[k]
  BY ColumnFacts DEF Gone, Anything

-----------------------------------------------------------------------------
(* Types. *)

LEMMA TypeStep ==
  ASSUME TypeOK, FormInv, [Next]_vars
  PROVE  TypeOK'
  <1>1. CASE UNCHANGED vars
    BY <1>1 DEF vars, TypeOK, IsRow
  <1>2. ASSUME NEW c \in Commands, Find(c) \/ NotFound(c)
        PROVE  TypeOK'
    <2> USE DEF TypeOK, IsRow
    <2>1. CASE Find(c)
      <3>1. \A x \in Commands : found'[x] = IF x = c THEN row ELSE found[x]
        BY <2>1 DEF Find, FormInv
      <3>2. \A x \in Commands : IsRow(found[x])'
        BY <3>1
      <3>3. QED
        BY <2>1, <3>2 DEF Find
    <2>2. CASE NotFound(c)
      BY <2>2 DEF NotFound
    <2>3. QED
      BY <1>2, <2>1, <2>2
  <1>3. ASSUME NEW c \in Commands, Fail(c)
        PROVE  TypeOK'
    <2>1. changes' = [changes EXCEPT ![c] = <<>>] /\ DOMAIN changes = Commands
      BY <1>3 DEF Fail, FormInv
    <2>2. DOMAIN changes'[c] = {} /\ \A x \in Commands : x # c => changes'[x] = changes[x]
      BY <2>1
    <2>3. QED
      BY <1>3, <2>2 DEF Fail, TypeOK, IsRow
  <1>4. ASSUME NEW c \in Commands, Commit(c)
        PROVE  TypeOK'
    <2>1. IsRow(row')
      BY <1>4, WrittenRow DEF Commit, TypeOK
    <2>2. IsRow(row)' /\ version' = version + 1
      BY <1>4, <2>1 DEF IsRow, Commit
    <2>3. QED
      BY <1>4, <2>2 DEF Commit, TypeOK, IsRow
  <1>5. ASSUME NEW u \in Updates, Save(u)
        PROVE  TypeOK'
    <2>1. u \in Commands
      BY DEF Commands
    <2>2. PICK t \in clock..MaxClock, base \in Bases(u) :
            /\ changes' = [changes EXCEPT ![u] = Differing(Updated(u, found[u], t), base)]
            /\ clock' = t
            /\ stamp' = [stamp EXCEPT ![u] = t]
      BY <1>5 DEF Save
    <2>3. t \in Nat /\ clock' \in 0..MaxClock /\ stamp' \in [Updates -> Nat]
      BY <2>2, ItemAssumption DEF TypeOK
    <2>4. changes'[u] = Differing(Updated(u, found[u], t), base)
          /\ \A x \in Commands : x # u => changes'[x] = changes[x]
      BY <2>1, <2>2 DEF FormInv
    <2>5. \A k \in Columns : Updated(u, found[u], t)[k] \in Contents(k)
      BY <2>1, <2>3, UpdatedContents DEF TypeOK
    <2>6. /\ DOMAIN changes'[u] \subseteq Columns
          /\ \A k \in DOMAIN changes'[u] : changes'[u][k] \in Contents(k)
      <3> PICK item : item = Updated(u, found[u], t)
        OBVIOUS
      <3> PICK d : d = changes'[u]
        OBVIOUS
      <3>1. \A k \in DOMAIN d : k \in Columns /\ d[k] = item[k]
        BY <2>4, DifferingFacts
      <3>2. QED
        BY <2>5, <3>1
    <2>7. QED
      BY <1>5, <2>1, <2>3, <2>4, <2>6 DEF Save, TypeOK, IsRow
  <1>6. ASSUME NEW d \in Deletes, Remove(d)
        PROVE  TypeOK'
    <2>1. d \in Commands
      BY DEF Commands
    <2>2. PICK base \in Bases(d) : changes' = [changes EXCEPT ![d] = Differing(Gone(base), base)]
      BY <1>6 DEF Remove
    <2>3. changes'[d] = Differing(Gone(base), base)
          /\ \A x \in Commands : x # d => changes'[x] = changes[x]
      BY <2>1, <2>2 DEF FormInv
    <2>4. base \in [Columns -> Anything]
      BY <2>1 DEF Bases, FormInv
    <2>5. \A k \in DOMAIN changes'[d] : k = "is_deleted" /\ changes'[d][k] = "deleted"
      <3> PICK item : item = Gone(base)
        OBVIOUS
      <3> PICK e : e = changes'[d]
        OBVIOUS
      <3>1. \A k \in DOMAIN e : k \in Columns /\ item[k] # base[k] /\ e[k] = item[k]
        BY <2>3, DifferingFacts
      <3>2. QED
        BY <2>4, <3>1, GoneFacts
    <2>6. /\ DOMAIN changes'[d] \subseteq Columns
          /\ \A k \in DOMAIN changes'[d] : changes'[d][k] \in Contents(k)
      BY <2>5, ColumnFacts, ContentsFacts
    <2>7. QED
      BY <1>6, <2>1, <2>3, <2>6 DEF Remove, TypeOK, IsRow
  <1>7. QED
    BY <1>1, <1>2, <1>3, <1>4, <1>5, <1>6 DEF Next

LEMMA FormStep ==
  ASSUME TypeOK, FormInv, [Next]_vars
  PROVE  FormInv'
  <1>1. CASE UNCHANGED vars
    BY <1>1 DEF vars, FormInv
  <1>2. ASSUME NEW c \in Commands, Find(c) \/ NotFound(c) \/ Fail(c)
        PROVE  FormInv'
    BY <1>2 DEF Find, NotFound, Fail, FormInv
  <1>3. ASSUME NEW c \in Commands, Save(c) \/ Remove(c)
        PROVE  FormInv'
    BY <1>3 DEF Save, Remove, FormInv
  <1>4. ASSUME NEW c \in Commands, Commit(c)
        PROVE  FormInv'
    <2>1. row' \in [Columns -> Anything]
      BY <1>4, WrittenRow DEF Commit, TypeOK
    <2>2. QED
      BY <1>4, <2>1 DEF Commit, FormInv
  <1>5. QED
    BY <1>1, <1>2, <1>3, <1>4 DEF Next, Commands

-----------------------------------------------------------------------------
(* History: what is explained as of a version stays explained. *)

LEMMA TimeStep ==
  ASSUME TypeOK, TimeInv, [Next]_vars
  PROVE  TimeInv'
  <1> USE DEF TypeOK, TimeInv
  <1>1. CASE UNCHANGED vars
    BY <1>1 DEF vars
  <1>2. ASSUME NEW c \in Commands, Find(c) \/ NotFound(c) \/ Fail(c)
        PROVE  TimeInv'
    <2>1. /\ committedAt' = committedAt /\ version' = version
          /\ \A x \in Commands : phase'[x] # "done" => phase[x] # "done"
      BY <1>2 DEF Find, NotFound, Fail
    <2>2. \A x \in Commands : readAt'[x] \in {readAt[x], version}
      BY <1>2 DEF Find, NotFound, Fail
    <2>3. QED
      BY <2>1, <2>2
  <1>3. ASSUME NEW c \in Commands, Save(c) \/ Remove(c)
        PROVE  TimeInv'
    BY <1>3 DEF Save, Remove
  <1>4. ASSUME NEW c \in Commands, Commit(c)
        PROVE  TimeInv'
    BY <1>4 DEF Commit
  <1>5. QED
    BY <1>1, <1>2, <1>3, <1>4 DEF Next, Commands

(* A committed command keeps its times, what it has written and its stamp. *)
LEMMA HistoryStep ==
  ASSUME TypeOK, FormInv, TimeInv, [Next]_vars, NEW x \in Commands
  PROVE  /\ Committed(x) => /\ committedAt'[x] = committedAt[x]
                            /\ readAt'[x] = readAt[x]
                            /\ changes'[x] = changes[x]
                            /\ x \in Updates => stamp'[x] = stamp[x]
         /\ ~Committed(x) /\ Committed(x)' => committedAt'[x] = version + 1
  <1>0. Committed(x) => phase[x] = "done"
    BY DEF TimeInv, Committed
  <1> USE DEF TypeOK, FormInv, TimeInv, Committed
  <1>1. CASE UNCHANGED vars
    BY <1>1 DEF vars
  <1>2. ASSUME NEW c \in Commands, Find(c)
        PROVE  /\ committedAt' = committedAt /\ changes' = changes /\ stamp' = stamp
               /\ (Committed(x) => readAt'[x] = readAt[x])
    BY <1>2 DEF Find
  <1>3. ASSUME NEW c \in Commands, NotFound(c) \/ Fail(c) \/ Remove(c)
        PROVE  /\ committedAt' = committedAt /\ readAt' = readAt /\ stamp' = stamp
               /\ (Committed(x) => changes'[x] = changes[x])
    BY <1>0, <1>3 DEF NotFound, Fail, Remove
  <1>4. ASSUME NEW c \in Commands, Commit(c)
        PROVE  /\ readAt' = readAt /\ changes' = changes /\ stamp' = stamp
               /\ committedAt[c] = 0
               /\ committedAt' = [committedAt EXCEPT ![c] = version + 1]
    BY <1>4 DEF Commit
  <1>5. ASSUME NEW c \in Updates, Save(c)
        PROVE  /\ committedAt' = committedAt /\ readAt' = readAt
               /\ Committed(x) => /\ changes'[x] = changes[x]
                                  /\ x \in Updates => stamp'[x] = stamp[x]
    <2>1. Committed(x) => x # c
      BY <1>0, <1>5 DEF Save
    <2>2. QED
      BY <1>5, <2>1 DEF Save
  <1>6. QED
    BY <1>1, <1>2, <1>3, <1>4, <1>5 DEF Next, Commands

LEMMA ByStep ==
  ASSUME TypeOK, FormInv, TimeInv, [Next]_vars,
         NEW x \in Commands, NEW t \in Nat, t <= version
  PROVE  By(x, t)' <=> By(x, t)
  <1>1. committedAt[x] \in Nat /\ committedAt'[x] \in Nat /\ version \in Nat
    <2>1. committedAt' \in [Commands -> Nat]
      <3> USE DEF TypeOK
      <3>1. ASSUME NEW c \in Commands, Commit(c)
            PROVE  committedAt' \in [Commands -> Nat]
        BY <3>1 DEF Commit
      <3>2. CASE ~(\E c \in Commands : Commit(c))
        BY <3>2 DEF Next, Find, NotFound, Fail, Save, Remove, vars
      <3>3. QED
        BY <3>1, <3>2
    <2>2. QED
      BY <2>1 DEF TypeOK
  <1>2. QED
    BY <1>1, HistoryStep DEF By, Committed

LEMMA StaleStep ==
  ASSUME TypeOK, FormInv, TimeInv, [Next]_vars,
         NEW v \in Commands, NEW u \in Commands, Stale(v, u)
  PROVE  Stale(v, u)' /\ Committed(u) /\ Committed(u)'
  <1>1. committedAt[u] \in Nat /\ readAt[v] \in Nat /\ committedAt[v] \in Nat
    BY DEF TypeOK
  <1>2. Committed(u) /\ Committed(v)
    BY <1>1 DEF Stale, Committed
  <1>3. QED
    BY <1>1, <1>2, HistoryStep DEF Stale, Committed

LEMMA ToldStep ==
  ASSUME TypeOK, FormInv, TimeInv, [Next]_vars, NEW u \in Updates, Committed(u), NEW k
  PROVE  Told(u, k)' = Told(u, k)
  BY HistoryStep DEF Told, Commands

LEMMA OverwroteStep ==
  ASSUME TypeOK, FormInv, TimeInv, [Next]_vars,
         NEW v \in Updates, NEW u \in Updates, NEW k, Committed(u), Overwrote(v, u, k)
  PROVE  Overwrote(v, u, k)'
  <1>1. u \in Commands /\ v \in Commands
    BY DEF Commands
  <1>2. committedAt[u] \in Nat /\ committedAt[v] \in Nat
    BY <1>1 DEF TypeOK
  <1>3. Committed(v)
    BY <1>2 DEF Overwrote, Committed
  <1>4. /\ committedAt'[u] = committedAt[u] /\ committedAt'[v] = committedAt[v]
        /\ changes'[v] = changes[v]
    BY <1>1, <1>3, HistoryStep
  <1>5. Stale(v, u) => Stale(v, u)'
    BY <1>1, StaleStep
  <1>6. QED
    BY <1>4, <1>5 DEF Overwrote

LEMMA MissedStep ==
  ASSUME TypeOK, FormInv, TimeInv, [Next]_vars,
         NEW u \in Updates, NEW k, Committed(u), Missed(u, k)
  PROVE  Missed(u, k)'
  <1>1. Updates \subseteq Commands
    BY DEF Commands
  <1>2. PICK w \in Updates : Stale(u, w) /\ k \in DOMAIN changes[w]
    BY DEF Missed
  <1>3. Stale(u, w)' /\ Committed(w)
    BY <1>1, <1>2, StaleStep
  <1>4. changes'[u] = changes[u] /\ changes'[w] = changes[w]
    BY <1>1, <1>3, HistoryStep
  <1>5. QED
    BY <1>2, <1>3, <1>4 DEF Missed

LEMMA ExplainedStep ==
  ASSUME TypeOK, FormInv, TimeInv, [Next]_vars, NEW r,
         NEW t \in Nat, t <= version, Explained(r, t)
  PROVE  Explained(r, t)'
  <1>1. \A x \in Commands : By(x, t)' <=> By(x, t)
    BY ByStep
  <1>2. Updates \subseteq Commands
    BY DEF Commands
  <1>3. ContentsBy(r, t)'
    <2> SUFFICES ASSUME NEW k \in Touched, r[k] # NewRow[k]
                 PROVE  (\E u \in Updates : By(u, t) /\ k \in Assigned(u) /\ r[k] = Told(u, k))'
      BY DEF ContentsBy
    <2>1. PICK u \in Updates : By(u, t) /\ k \in Assigned(u) /\ r[k] = Told(u, k)
      BY DEF Explained, ContentsBy
    <2>2. By(u, t)' /\ Told(u, k)' = Told(u, k)
      BY <1>1, <1>2, <2>1, ToldStep DEF By
    <2>3. QED
      BY <2>1, <2>2
  <1>4. LossBy(r, t)'
    <2> SUFFICES ASSUME NEW u \in Updates, By(u, t)', NEW k \in Assigned(u)
                 PROVE  (\/ r[k] = Told(u, k) \/ Missed(u, k)
                         \/ \E v \in Updates : By(v, t) /\ Overwrote(v, u, k))'
      BY DEF LossBy
    <2>1. By(u, t) /\ Committed(u)
      BY <1>1, <1>2 DEF By
    <2>2. r[k] = Told(u, k) \/ Missed(u, k) \/ \E v \in Updates : By(v, t) /\ Overwrote(v, u, k)
      BY <2>1 DEF Explained, LossBy
    <2>3. CASE r[k] = Told(u, k)
      BY <2>1, <2>3, ToldStep
    <2>4. CASE Missed(u, k)
      BY <2>1, <2>4, MissedStep
    <2>5. ASSUME NEW v \in Updates, By(v, t), Overwrote(v, u, k)
          PROVE  By(v, t)' /\ Overwrote(v, u, k)'
      BY <1>1, <1>2, <2>1, <2>5, OverwroteStep
    <2>6. QED
      BY <2>2, <2>3, <2>4, <2>5
  <1>5. DeletionBy(r, t)'
    BY <1>1 DEF Explained, DeletionBy, Visible, Commands
  <1>6. ReturnBy(r, t)'
    <2> SUFFICES ASSUME Visible(r), NEW d \in Deletes, By(d, t)'
                 PROVE  (\E u \in Updates, e \in Deletes : Committed(e) /\ Stale(u, e))'
      BY DEF ReturnBy, Visible
    <2>1. By(d, t)
      BY <1>1 DEF Commands
    <2>2. PICK u \in Updates, e \in Deletes : Committed(e) /\ Stale(u, e)
      BY <2>1 DEF Explained, ReturnBy
    <2>3. Committed(e)' /\ Stale(u, e)'
      BY <2>2, StaleStep DEF Commands
    <2>4. QED
      BY <2>3
  <1>7. QED
    BY <1>3, <1>4, <1>5, <1>6 DEF Explained

LEMMA SinceStep ==
  ASSUME TypeOK, FormInv, TimeInv, [Next]_vars, NEW c \in Commands, NEW k,
         readAt'[c] = readAt[c], Since(c, k)
  PROVE  Since(c, k)'
  <1>1. PICK w \in Updates : Committed(w) /\ readAt[c] < committedAt[w] /\ k \in DOMAIN changes[w]
    BY DEF Since
  <1>2. w \in Commands
    BY DEF Commands
  <1>3. committedAt'[w] = committedAt[w] /\ changes'[w] = changes[w]
    BY <1>1, <1>2, HistoryStep
  <1>4. QED
    BY <1>1, <1>3 DEF Since, Committed

-----------------------------------------------------------------------------
(* Commits. *)

LEMMA CommitFacts ==
  ASSUME TypeOK, TimeInv, NEW c \in Commands, Commit(c)
  PROVE  /\ ~Committed(c)
         /\ committedAt'[c] = version + 1 /\ readAt'[c] = readAt[c]
         /\ changes' = changes /\ stamp' = stamp /\ found' = found
         /\ \A x \in Commands : x # c => /\ committedAt'[x] = committedAt[x]
                                         /\ committedAt'[x] \in Nat
                                         /\ committedAt'[x] <= version
  <1> USE DEF TypeOK, TimeInv
  <1>1. /\ committedAt[c] = 0 /\ readAt' = readAt
        /\ changes' = changes /\ stamp' = stamp /\ found' = found
    BY DEF Commit
  <1>2. committedAt' = [committedAt EXCEPT ![c] = version + 1]
    BY DEF Commit
  <1>3. ~Committed(c)
    BY <1>1 DEF Committed
  <1>4. committedAt'[c] = version + 1
    BY <1>2
  <1>5. \A x \in Commands : x # c => committedAt'[x] = committedAt[x]
    BY <1>2
  <1>6. \A x \in Commands : committedAt[x] \in Nat /\ committedAt[x] <= version
    OBVIOUS
  <1>7. QED
    BY <1>1, <1>3, <1>4, <1>5, <1>6

(* A row and a copy remain explained when a command commits.               *)
LEMMA CommitExplained ==
  ASSUME TypeOK, FormInv, TimeInv, RowInv, FoundInv, NEW c \in Commands, Commit(c),
         NEW r, r = row, NEW t, t = version, NEW f, f = found[c], NEW s, s = readAt[c]
  PROVE  Explained(r, t)' /\ Explained(f, s)' /\ t \in Nat /\ s \in Nat /\ s <= t
  <1>1. [Next]_vars
    BY DEF Next
  <1>2. t \in Nat /\ s \in Nat /\ s <= t
    BY DEF TypeOK, TimeInv
  <1>3. Explained(r, t) /\ Explained(f, s)
    BY DEF RowInv, FoundInv
  <1>4. QED
    BY <1>1, <1>2, <1>3, ExplainedStep

(* What a committing update makes of a column.                             *)
LEMMA CommitColumns ==
  ASSUME IInv, NEW u \in Updates, Commit(u), NEW k \in Columns
  PROVE  /\ k \in DOMAIN changes[u] /\ k \in Assigned(u) => row'[k] = Told(u, k)
         /\ k \in DOMAIN changes[u] /\ k \notin Assigned(u) => row'[k] = found[u][k]
         /\ k \notin DOMAIN changes[u] => row'[k] = row[k]
  <1>1. row' = Written(changes[u], row)
    BY DEF Commit
  <1>2. u \in Commands
    BY DEF Commands
  <1>3. k \in DOMAIN changes[u] => changes[u][k] = Updated(u, found[u], stamp[u])[k]
    BY DEF Commit, IInv, UpdateInv
  <1>4. k \in DOMAIN changes[u] => row'[k] = Stored(k, Updated(u, found[u], stamp[u])[k])
    BY <1>1, <1>3, WrittenFacts
  <1>5. k \notin DOMAIN changes[u] => row'[k] = row[k]
    BY <1>1, WrittenFacts
  <1>6. Stored(k, found[u][k]) = found[u][k]
    BY <1>2 DEF IInv, TypeOK, IsRow
  <1>7. QED
    BY <1>4, <1>5, <1>6, UpdatedFacts DEF Told

(* A committed update leaves a row that its history explains.              *)
LEMMA CommitUpdate ==
  ASSUME IInv, NEW u \in Updates, Commit(u)
  PROVE  RowInv'
  <1>0. u \in Commands /\ Updates \subseteq Commands /\ Deletes \subseteq Commands
        /\ u \notin Deletes
    BY ItemAssumption DEF Commands
  <1>1. PICK r, t, f, s, q : /\ r = row /\ t = version /\ f = found[u]
                             /\ s = readAt[u] /\ q = row'
    OBVIOUS
  <1>2. Explained(r, t)' /\ Explained(f, s)' /\ t \in Nat /\ s \in Nat /\ s <= t
    BY <1>0, <1>1, CommitExplained DEF IInv
  <1>3. /\ committedAt'[u] = t + 1 /\ readAt'[u] = s
        /\ \A x \in Commands : x # u => committedAt'[x] \in Nat /\ committedAt'[x] <= t
    BY <1>0, <1>1, CommitFacts DEF IInv
  <1>4. PICK D : D = DOMAIN changes'[u]
    OBVIOUS
  <1>5. /\ \A k \in Assigned(u) : k \in D => q[k] = Told(u, k)'
        /\ \A k \in Columns : k \in D /\ k \notin Assigned(u) => q[k] = f[k]
        /\ \A k \in Columns : k \notin D => q[k] = r[k]
    <2>1. changes' = changes /\ \A k : Told(u, k)' = Told(u, k)
      BY <1>0, CommitFacts DEF IInv, Told
    <2>2. \A k \in Assigned(u) : k \in Columns
      BY ColumnFacts
    <2>3. QED
      BY <1>1, <1>4, <2>1, <2>2, CommitColumns
  <1>6. version' = t + 1
    BY <1>1 DEF Commit
  <1>7. By(u, t + 1)'
    BY <1>2, <1>3 DEF By, Committed
  <1>8. \A x \in Commands : (By(x, s) \/ By(x, t))' => By(x, t + 1)'
    BY <1>2, <1>3 DEF By
  <1>9. ContentsBy(q, t + 1)'
    <2> SUFFICES ASSUME NEW k \in Touched, q[k] # NewRow[k]
                 PROVE  (\E w \in Updates : By(w, t + 1) /\ k \in Assigned(w) /\ q[k] = Told(w, k))'
      BY DEF ContentsBy
    <2>1. CASE k \in Assigned(u) /\ k \in D
      BY <1>5, <1>7, <2>1
    <2>2. CASE ~(k \in Assigned(u) /\ k \in D)
      <3>1. q[k] \in {f[k], r[k]}
        BY <1>5, <2>2, ColumnFacts
      <3>2. \E w \in Updates : /\ (By(w, s) \/ By(w, t))' /\ k \in Assigned(w)
                               /\ q[k] = Told(w, k)'
        BY <1>2, <3>1 DEF Explained, ContentsBy
      <3>3. QED
        BY <1>0, <1>8, <3>2
    <2>3. QED
      BY <2>1, <2>2
  <1>10. LossBy(q, t + 1)'
    <2> SUFFICES ASSUME NEW w \in Updates, By(w, t + 1)', NEW k \in Assigned(w),
                        q[k] # Told(w, k)', ~Missed(w, k)'
                 PROVE  (\E v \in Updates : By(v, t + 1) /\ Overwrote(v, w, k))'
      BY DEF LossBy
    <2>1. k \in Columns /\ w \in Commands
      BY <1>0, ColumnFacts
    <2>2. CASE w = u
      <3>1. k \notin D /\ q[k] = r[k]
        BY <1>5, <2>1, <2>2
      <3>2. row[k] # Told(u, k)
        BY <1>0, <1>1, <2>2, <3>1, CommitFacts DEF IInv, Told
      <3>3. k \notin DOMAIN changes[u]
        BY <1>0, <1>4, <3>1, CommitFacts DEF IInv
      <3>4. Since(u, k)
        BY <2>2, <3>2, <3>3 DEF Commit, IInv, UpdateInv
      <3>5. PICK x \in Updates : Committed(x) /\ s < committedAt[x] /\ k \in DOMAIN changes[x]
        BY <1>1, <3>4 DEF Since
      <3>6. x # u /\ x \in Commands
        BY <1>0, <3>5, CommitFacts DEF IInv
      <3>7. committedAt'[x] = committedAt[x] /\ committedAt'[x] \in Nat /\ committedAt'[x] <= t
            /\ changes'[x] = changes[x]
        BY <1>0, <1>1, <3>6, CommitFacts DEF IInv
      <3>8. Stale(u, x)'
        BY <1>2, <1>3, <3>5, <3>7 DEF Stale, Committed
      <3>9. Missed(u, k)'
        BY <1>4, <3>1, <3>5, <3>7, <3>8 DEF Missed
      <3>10. QED
        BY <2>2, <3>9
    <2>3. CASE w # u
      <3>1. committedAt'[w] \in Nat /\ committedAt'[w] <= t /\ By(w, t)'
        BY <1>3, <2>1, <2>3 DEF By
      <3>2. committedAt'[w] < committedAt'[u]
        BY <1>2, <1>3, <3>1
      <3>3. CASE k \notin D
        <4>1. q[k] = r[k]
          BY <1>5, <2>1, <3>3
        <4>2. PICK v \in Updates : By(v, t)' /\ Overwrote(v, w, k)'
          BY <1>2, <3>1, <4>1 DEF Explained, LossBy
        <4>3. QED
          BY <1>0, <1>8, <4>2
      <3>4. CASE k \in D /\ k \in Assigned(u)
        <4>1. Overwrote(u, w, k)'
          BY <1>4, <3>2, <3>4 DEF Overwrote
        <4>2. QED
          BY <1>7, <4>1
      <3>5. CASE k \in D /\ committedAt'[w] > s
        <4>1. Stale(u, w)'
          BY <1>2, <1>3, <3>1, <3>2, <3>5 DEF Stale, Committed
        <4>2. Overwrote(u, w, k)'
          BY <1>4, <3>2, <3>5, <4>1 DEF Overwrote
        <4>3. QED
          BY <1>7, <4>2
      <3>6. CASE k \in D /\ k \notin Assigned(u) /\ committedAt'[w] <= s
        <4>1. q[k] = f[k] /\ By(w, s)'
          BY <1>5, <2>1, <3>1, <3>6 DEF By
        <4>2. PICK v \in Updates : By(v, s)' /\ Overwrote(v, w, k)'
          BY <1>2, <4>1 DEF Explained, LossBy
        <4>3. QED
          BY <1>0, <1>8, <4>2
      <3>7. QED
        BY <1>2, <3>1, <3>3, <3>4, <3>5, <3>6
    <2>4. QED
      BY <2>2, <2>3
  <1>11. DeletionBy(q, t + 1)'
    <2> SUFFICES ASSUME ~Visible(q)
                 PROVE  (\E d \in Deletes : By(d, t + 1))'
      BY DEF DeletionBy, Visible
    <2>1. ~Visible(r)
      <3>1. q["is_deleted"] \in {f["is_deleted"], r["is_deleted"]}
        BY <1>5, ColumnFacts
      <3>2. Visible(f)
        BY <1>0, <1>1 DEF IInv, FoundInv
      <3>3. QED
        BY <3>1, <3>2 DEF Visible
    <2>2. PICK d \in Deletes : By(d, t)'
      BY <1>2, <2>1 DEF Explained, DeletionBy, Visible
    <2>3. QED
      BY <1>0, <1>8, <2>2
  <1>12. ReturnBy(q, t + 1)'
    <2> SUFFICES ASSUME Visible(q), NEW d \in Deletes, By(d, t + 1)'
                 PROVE  (\E v \in Updates, e \in Deletes : Committed(e) /\ Stale(v, e))'
      BY DEF ReturnBy, Visible
    <2>1. d # u /\ d \in Commands
      BY <1>0
    <2>2. committedAt'[d] \in Nat /\ committedAt'[d] <= t /\ By(d, t)'
      BY <1>3, <2>1 DEF By
    <2>3. CASE committedAt'[d] > s
      BY <1>2, <1>3, <2>2, <2>3 DEF Stale, By, Committed
    <2>4. CASE committedAt'[d] <= s
      <3>1. By(d, s)'
        BY <2>2, <2>4 DEF By
      <3>2. Visible(f)
        BY <1>0, <1>1 DEF IInv, FoundInv
      <3>3. QED
        BY <1>2, <3>1, <3>2 DEF Explained, ReturnBy, Visible
    <2>5. QED
      BY <1>2, <2>2, <2>3, <2>4
  <1>13. QED
    BY <1>1, <1>6, <1>9, <1>10, <1>11, <1>12 DEF RowInv, Explained, ContentsBy, LossBy,
                                                 DeletionBy, ReturnBy, Visible, By

(* So does a committed deletion.                                           *)
LEMMA CommitDelete ==
  ASSUME IInv, NEW d \in Deletes, Commit(d)
  PROVE  RowInv'
  <1>0. d \in Commands /\ Updates \subseteq Commands /\ Deletes \subseteq Commands
        /\ d \notin Updates
    BY ItemAssumption DEF Commands
  <1>1. PICK r, t, f, s, q : /\ r = row /\ t = version /\ f = found[d]
                             /\ s = readAt[d] /\ q = row'
    OBVIOUS
  <1>2. Explained(r, t)' /\ t \in Nat
    BY <1>0, <1>1, CommitExplained DEF IInv
  <1>3. /\ committedAt'[d] = t + 1
        /\ \A x \in Commands : x # d => committedAt'[x] \in Nat /\ committedAt'[x] <= t
    BY <1>0, <1>1, CommitFacts DEF IInv
  <1>4. /\ \A k \in Touched : q[k] = r[k]
        /\ q["is_deleted"] = r["is_deleted"] \/ ~Visible(q)
        /\ Visible(q) => \E e \in Deletes : Committed(e)
    <2>1. /\ DOMAIN changes[d] \subseteq {"is_deleted"}
          /\ \A k \in DOMAIN changes[d] : changes[d][k] = "deleted"
          /\ DOMAIN changes[d] = {} => \E e \in Deletes : Committed(e)
      BY DEF Commit, IInv, DeleteInv
    <2>2. q = Written(changes[d], row)
      BY <1>1 DEF Commit
    <2>3. \A k \in Touched : q[k] = r[k]
      BY <1>1, <2>1, <2>2, WrittenFacts, ColumnFacts
    <2>4. CASE "is_deleted" \in DOMAIN changes[d]
      <3>1. q["is_deleted"] = "deleted"
        BY <2>1, <2>2, <2>4, WrittenFacts, StoredFacts, ColumnFacts
      <3>2. QED
        BY <2>3, <3>1 DEF Visible
    <2>5. CASE "is_deleted" \notin DOMAIN changes[d]
      <3>1. q["is_deleted"] = r["is_deleted"]
        BY <1>1, <2>2, <2>5, WrittenFacts, ColumnFacts
      <3>2. DOMAIN changes[d] = {}
        BY <2>1, <2>5
      <3>3. QED
        BY <2>1, <2>3, <3>1, <3>2
    <2>6. QED
      BY <2>4, <2>5
  <1>5. version' = t + 1
    BY <1>1 DEF Commit
  <1>6. \A x \in Commands : By(x, t)' => By(x, t + 1)'
    BY <1>2, <1>3 DEF By
  <1>7. \A x \in Commands : x # d /\ By(x, t + 1)' => By(x, t)'
    BY <1>2, <1>3 DEF By
  <1>8. ContentsBy(q, t + 1)'
    <2> SUFFICES ASSUME NEW k \in Touched, q[k] # NewRow[k]
                 PROVE  (\E w \in Updates : By(w, t + 1) /\ k \in Assigned(w) /\ q[k] = Told(w, k))'
      BY DEF ContentsBy
    <2>1. PICK w \in Updates : By(w, t)' /\ k \in Assigned(w) /\ q[k] = Told(w, k)'
      BY <1>2, <1>4 DEF Explained, ContentsBy
    <2>2. QED
      BY <1>0, <1>6, <2>1
  <1>9. LossBy(q, t + 1)'
    <2> SUFFICES ASSUME NEW w \in Updates, By(w, t + 1)', NEW k \in Assigned(w),
                        q[k] # Told(w, k)', ~Missed(w, k)'
                 PROVE  (\E v \in Updates : By(v, t + 1) /\ Overwrote(v, w, k))'
      BY DEF LossBy
    <2>1. By(w, t)' /\ r[k] = q[k]
      BY <1>0, <1>4, <1>7, ColumnFacts
    <2>2. PICK v \in Updates : By(v, t)' /\ Overwrote(v, w, k)'
      BY <1>2, <2>1 DEF Explained, LossBy
    <2>3. QED
      BY <1>0, <1>6, <2>2
  <1>10. DeletionBy(q, t + 1)'
    BY <1>2, <1>3 DEF DeletionBy, By, Committed
  <1>11. ReturnBy(q, t + 1)'
    <2> SUFFICES ASSUME Visible(q)
                 PROVE  (\E v \in Updates, e \in Deletes : Committed(e) /\ Stale(v, e))'
      BY DEF ReturnBy, Visible
    <2>1. PICK e \in Deletes : Committed(e)
      BY <1>4
    <2>2. e # d /\ e \in Commands
      BY <1>0, <2>1, CommitFacts DEF IInv
    <2>3. committedAt'[e] = committedAt[e]
      BY <1>0, <2>2, CommitFacts DEF IInv
    <2>4. By(e, t)'
      BY <1>3, <2>1, <2>2, <2>3 DEF By, Committed
    <2>5. Visible(r)
      BY <1>4 DEF Visible
    <2>6. QED
      BY <1>2, <2>4, <2>5 DEF Explained, ReturnBy, Visible
  <1>12. QED
    BY <1>1, <1>5, <1>8, <1>9, <1>10, <1>11 DEF RowInv, Explained, ContentsBy, LossBy,
                                               DeletionBy, ReturnBy, Visible, By

LEMMA RowStep ==
  ASSUME IInv, [Next]_vars
  PROVE  RowInv'
  <1>1. CASE \E c \in Commands : Commit(c)
    BY <1>1, CommitUpdate, CommitDelete DEF Commands
  <1>2. CASE ~\E c \in Commands : Commit(c)
    <2>1. PICK r, t : r = row /\ t = version
      OBVIOUS
    <2>2. row' = r /\ version' = t
      BY <1>2, <2>1 DEF Next, vars, Find, NotFound, Fail, Save, Remove
    <2>3. t \in Nat /\ t <= version /\ Explained(r, t)
      BY <2>1 DEF IInv, TypeOK, RowInv
    <2>4. Explained(r, t)'
      BY <2>3, ExplainedStep DEF IInv
    <2>5. QED
      BY <2>2, <2>4 DEF RowInv, Explained, ContentsBy, LossBy, DeletionBy, ReturnBy,
                        Visible, By
  <1>3. QED
    BY <1>1, <1>2

-----------------------------------------------------------------------------
(* What commands have found and what they will write. *)

LEMMA FoundStep ==
  ASSUME IInv, [Next]_vars
  PROVE  FoundInv'
  <1> SUFFICES ASSUME NEW c \in Commands
               PROVE  /\ Explained(found[c], readAt[c])'
                      /\ Visible(found[c])'
                      /\ (phase[c] \in {"found", "saved"} /\ readAt[c] = version
                            => found[c] = row)'
    BY DEF FoundInv
  <1>1. CASE Find(c)
    <2>1. PICK r, t : r = row /\ t = version
      OBVIOUS
    <2>2. found'[c] = r /\ readAt'[c] = t /\ row' = r /\ Visible(row)
      BY <1>1, <2>1 DEF Find, IInv, FormInv, TypeOK
    <2>3. t \in Nat /\ t <= version /\ Explained(r, t)
      BY <2>1 DEF IInv, TypeOK, RowInv
    <2>4. Explained(r, t)'
      BY <2>3, ExplainedStep DEF IInv
    <2>5. Explained(found[c], readAt[c])'
      BY <2>2, <2>4 DEF Explained, ContentsBy, LossBy, DeletionBy, ReturnBy, Visible, By
    <2>6. QED
      BY <2>1, <2>2, <2>5 DEF Visible
  <1>2. CASE ~Find(c)
    <2>1. PICK f, s : f = found[c] /\ s = readAt[c]
      OBVIOUS
    <2>2. found'[c] = f /\ readAt'[c] = s
      BY <1>2, <2>1 DEF IInv, FormInv, TypeOK, Next, vars, Find, NotFound, Fail, Save,
                        Remove, Commit
    <2>3. s \in Nat /\ s <= version /\ Explained(f, s) /\ Visible(f)
      BY <2>1 DEF IInv, TypeOK, TimeInv, FoundInv
    <2>4. Explained(f, s)'
      BY <2>3, ExplainedStep DEF IInv
    <2>5. Explained(found[c], readAt[c])'
      BY <2>2, <2>4 DEF Explained, ContentsBy, LossBy, DeletionBy, ReturnBy, Visible, By
    <2>6. CASE \E x \in Commands : Commit(x)
      <3>1. version' = version + 1 /\ version \in Nat
        BY <2>6 DEF Commit, IInv, TypeOK
      <3>2. readAt'[c] # version'
        BY <2>2, <2>3, <3>1
      <3>3. QED
        BY <2>2, <2>3, <2>5, <3>2 DEF Visible
    <2>7. CASE ~\E x \in Commands : Commit(x)
      <3>1. row' = row /\ version' = version
        BY <2>7 DEF Next, vars, Find, NotFound, Fail, Save, Remove
      <3>2. phase'[c] \in {"found", "saved"} => phase[c] \in {"found", "saved"}
        BY <1>2, <2>7 DEF IInv, TypeOK, Next, vars, Find, NotFound, Fail, Save, Remove
      <3>3. QED
        BY <2>1, <2>2, <2>3, <2>5, <3>1, <3>2 DEF Visible, IInv, FoundInv
    <2>8. QED
      BY <2>6, <2>7
  <1>3. QED
    BY <1>1, <1>2

(* A command that has found the item and goes on keeps its copy.           *)
LEMMA FoundKept ==
  ASSUME TypeOK, FormInv, [Next]_vars, NEW c \in Commands,
         phase'[c] \in {"found", "saved"}, ~Find(c)
  PROVE  /\ phase[c] \in {"found", "saved"}
         /\ found'[c] = found[c] /\ readAt'[c] = readAt[c]
  <1> USE DEF TypeOK, FormInv
  <1>1. CASE UNCHANGED vars
    BY <1>1 DEF vars
  <1>2. ASSUME NEW x \in Commands, Find(x)
        PROVE  /\ phase[c] \in {"found", "saved"}
               /\ found'[c] = found[c] /\ readAt'[c] = readAt[c]
    <2>1. x # c
      BY <1>2
    <2>2. QED
      BY <1>2, <2>1 DEF Find
  <1>3. ASSUME NEW x \in Commands, NotFound(x) \/ Fail(x) \/ Commit(x)
        PROVE  /\ phase[c] \in {"found", "saved"}
               /\ found'[c] = found[c] /\ readAt'[c] = readAt[c]
    <2>1. x # c
      BY <1>3 DEF NotFound, Fail, Commit
    <2>2. QED
      BY <1>3, <2>1 DEF NotFound, Fail, Commit
  <1>4. ASSUME NEW x \in Commands, Save(x) \/ Remove(x)
        PROVE  /\ phase[c] \in {"found", "saved"}
               /\ found'[c] = found[c] /\ readAt'[c] = readAt[c]
    BY <1>4 DEF Save, Remove
  <1>5. QED
    BY <1>1, <1>2, <1>3, <1>4 DEF Next, Commands

(* A command that stays saved keeps its changes and its stamp as well.     *)
LEMMA SavedKept ==
  ASSUME TypeOK, FormInv, [Next]_vars, NEW c \in Commands,
         phase'[c] = "saved", ~Save(c), ~Remove(c)
  PROVE  /\ phase[c] = "saved" /\ changes'[c] = changes[c]
         /\ found'[c] = found[c] /\ readAt'[c] = readAt[c] /\ stamp'[c] = stamp[c]
  <1> USE DEF TypeOK, FormInv
  <1>1. CASE UNCHANGED vars
    BY <1>1 DEF vars
  <1>2. ASSUME NEW x \in Commands, Find(x) \/ NotFound(x)
        PROVE  /\ phase[c] = "saved" /\ changes'[c] = changes[c]
               /\ found'[c] = found[c] /\ readAt'[c] = readAt[c] /\ stamp'[c] = stamp[c]
    <2>1. x # c
      BY <1>2 DEF Find, NotFound
    <2>2. QED
      BY <1>2, <2>1 DEF Find, NotFound
  <1>3. ASSUME NEW x \in Commands, Fail(x) \/ Commit(x)
        PROVE  /\ phase[c] = "saved" /\ changes'[c] = changes[c]
               /\ found'[c] = found[c] /\ readAt'[c] = readAt[c] /\ stamp'[c] = stamp[c]
    <2>1. x # c
      BY <1>3 DEF Fail, Commit
    <2>2. QED
      BY <1>3, <2>1 DEF Fail, Commit
  <1>4. ASSUME NEW x \in Commands, Save(x) \/ Remove(x)
        PROVE  /\ phase[c] = "saved" /\ changes'[c] = changes[c]
               /\ found'[c] = found[c] /\ readAt'[c] = readAt[c] /\ stamp'[c] = stamp[c]
    <2>1. x # c
      BY <1>4
    <2>2. CASE Save(x)
      <3>1. PICK t : stamp' = [stamp EXCEPT ![x] = t]
        BY <2>2 DEF Save
      <3>2. stamp'[c] = stamp[c]
        <4>1. CASE c \in Updates
          BY <2>1, <3>1, <4>1
        <4>2. CASE c \notin Updates
          BY <2>1, <2>2, <3>1, <4>2
        <4>3. QED
          BY <4>1, <4>2
      <3>3. QED
        BY <2>1, <2>2, <3>2 DEF Save
    <2>3. CASE Remove(x)
      BY <2>1, <2>3 DEF Remove
    <2>4. QED
      BY <1>4, <2>2, <2>3
  <1>5. QED
    BY <1>1, <1>2, <1>3, <1>4 DEF Next, Commands

LEMMA ClockStep ==
  ASSUME IInv, [Next]_vars
  PROVE  ClockInv'
  <1> USE DEF IInv, ClockInv, TypeOK, FormInv
  <1>0. /\ row["updated_at"] \in Nat /\ \A c \in Commands : found[c]["updated_at"] \in Nat
        /\ Updates \subseteq Commands
    BY ColumnFacts, ContentsFacts DEF IsRow, Commands
  <1>1. CASE UNCHANGED vars
    BY <1>1 DEF vars
  <1>2. ASSUME NEW c \in Commands, Find(c)
        PROVE  ClockInv'
    <2>1. /\ \A x \in Commands : found'[x] = IF x = c THEN row ELSE found[x]
          /\ row' = row /\ clock' = clock /\ stamp' = stamp
          /\ \A u \in Updates : phase'[u] = "saved" => phase[u] = "saved" /\ u # c
      BY <1>0, <1>2 DEF Find
    <2>2. QED
      BY <1>0, <2>1
  <1>3. ASSUME NEW c \in Commands, NotFound(c) \/ Fail(c)
        PROVE  ClockInv'
    BY <1>0, <1>3 DEF NotFound, Fail
  <1>4. ASSUME NEW d \in Deletes, Remove(d)
        PROVE  ClockInv'
    BY <1>0, <1>4, ItemAssumption DEF Remove
  <1>5. ASSUME NEW u \in Updates, Save(u)
        PROVE  ClockInv'
    <2>1. PICK t \in clock..MaxClock : clock' = t /\ stamp' = [stamp EXCEPT ![u] = t]
      BY <1>5 DEF Save
    <2>2. t \in Nat /\ clock <= t
      BY <2>1, ItemAssumption
    <2>3. /\ row' = row /\ found' = found
          /\ \A v \in Updates : v # u /\ phase'[v] = "saved" => phase[v] = "saved"
      BY <1>0, <1>5 DEF Save
    <2>4. \A v \in Updates : stamp'[v] = IF v = u THEN t ELSE stamp[v]
      BY <2>1
    <2>5. QED
      BY <1>0, <2>1, <2>2, <2>3, <2>4
  <1>6. ASSUME NEW c \in Commands, Commit(c)
        PROVE  ClockInv'
    <2>1. row'["updated_at"] <= clock
      <3>1. CASE c \in Updates
        <4>1. \/ row'["updated_at"] = Told(c, "updated_at")
              \/ row'["updated_at"] = row["updated_at"]
          BY <1>6, <3>1, CommitColumns, ColumnFacts
        <4>2. Told(c, "updated_at") = stamp[c]
          BY StoredFacts DEF Told, Assignment
        <4>3. QED
          BY <3>1, <4>1, <4>2
      <3>2. CASE c \in Deletes
        <4>1. "updated_at" \notin DOMAIN changes[c]
          BY <1>6, <3>2, ColumnFacts DEF Commit, DeleteInv
        <4>2. row'["updated_at"] = row["updated_at"]
          BY <1>6, <4>1, WrittenFacts, ColumnFacts DEF Commit
        <4>3. QED
          BY <4>2
      <3>3. QED
        BY <3>1, <3>2 DEF Commands
    <2>2. /\ found' = found /\ clock' = clock /\ stamp' = stamp
          /\ \A u \in Updates : phase'[u] = "saved" => phase[u] = "saved"
      BY <1>0, <1>6 DEF Commit
    <2>3. QED
      BY <2>1, <2>2
  <1>7. QED
    BY <1>1, <1>2, <1>3, <1>4, <1>5, <1>6 DEF Next

(* When a command commits, a column holds what it held or the command has  *)
(* written it: a copy and a saved update are out of date by that command.  *)
LEMMA SinceCommit ==
  ASSUME IInv, [Next]_vars, NEW c \in Commands, readAt'[c] = readAt[c], NEW k \in Touched
  PROVE  row'[k] = row[k] \/ Since(c, k)'
  <1>1. CASE ~\E x \in Commands : Commit(x)
    BY <1>1 DEF Next, vars, Find, NotFound, Fail, Save, Remove
  <1>2. ASSUME NEW x \in Commands, Commit(x)
        PROVE  row'[k] = row[k] \/ Since(c, k)'
    <2>1. CASE k \notin DOMAIN changes[x]
      BY <1>2, <2>1, WrittenFacts, ColumnFacts DEF Commit
    <2>2. CASE k \in DOMAIN changes[x]
      <3>1. x \in Updates
        BY <1>2, <2>2, ColumnFacts DEF Commit, IInv, DeleteInv, Commands
      <3>2. committedAt'[x] = version + 1 /\ changes'[x] = changes[x]
        BY <1>2, CommitFacts DEF IInv
      <3>3. version \in Nat /\ readAt[c] \in Nat /\ readAt[c] <= version
        BY DEF IInv, TypeOK, TimeInv
      <3>4. QED
        BY <2>2, <3>1, <3>2, <3>3 DEF Since, Committed
    <2>3. QED
      BY <2>1, <2>2
  <1>3. QED
    BY <1>1, <1>2

LEMMA CopyStep ==
  ASSUME IInv, [Next]_vars
  PROVE  CopyInv'
  <1> SUFFICES ASSUME NEW c \in Commands, phase'[c] \in {"found", "saved"}, NEW k \in Touched
               PROVE  found'[c][k] = row'[k] \/ Since(c, k)'
    BY DEF CopyInv
  <1>1. CASE Find(c)
    BY <1>1 DEF Find, IInv, FormInv
  <1>2. CASE ~Find(c)
    <2>1. /\ phase[c] \in {"found", "saved"}
          /\ found'[c] = found[c] /\ readAt'[c] = readAt[c]
      BY <1>2, FoundKept DEF IInv
    <2>2. found[c][k] = row[k] \/ Since(c, k)
      BY <2>1 DEF IInv, CopyInv
    <2>3. Since(c, k) => Since(c, k)'
      BY <2>1, SinceStep DEF IInv
    <2>4. row'[k] = row[k] \/ Since(c, k)'
      BY <2>1, SinceCommit
    <2>5. QED
      BY <2>1, <2>2, <2>3, <2>4
  <1>3. QED
    BY <1>1, <1>2

LEMMA UpdateStep ==
  ASSUME IInv, [Next]_vars
  PROVE  UpdateInv'
  <1> SUFFICES ASSUME NEW u \in Updates, phase'[u] = "saved"
               PROVE  /\ \A k \in DOMAIN changes'[u] :
                           changes'[u][k] = Updated(u, found'[u], stamp'[u])[k]
                      /\ \A k \in Assigned(u) \ DOMAIN changes'[u] :
                           row'[k] = Told(u, k)' \/ Since(u, k)'
    BY DEF UpdateInv, Updated
  <1>0. u \in Commands /\ u \notin Deletes
    BY ItemAssumption DEF Commands
  <1>1. CASE Save(u)
    <2>1. PICK t \in clock..MaxClock, base \in Bases(u) :
            /\ changes' = [changes EXCEPT ![u] = Differing(Updated(u, found[u], t), base)]
            /\ stamp' = [stamp EXCEPT ![u] = t]
      BY <1>1 DEF Save
    <2>2. PICK item : item = Updated(u, found[u], t)
      OBVIOUS
    <2>3. /\ changes'[u] = Differing(item, base) /\ stamp'[u] = t
          /\ found' = found /\ row' = row /\ readAt' = readAt
      BY <1>0, <1>1, <2>1, <2>2 DEF Save, IInv, FormInv, TypeOK
    <2>4. \A k \in DOMAIN changes'[u] : changes'[u][k] = item[k]
      BY <2>3, DifferingFacts
    <2>5. ASSUME NEW k \in Assigned(u), k \notin DOMAIN changes'[u]
          PROVE  row'[k] = Told(u, k)' \/ Since(u, k)'
      <3>1. k \in Columns /\ k \in Touched
        BY ColumnFacts
      <3>2. base[k] = item[k]
        BY <2>3, <2>5, <3>1, DifferingFacts
      <3>3. Stored(k, base[k]) = base[k]
        BY <1>0, <3>1 DEF Bases, IInv, TypeOK, IsRow
      <3>4. Told(u, k)' = base[k]
        BY <2>2, <2>3, <3>2, <3>3, UpdatedFacts DEF Told
      <3>5. base[k] = row[k] \/ Since(u, k)
        BY <1>0, <1>1, <3>1 DEF Bases, Save, IInv, CopyInv
      <3>6. Since(u, k) => Since(u, k)'
        BY <1>0, <2>3, SinceStep DEF IInv
      <3>7. QED
        BY <2>3, <3>4, <3>5, <3>6
    <2>6. QED
      BY <2>2, <2>3, <2>4, <2>5
  <1>2. CASE ~Save(u)
    <2>1. /\ phase[u] = "saved" /\ changes'[u] = changes[u]
          /\ found'[u] = found[u] /\ readAt'[u] = readAt[u] /\ stamp'[u] = stamp[u]
      BY <1>0, <1>2, SavedKept DEF Remove, IInv
    <2>2. /\ \A k \in DOMAIN changes[u] : changes[u][k] = Updated(u, found[u], stamp[u])[k]
          /\ \A k \in Assigned(u) \ DOMAIN changes[u] : row[k] = Told(u, k) \/ Since(u, k)
      BY <2>1 DEF IInv, UpdateInv
    <2>3. ASSUME NEW k \in Assigned(u), k \notin DOMAIN changes'[u]
          PROVE  row'[k] = Told(u, k)' \/ Since(u, k)'
      <3>1. Told(u, k)' = Told(u, k)
        BY <2>1 DEF Told
      <3>2. Since(u, k) => Since(u, k)'
        BY <1>0, <2>1, SinceStep DEF IInv
      <3>3. row'[k] = row[k] \/ Since(u, k)'
        BY <1>0, <2>1, SinceCommit, ColumnFacts
      <3>4. QED
        BY <2>1, <2>2, <2>3, <3>1, <3>2, <3>3
    <2>4. QED
      BY <2>1, <2>2, <2>3
  <1>3. QED
    BY <1>1, <1>2

LEMMA DeleteStep ==
  ASSUME IInv, [Next]_vars
  PROVE  DeleteInv'
  <1> SUFFICES ASSUME NEW d \in Deletes, phase'[d] = "saved"
               PROVE  /\ DOMAIN changes'[d] \subseteq {"is_deleted"}
                      /\ \A k \in DOMAIN changes'[d] : changes'[d][k] = "deleted"
                      /\ DOMAIN changes'[d] = {} => \E e \in Deletes : Committed(e)'
    BY DEF DeleteInv
  <1>0. d \in Commands /\ d \notin Updates
    BY ItemAssumption DEF Commands
  <1>1. CASE Remove(d)
    <2>1. PICK base \in Bases(d) : changes' = [changes EXCEPT ![d] = Differing(Gone(base), base)]
      BY <1>1 DEF Remove
    <2>2. PICK item : item = Gone(base)
      OBVIOUS
    <2>3. changes'[d] = Differing(item, base) /\ committedAt' = committedAt
      BY <1>0, <1>1, <2>1, <2>2 DEF Remove, IInv, FormInv
    <2>4. base \in [Columns -> Anything]
      BY <1>0 DEF Bases, IInv, FormInv
    <2>5. item["is_deleted"] = "deleted" /\ \A k \in Columns : k # "is_deleted" => item[k] = base[k]
      BY <2>2, <2>4, GoneFacts
    <2>6. DeletionBy(base, version) \/ DeletionBy(base, readAt[d])
      BY <1>0 DEF IInv, RowInv, FoundInv, Explained, Bases
    <2>7. base["is_deleted"] = "deleted" => \E e \in Deletes : Committed(e)'
      BY <2>3, <2>6 DEF DeletionBy, Visible, By, Committed
    <2>8. QED
      BY <2>3, <2>5, <2>7, ColumnFacts DEF Differing
  <1>2. CASE ~Remove(d)
    <2>1. phase[d] = "saved" /\ changes'[d] = changes[d]
      BY <1>0, <1>2, SavedKept DEF Save, IInv
    <2>2. \A e \in Deletes : Committed(e) => Committed(e)'
      BY HistoryStep DEF IInv, Commands, Committed
    <2>3. QED
      BY <2>1, <2>2 DEF IInv, DeleteInv
  <1>3. QED
    BY <1>1, <1>2

LEMMA ExactStep ==
  ASSUME IInv, [Next]_vars
  PROVE  ExactInv'
  <1> SUFFICES ASSUME NEW c \in Commands, phase'[c] = "saved", readAt'[c] = version'
               PROVE  changes'[c] = Differing(Effect(c, row', stamp'[c]), row')
    BY DEF ExactInv, Effect, Updated, Gone, Differing
  <1>0. ~\E x \in Commands : Commit(x)
    <2>1. readAt'[c] <= version
      <3>1. readAt'[c] \in {readAt[c], version}
        BY DEF IInv, TypeOK, Next, vars, Find, NotFound, Fail, Save, Remove, Commit
      <3>2. QED
        BY <3>1 DEF IInv, TypeOK, TimeInv
    <2>2. QED
      BY <2>1 DEF Commit, IInv, TypeOK
  <1>1. row' = row /\ version' = version
    BY <1>0 DEF Next, vars, Find, NotFound, Fail, Save, Remove
  <1>2. CASE Save(c) \/ Remove(c)
    <2>1. readAt' = readAt /\ phase[c] = "found"
      BY <1>2 DEF Save, Remove
    <2>2. found[c] = row
      BY <1>1, <2>1 DEF IInv, FoundInv
    <2>3. Bases(c) = {row}
      BY <2>2 DEF Bases
    <2>4. changes'[c] = Differing(Effect(c, row, stamp'[c]), row)
      <3>1. CASE Save(c)
        <4>1. PICK t : /\ changes' = [changes EXCEPT ![c] = Differing(Updated(c, row, t), row)]
                       /\ stamp' = [stamp EXCEPT ![c] = t]
          BY <2>2, <2>3, <3>1 DEF Save
        <4>2. c \in Updates /\ stamp'[c] = t /\ changes'[c] = Differing(Updated(c, row, t), row)
          BY <3>1, <4>1 DEF Save, IInv, FormInv, TypeOK
        <4>3. QED
          BY <4>2 DEF Effect
      <3>2. CASE Remove(c)
        <4>1. c \notin Updates /\ changes'[c] = Differing(Gone(row), row)
          BY <2>3, <3>2, ItemAssumption DEF Remove, IInv, FormInv
        <4>2. QED
          BY <4>1 DEF Effect
      <3>3. QED
        BY <1>2, <3>1, <3>2
    <2>5. QED
      BY <1>1, <2>4
  <1>3. CASE ~Save(c) /\ ~Remove(c)
    BY <1>1, <1>3, SavedKept DEF IInv, ExactInv
  <1>4. QED
    BY <1>2, <1>3

-----------------------------------------------------------------------------
(* The theorems. *)

LEMMA InitIInv == Init => IInv
  <1> SUFFICES ASSUME Init PROVE IInv
    OBVIOUS
  <1> USE DEF Init
  <1>0. \A k \in Fields : /\ k # "is_deleted" /\ k # "updated_at"
                          /\ Start[k] \in Values /\ Stored(k, Start[k]) = Start[k]
    BY ItemAssumption DEF Stored
  <1>1. \A k \in Columns : /\ NewRow[k] \in Contents(k)
                           /\ Stored(k, NewRow[k]) = NewRow[k]
    <2>1. \A k \in Fields : /\ NewRow[k] \in Contents(k)
                            /\ Stored(k, NewRow[k]) = NewRow[k]
      BY <1>0, ContentsFacts DEF NewRow, Columns, Touched
    <2>2. NewRow["is_deleted"] = "active" /\ NewRow["updated_at"] = 0
      BY ColumnFacts DEF NewRow
    <2>3. /\ NewRow["is_deleted"] \in Contents("is_deleted")
          /\ Stored("is_deleted", NewRow["is_deleted"]) = NewRow["is_deleted"]
      BY <2>2, ContentsFacts, StoredFacts
    <2>4. /\ NewRow["updated_at"] \in Contents("updated_at")
          /\ Stored("updated_at", NewRow["updated_at"]) = NewRow["updated_at"]
      BY <2>2, ContentsFacts, StoredFacts
    <2>5. Columns = Fields \cup {"updated_at", "is_deleted"}
      BY DEF Columns, Touched
    <2>6. QED
      BY <2>1, <2>3, <2>4, <2>5
  <1>2. /\ NewRow \in [Columns -> Anything] /\ IsRow(NewRow) /\ Visible(NewRow)
        /\ NewRow["updated_at"] = 0
    <2>1. NewRow = [k \in Columns |-> NewRow[k]]
      BY DEF NewRow
    <2>2. IsRow(NewRow) /\ \A k \in Columns : NewRow[k] \in Anything
      BY <1>1, <2>1, ContentsFacts DEF IsRow
    <2>3. Visible(NewRow) /\ NewRow["updated_at"] = 0
      BY ColumnFacts DEF NewRow, Visible
    <2>4. QED
      BY <2>1, <2>2, <2>3
  <1>3. \A c \in Commands : committedAt[c] = 0 /\ ~Committed(c)
    BY DEF Committed
  <1>4. Explained(NewRow, 0)
    BY <1>2, <1>3 DEF Explained, ContentsBy, LossBy, DeletionBy, ReturnBy, By, Commands
  <1>5. TypeOK
    BY <1>2, ItemAssumption DEF TypeOK
  <1>6. FormInv /\ TimeInv /\ ClockInv
    BY <1>2 DEF FormInv, TimeInv, ClockInv, Commands
  <1>7. RowInv /\ FoundInv
    BY <1>2, <1>4 DEF RowInv, FoundInv
  <1>8. CopyInv /\ UpdateInv /\ DeleteInv /\ ExactInv
    BY DEF CopyInv, UpdateInv, DeleteInv, ExactInv, Commands
  <1>9. QED
    BY <1>5, <1>6, <1>7, <1>8 DEF IInv

LEMMA Invariance == Spec => []IInv
  <1>1. IInv /\ [Next]_vars => IInv'
    BY TypeStep, FormStep, TimeStep, ClockStep, RowStep, FoundStep, CopyStep, UpdateStep,
       DeleteStep, ExactStep
    DEF IInv
  <1>2. QED
    BY InitIInv, <1>1, PTL DEF Spec

(* The row, the copies and the pending changes of the commands keep their  *)
(* types, column by column, and a stored price is one the column can hold. *)
THEOREM TypeCorrect == Spec => []TypeOK
  BY Invariance, PTL DEF IInv

(* A committed update that is no longer seen in a column was overwritten   *)
(* there by a later one, on purpose or by a stale copy, or it set what it  *)
(* had read and so wrote nothing while another update came between,        *)
(* however many commands overlap and whatever values they share.           *)
THEOREM LossesAreExplained == Spec => []LossIsExplained
  <1>1. IInv => LossIsExplained
    BY DEF IInv, RowInv, Explained, LossBy, LossIsExplained, By, TimeInv, Commands
  <1>2. QED
    BY Invariance, <1>1, PTL

(* No column ever shows contents that no committed update has set there    *)
(* and that the item was not created with.                                 *)
THEOREM ContentsComeFromCommits == Spec => []ContentsAreCommitted
  <1>1. IInv => ContentsAreCommitted
    BY DEF IInv, RowInv, Explained, ContentsBy, ContentsAreCommitted, By
  <1>2. QED
    BY Invariance, <1>1, PTL

(* Only an update that read the item before its deletion brings it back.   *)
THEOREM ReturnsAreExplained == Spec => []ReturnIsExplained
  <1>1. IInv => ReturnIsExplained
    BY DEF IInv, RowInv, Explained, ReturnBy, ReturnIsExplained, By, TimeInv, Commands
  <1>2. QED
    BY Invariance, <1>1, PTL

(* A command that nobody came between commits its effect on the row, no    *)
(* column more and none less, at a time that is not before the row's.      *)
THEOREM UndisturbedCommitsExactly == Spec => UndisturbedIsExact
  <1>1. ASSUME IInv, [Next]_vars, NEW c \in Commands, ~Committed(c), Committed(c)',
               readAt[c] = version
        PROVE  \E t \in row["updated_at"]..clock :
                 \A k \in Columns : row'[k] = Stored(k, Effect(c, row, t)[k])
    <2>1. Commit(c)
      <3>1. PICK x \in Commands : Commit(x)
        BY <1>1 DEF Next, vars, Find, NotFound, Fail, Save, Remove, Committed
      <3>2. x = c
        BY <1>1, <3>1, CommitFacts DEF IInv, Committed
      <3>3. QED
        BY <3>1, <3>2
    <2>2. changes[c] = Differing(Effect(c, row, stamp[c]), row)
      BY <1>1, <2>1 DEF Commit, IInv, ExactInv
    <2>3. \A k \in Columns : row'[k] = Stored(k, Effect(c, row, stamp[c])[k])
      BY <1>1, <2>1, <2>2, WrittenDiffering DEF Commit, IInv, TypeOK
    <2>4. row["updated_at"] \in Nat /\ clock \in Nat /\ row["updated_at"] <= clock
      BY <1>1, ColumnFacts, ContentsFacts DEF IInv, TypeOK, IsRow, ClockInv
    <2>5. CASE c \in Updates
      <3>1. found[c] = row /\ found[c]["updated_at"] <= stamp[c] /\ stamp[c] <= clock
            /\ stamp[c] \in Nat
        BY <1>1, <2>1, <2>5 DEF Commit, IInv, FoundInv, ClockInv, TypeOK
      <3>2. stamp[c] \in row["updated_at"]..clock
        BY <2>4, <3>1
      <3>3. QED
        BY <2>3, <3>2
    <2>6. CASE c \notin Updates
      <3>1. \A k \in Columns : row'[k] = Stored(k, Effect(c, row, clock)[k])
        BY <2>3, <2>6 DEF Effect
      <3>2. clock \in row["updated_at"]..clock
        BY <2>4
      <3>3. QED
        BY <3>1, <3>2
    <2>7. QED
      BY <2>5, <2>6
  <1>2. IInv /\ [Next]_vars =>
          [\A c \in Commands :
             ~Committed(c) /\ Committed(c)' /\ readAt[c] = version
               => \E t \in row["updated_at"]..clock :
                    \A k \in Columns : row'[k] = Stored(k, Effect(c, row, t)[k])]_vars
    BY <1>1
  <1>3. QED
    BY Invariance, <1>2, PTL DEF Spec, UndisturbedIsExact

=============================================================================
