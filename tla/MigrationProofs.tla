--------------------------- MODULE MigrationProofs ---------------------------
(***************************************************************************)
(* The migration loses neither a resource nor the secrets of a cluster,    *)
(* for any number of secrets, generations and events.                      *)
(***************************************************************************)
EXTENDS Migration, TLAPS

\* The worker holds the resources that its step is about.
TypeInv ==
    /\ TypeOK
    /\ pc \in {"checkNew", "freeOld", "lookNew", "create", "status"} => read # None
    /\ pc \in {"release", "deleteOld", "markOld", "transfer", "annotate", "retransfer", "reannotate", "sync"} =>
           readNew # None

\* The old operator's finalizer stays until the controller lets the old resource go; only a new resource
\* that was deleted without the controller's finalizer can go by itself.
LossInv ==
    /\ old # None => "legacy" \in old.fin
    /\ new # None /\ new.deleting /\ "migration" \notin new.fin => "finalizer" \in unguarded
    /\ pc \in {"checkNew", "freeOld"} => read.deleting
    /\ pc \in {"markOld", "deleteOld", "release"} => readNew.deleting /\ ~Cleaning(readNew)
    /\ pc = "freeOld" => new # None \/ read.marked \/ "finalizer" \in unguarded

\* All secrets that exist belong to this generation of the new resource.
AllOwned(g) == \A s \in Secrets \ gone : g \in owners[s]

\* Who owns the secrets: a generation gets them only from the worker, and is noted to have all of
\* them when it does.
OwnerInv ==
    /\ \A s \in Secrets : 0 \in owners[s] /\ owners[s] \subseteq 0..gen
    /\ kind # Cluster => gone = Secrets
    /\ new # None => new.gen <= gen
    /\ readNew # None => readNew.gen <= gen
    /\ new # None /\ new.transferred => AllOwned(new.gen)
    /\ readNew # None /\ readNew.transferred => AllOwned(readNew.gen)
    /\ pc \in {"annotate", "reannotate"} => AllOwned(readNew.gen)

\* The pass marks the old resource only for a new one that is being deleted, and makes a new one only
\* of an old one that has no mark.
MarkInv ==
    /\ pc = "markOld" /\ new # None /\ new.migrated => new.deleting
    /\ pc = "deleteOld" /\ old # None => old.marked
    /\ pc \in {"lookNew", "create"} => old # None /\ (old.marked => read.marked)
    /\ pc = "create" => ~read.marked
    /\ old # None /\ old.marked /\ new # None /\ new.migrated => new.deleting
    /\ pc \in {"old", "checkNew", "freeOld"} /\ old # None /\ old.marked /\ new # None => ~new.migrated

\* A new resource that comes while the pass is under way, without the controller's finalizer, owns
\* nothing yet.
FreshInv ==
    /\ pc \in {"old", "lookNew", "create"} /\ new # None /\ "migration" \notin new.fin =>
           ~new.transferred /\ \A s \in Secrets : new.gen \notin owners[s]
    /\ pc = "create" /\ new # None => "migration" \notin new.fin
    /\ pc = "lookNew" /\ old.deleting /\ "secrets" \notin unguarded /\ gone # Secrets =>
           new # None /\ "migration" \in new.fin
    /\ pc = "create" /\ old.deleting /\ "secrets" \notin unguarded => gone = Secrets

\* When the old resource goes, or is gone, the secrets belong to the new one.
CertInv ==
    new # None /\ new.migrated /\ "secrets" \notin unguarded
        /\ (old = None \/ (old.deleting /\ ~old.marked)) => AllOwned(new.gen)
Inv == TypeInv /\ LossInv /\ OwnerInv /\ MarkInv /\ FreshInv /\ CertInv
-----------------------------------------------------------------------------
(* Steps that touch neither the resources nor the secrets *)

\* Only the worker moves.
Still == UNCHANGED <<kind, old, new, owners, gone, gen, unguarded>>

LEMMA EndPassKeeps == ASSUME Inv, Still, EndPass PROVE Inv'
<1> USE DEF Still, EndPass
<1>1. TypeInv' /\ LossInv'
  BY DEF Inv, TypeInv, TypeOK, LossInv
<1>2. \A g : AllOwned(g)' <=> AllOwned(g)
  BY DEF AllOwned
<1>3. OwnerInv' /\ MarkInv'
  BY <1>2 DEF Inv, OwnerInv, MarkInv
<1>4. FreshInv' /\ CertInv'
  BY <1>2 DEF Inv, FreshInv, CertInv
<1> QED
  BY <1>1, <1>3, <1>4 DEF Inv

LEMMA StartPassKeeps == ASSUME Inv, StartPass PROVE Inv'
<1>1. /\ Still /\ readNew' = new /\ read' = read /\ pc' \in {"old", "markOld"}
      /\ pc' = "old" /\ new # None => ~new.deleting /\ "migration" \in new.fin
      /\ pc' = "markOld" => new # None /\ new.deleting /\ ~Cleaning(new)
  BY DEF StartPass, Others, Still
<1> USE DEF Still
<1>2. TypeInv'
  BY <1>1 DEF Inv, TypeInv, TypeOK
<1>3. LossInv'
  BY <1>1 DEF Inv, LossInv, Cleaning
<1>4. \A g : AllOwned(g)' <=> AllOwned(g)
  BY <1>1 DEF AllOwned
<1>5. OwnerInv'
  BY <1>1, <1>4 DEF Inv, OwnerInv
<1>6. MarkInv'
  BY <1>1 DEF Inv, MarkInv
<1>7. FreshInv' /\ CertInv'
  BY <1>1, <1>4 DEF Inv, FreshInv, CertInv
<1> QED
  BY <1>2, <1>3, <1>5, <1>6, <1>7 DEF Inv

\* The pass goes on with what it has read, past the point where the resources could change under it.
LEMMA GotoKeeps ==
    ASSUME Inv, Still, NEW step, Goto(step),
           \/ step = "release" /\ pc \in {"markOld", "deleteOld"}
           \/ step = "freeOld" /\ pc = "checkNew" /\ (new # None \/ read.marked)
           \/ step = "create" /\ pc = "lookNew" /\ new = None /\ ~read.marked
           \/ step \in {"annotate", "reannotate"} /\ pc \in {"transfer", "retransfer"} /\ AllOwned(readNew.gen)
           \/ step = "sync" /\ pc \in {"retransfer", "reannotate"}
    PROVE  Inv'
<1> USE DEF Still, Goto
<1>1. TypeInv'
  BY DEF Inv, TypeInv, TypeOK
<1>2. LossInv'
  BY DEF Inv, LossInv, Cleaning
<1>3. \A g : AllOwned(g)' <=> AllOwned(g)
  BY DEF AllOwned
<1>4. OwnerInv'
  BY <1>3 DEF Inv, OwnerInv, AllOwned
<1>5. MarkInv'
  BY DEF Inv, MarkInv
<1>6. FreshInv' /\ CertInv'
  BY <1>3 DEF Inv, FreshInv, CertInv
<1> QED
  BY <1>1, <1>2, <1>4, <1>5, <1>6 DEF Inv

\* The pass goes on to the secrets of the new resource as it is.
LEMMA ToTransferKeeps ==
    ASSUME Inv, Still, new # None, pc' \in {"transfer", "retransfer"}, readNew' = new, read' = read
    PROVE  Inv'
<1> USE DEF Still
<1>1. TypeInv' /\ LossInv'
  BY DEF Inv, TypeInv, TypeOK, LossInv
<1>2. \A g : AllOwned(g)' <=> AllOwned(g)
  BY DEF AllOwned
<1>3. OwnerInv' /\ MarkInv'
  BY <1>2 DEF Inv, OwnerInv, MarkInv
<1>4. FreshInv' /\ CertInv'
  BY <1>2 DEF Inv, FreshInv, CertInv
<1> QED
  BY <1>1, <1>3, <1>4 DEF Inv
-----------------------------------------------------------------------------
(* Steps that change the old resource *)

\* Changes of the old resource that concern neither its finalizers nor its deletion.
LEMMA OldEditKeeps ==
    ASSUME Inv, UNCHANGED <<kind, new, owners, gone, gen, unguarded>>, UNCHANGED worker \/ EndPass,
           old # None, old' \in OldResource, old'.fin = old.fin, old'.deleting = old.deleting,
           old'.marked = old.marked
    PROVE  Inv'
<1> USE DEF worker, EndPass
<1>1. old' # None
  BY MigrationAssumption
<1>2. TypeInv' /\ LossInv'
  BY <1>1 DEF Inv, TypeInv, TypeOK, LossInv, Cleaning
<1>3. \A g : AllOwned(g)' <=> AllOwned(g)
  BY DEF AllOwned
<1>4. OwnerInv' /\ MarkInv'
  BY <1>1, <1>3 DEF Inv, OwnerInv, MarkInv
<1>5. FreshInv' /\ CertInv'
  BY <1>1, <1>3 DEF Inv, FreshInv, CertInv
<1> QED
  BY <1>2, <1>4, <1>5 DEF Inv

LEMMA MarkOldKeeps == ASSUME Inv, MarkOld PROVE Inv'
<1>1. CASE old = None
  BY <1>1, GotoKeeps DEF MarkOld, Others, Still
<1>2. CASE old # None
  <2>1. /\ pc = "markOld" /\ old' = [old EXCEPT !.marked = TRUE]
        /\ UNCHANGED <<kind, new, owners, gone, gen, unguarded>>
        /\ \/ pc' = "deleteOld" /\ read' = read /\ readNew' = readNew
           \/ pc' = "idle" /\ read' = None /\ readNew' = None
    BY <1>2 DEF MarkOld, Others, Answered, Goto, EndPass
  <2>2. old \in OldResource
    BY <1>2 DEF Inv, TypeInv, TypeOK
  <2>3. /\ old' \in OldResource /\ old'.fin = old.fin /\ old'.deleting = old.deleting /\ old'.marked
    BY <2>1, <2>2 DEF OldResource
  <2>4. old' # None
    BY <2>3, MigrationAssumption
  <2>5. TypeInv' /\ LossInv'
    BY <1>2, <2>1, <2>3, <2>4 DEF Inv, TypeInv, TypeOK, LossInv, Cleaning
  <2>6. \A g : AllOwned(g)' <=> AllOwned(g)
    BY <2>1 DEF AllOwned
  <2>7. OwnerInv' /\ MarkInv'
    BY <1>2, <2>1, <2>3, <2>4, <2>6 DEF Inv, OwnerInv, MarkInv
  <2>8. FreshInv' /\ CertInv'
    BY <1>2, <2>1, <2>3, <2>4, <2>6 DEF Inv, FreshInv, CertInv
  <2> QED
    BY <2>5, <2>7, <2>8 DEF Inv
<1> QED
  BY <1>1, <1>2

\* An old resource is not gone at once when it is deleted: it has the finalizer of the old operator.
LEMMA DeletingOld ==
    ASSUME Inv, old # None, old' = Settle([old EXCEPT !.deleting = TRUE])
    PROVE  /\ old' \in OldResource /\ old' # None /\ old'.fin = old.fin /\ old'.deleting
           /\ old'.marked = old.marked
<1>1. old \in OldResource /\ "legacy" \in old.fin
  BY DEF Inv, TypeInv, TypeOK, LossInv
<1> DEFINE d == [old EXCEPT !.deleting = TRUE]
<1>2. d \in OldResource /\ d.fin = old.fin /\ d.deleting /\ d.marked = old.marked
  BY <1>1 DEF OldResource
<1> HIDE DEF d
<1>3. d # None
  BY <1>2, MigrationAssumption
<1>4. Settle(d) = d
  BY <1>1, <1>2 DEF Settle
<1> QED
  BY <1>2, <1>3, <1>4 DEF d

LEMMA DeleteOldKeeps == ASSUME Inv, DeleteOld PROVE Inv'
<1>1. CASE old = None
  BY <1>1, GotoKeeps DEF DeleteOld, Others, Still
<1>2. CASE old # None
  <2>1. /\ pc = "deleteOld" /\ old' = Settle([old EXCEPT !.deleting = TRUE])
        /\ UNCHANGED <<kind, new, owners, gone, gen, unguarded>>
        /\ \/ pc' = "release" /\ read' = read /\ readNew' = readNew
           \/ pc' = "idle" /\ read' = None /\ readNew' = None
    BY <1>2 DEF DeleteOld, Others, Answered, Goto, EndPass
  <2>2. /\ old' \in OldResource /\ old' # None /\ old'.fin = old.fin /\ old'.deleting
        /\ old'.marked = old.marked
    BY <1>2, <2>1, DeletingOld
  <2>3. TypeInv' /\ LossInv'
    BY <1>2, <2>1, <2>2 DEF Inv, TypeInv, TypeOK, LossInv, Cleaning
  <2>4. \A g : AllOwned(g)' <=> AllOwned(g)
    BY <2>1 DEF AllOwned
  <2>5. OwnerInv' /\ MarkInv'
    BY <1>2, <2>1, <2>2, <2>4 DEF Inv, OwnerInv, MarkInv
  <2>6. FreshInv' /\ CertInv'
    BY <1>2, <2>1, <2>2, <2>4 DEF Inv, FreshInv, CertInv, MarkInv
  <2> QED
    BY <2>3, <2>5, <2>6 DEF Inv
<1> QED
  BY <1>1, <1>2

LEMMA ReadOldKeeps == ASSUME Inv, ReadOld PROVE Inv'
<1>1. CASE old = None \/ (old.deleting /\ "migration" \notin old.fin)
  BY <1>1, EndPassKeeps DEF ReadOld, Others, Still, Done
<1>2. CASE ~(old = None \/ (old.deleting /\ "migration" \notin old.fin))
  <2>1. /\ pc = "old" /\ pc' = (IF old.deleting THEN "checkNew" ELSE "lookNew")
        /\ old' = (IF old.deleting THEN old ELSE With(old, "migration")) /\ read' = old'
        /\ UNCHANGED <<kind, new, owners, gone, gen, unguarded, readNew>>
    BY <1>2 DEF ReadOld, Others
  <2>2. old \in OldResource
    BY <1>2 DEF Inv, TypeInv, TypeOK
  <2>3. /\ old' \in OldResource /\ ("legacy" \in old.fin => "legacy" \in old'.fin)
        /\ old'.deleting = old.deleting /\ old'.marked = old.marked
    <3>1. CASE old.deleting
      BY <2>1, <2>2, <3>1
    <3>2. CASE ~old.deleting
      <4> DEFINE w == [old EXCEPT !.fin = @ \cup {"migration"}]
      <4>1. w \in OldResource /\ w.fin = old.fin \cup {"migration"} /\ w.deleting = old.deleting /\ w.marked = old.marked
        BY <2>2 DEF OldResource
      <4>2. old' = Settle(w)
        BY <2>1, <3>2 DEF With
      <4> HIDE DEF w
      <4>3. old' = w
        BY <3>2, <4>1, <4>2 DEF Settle
      <4> QED
        BY <4>1, <4>3
    <3> QED
      BY <3>1, <3>2
  <2>4. old' # None
    BY <2>3, MigrationAssumption
  <2>5. TypeInv'
    BY <1>2, <2>1, <2>3, <2>4 DEF Inv, TypeInv, TypeOK
  <2>6. LossInv'
    BY <1>2, <2>1, <2>3, <2>4 DEF Inv, LossInv
  <2>7. \A g : AllOwned(g)' <=> AllOwned(g)
    BY <2>1 DEF AllOwned
  <2>8. OwnerInv' /\ MarkInv'
    BY <1>2, <2>1, <2>3, <2>4, <2>7 DEF Inv, OwnerInv, MarkInv
  <2>9. FreshInv' /\ CertInv'
    BY <1>2, <2>1, <2>3, <2>4, <2>7 DEF Inv, FreshInv, CertInv
  <2> QED
    BY <2>5, <2>6, <2>8, <2>9 DEF Inv
<1> QED
  BY <1>1, <1>2

\* The step that lets the old resource go.
LEMMA FreeOldGone ==
    ASSUME Inv, FreeOld, old # None, old' # old
    PROVE  old' = None /\ old = read /\ old.deleting
<1>1. pc = "freeOld" /\ old = read /\ old' = Without(old, {"migration", "legacy"})
  BY DEF FreeOld
<1>2. old \in OldResource /\ old.deleting
  BY <1>1 DEF Inv, TypeInv, TypeOK, LossInv
<1> DEFINE w == [old EXCEPT !.fin = @ \ {"migration", "legacy"}]
<1>3. w.fin = {} /\ w.deleting
  BY <1>2 DEF OldResource
<1>4. old' = Settle(w)
  BY <1>1 DEF Without
<1> HIDE DEF w
<1> QED
  BY <1>1, <1>2, <1>3, <1>4 DEF Settle

LEMMA FreeOldKeeps == ASSUME Inv, FreeOld PROVE Inv'
<1>1. /\ pc = "freeOld" /\ UNCHANGED <<kind, new, owners, gone, gen, unguarded>>
      /\ pc' = "idle" /\ read' = None /\ readNew' = None
  BY DEF FreeOld, Done, EndPass, Others
<1>2. CASE old' = old
  BY <1>1, <1>2, EndPassKeeps DEF Still, EndPass
<1>3. CASE old' # old
  <2>1. old # None
    <3>1. read # None
      BY <1>1 DEF Inv, TypeInv
    <3> QED
      BY <1>3, <3>1 DEF FreeOld
  <2>2. old' = None /\ old = read /\ old.deleting
    BY <1>3, <2>1, FreeOldGone
  <2>3. TypeInv' /\ LossInv'
    BY <1>1, <2>2 DEF Inv, TypeInv, TypeOK, LossInv
  <2>4. \A g : AllOwned(g)' <=> AllOwned(g)
    BY <1>1 DEF AllOwned
  <2>5. OwnerInv' /\ MarkInv'
    BY <1>1, <2>2, <2>4 DEF Inv, OwnerInv, MarkInv
  <2>6. FreshInv' /\ CertInv'
    BY <1>1, <2>1, <2>2, <2>4 DEF Inv, FreshInv, CertInv, MarkInv
  <2> QED
    BY <2>3, <2>5, <2>6 DEF Inv
<1> QED
  BY <1>2, <1>3
\* The new status of the old resource is that of the new one.
LEMMA SyncStatusKeeps == ASSUME Inv, SyncStatus PROVE Inv'
<1>1. /\ pc = "sync" /\ EndPass /\ UNCHANGED <<kind, new, owners, gone, gen, unguarded>>
      /\ old' = IF old # None /\ old = read THEN [old EXCEPT !.ready = readNew.ready] ELSE old
  BY DEF SyncStatus, Done, Others
<1>2. CASE old # None /\ old = read
  <2>1. old \in OldResource /\ readNew.ready \in BOOLEAN
    BY <1>1, <1>2 DEF Inv, TypeInv, TypeOK, NewResource
  <2>2. old' \in OldResource /\ old'.fin = old.fin /\ old'.deleting = old.deleting /\ old'.marked = old.marked
    BY <1>1, <1>2, <2>1 DEF OldResource
  <2> QED
    BY <1>1, <1>2, <2>2, OldEditKeeps
<1>3. CASE ~(old # None /\ old = read)
  BY <1>1, <1>3, EndPassKeeps DEF Still
<1> QED
  BY <1>2, <1>3

LEMMA UserEditsOldKeeps == ASSUME Inv, UserEditsOld PROVE Inv'
<1>1. PICK spec \in Contents : old' = [old EXCEPT !.spec = spec]
  BY DEF UserEditsOld
<1>2. old # None /\ UNCHANGED <<kind, new, owners, gone, gen, unguarded, worker>>
  BY DEF UserEditsOld, Others
<1>3. old \in OldResource
  BY <1>2 DEF Inv, TypeInv, TypeOK
<1>4. old' \in OldResource /\ old'.fin = old.fin /\ old'.deleting = old.deleting /\ old'.marked = old.marked
  BY <1>1, <1>3 DEF OldResource
<1> QED
  BY <1>2, <1>4, OldEditKeeps

\* A user's deletion of the old resource: whether the secrets were transferred is noted.
LEMMA UserDeletesOldKeeps == ASSUME Inv, UserDeletesOld PROVE Inv'
<1>1. /\ old # None /\ old' = Settle([old EXCEPT !.deleting = TRUE]) /\ ~old.deleting
      /\ UNCHANGED <<kind, new, owners, gone, gen, pc, read, readNew>>
      /\ unguarded \subseteq unguarded' /\ unguarded' \subseteq unguarded \cup {"finalizer", "secrets"}
      /\ "secrets" \notin unguarded' => Transferred
  BY DEF UserDeletesOld, worker
<1>2. /\ old' \in OldResource /\ old' # None /\ old'.fin = old.fin /\ old'.deleting
      /\ old'.marked = old.marked
  BY <1>1, DeletingOld
<1>3. TypeInv'
  BY <1>1, <1>2 DEF Inv, TypeInv, TypeOK
<1>4. LossInv'
  BY <1>1, <1>2 DEF Inv, LossInv, Cleaning
<1>5. \A g : AllOwned(g)' <=> AllOwned(g)
  BY <1>1 DEF AllOwned
<1>6. OwnerInv' /\ MarkInv'
  BY <1>1, <1>2, <1>5 DEF Inv, OwnerInv, MarkInv
<1>7. "secrets" \notin unguarded' /\ gone # Secrets => new # None /\ AllOwned(new.gen)
  BY <1>1 DEF Transferred, AllOwned, Inv, OwnerInv
<1>8. gone = Secrets => \A g : AllOwned(g)
  BY DEF AllOwned
<1>9. CertInv'
  BY <1>1, <1>2, <1>5, <1>7, <1>8 DEF Inv, CertInv
<1>10. gone # Secrets => \E s \in Secrets : s \notin gone
  BY DEF Inv, TypeInv, TypeOK
<1>11. "secrets" \notin unguarded' /\ gone # Secrets /\ pc \in {"lookNew", "create"} => "migration" \in new.fin
  BY <1>7, <1>10 DEF AllOwned, Inv, FreshInv
<1>12. FreshInv'
  BY <1>1, <1>2, <1>7, <1>11 DEF Inv, FreshInv
<1> QED
  BY <1>3, <1>4, <1>6, <1>9, <1>12 DEF Inv
-----------------------------------------------------------------------------
(* Steps that change the new resource *)

\* Changes of the new resource that keep its generation and its finalizer.
LEMMA NewEditKeeps ==
    ASSUME Inv, UNCHANGED <<kind, old, owners, gone, gen, unguarded>>,
           new # None, new' \in NewResource, new'.gen = new.gen, new'.deleting = new.deleting,
           new'.migrated = new.migrated,
           new'.transferred => AllOwned(new.gen),
           \/ UNCHANGED worker /\ ("migration" \in new'.fin <=> "migration" \in new.fin)
              /\ new'.transferred = new.transferred
           \/ EndPass /\ ("migration" \in new.fin => "migration" \in new'.fin)
           \/ pc' = "transfer" /\ readNew' = new' /\ read' = read /\ new'.fin = new.fin
           \/ pc' = "sync" /\ pc = "reannotate" /\ readNew' = readNew /\ read' = read /\ new'.fin = new.fin
    PROVE  Inv'
<1>1. new' # None
  BY MigrationAssumption
<1> USE DEF worker, EndPass
<1>2. TypeInv'
  BY <1>1 DEF Inv, TypeInv, TypeOK
<1>3. LossInv'
  BY <1>1 DEF Inv, LossInv, Cleaning
<1>4. \A g : AllOwned(g)' <=> AllOwned(g)
  BY DEF AllOwned
<1>5. OwnerInv'
  BY <1>1, <1>4 DEF Inv, OwnerInv
<1>6. MarkInv'
  BY <1>1 DEF Inv, MarkInv
<1>7. CertInv'
  BY <1>1, <1>4 DEF Inv, CertInv
<1>8. FreshInv'
  BY <1>1 DEF Inv, FreshInv
<1> QED
  BY <1>2, <1>3, <1>5, <1>6, <1>7, <1>8 DEF Inv

\* The new resource goes: the controller has released it, or never held it.
LEMMA NewGoneKeeps ==
    ASSUME Inv, UNCHANGED <<kind, old, owners, gone, gen>>,
           unguarded \subseteq unguarded', unguarded' \subseteq {"finalizer", "secrets"},
           new # None, new' = None,
           EndPass \/ (UNCHANGED worker /\ "migration" \notin new.fin /\ "finalizer" \in unguarded')
    PROVE  Inv'
<1> USE DEF worker, EndPass
<1>1. TypeInv'
  BY DEF Inv, TypeInv, TypeOK
<1>2. LossInv'
  BY DEF Inv, LossInv, Cleaning
<1>3. \A g : AllOwned(g)' <=> AllOwned(g)
  BY DEF AllOwned
<1>4. OwnerInv'
  BY <1>3 DEF Inv, OwnerInv
<1>5. MarkInv' /\ CertInv'
  BY DEF Inv, MarkInv, CertInv
<1>6. FreshInv'
  BY DEF Inv, FreshInv
<1> QED
  BY <1>1, <1>2, <1>4, <1>5, <1>6 DEF Inv
\* A new resource is made: by a user, or by the pass, of an old one that has no mark.
LEMMA NewMadeKeeps ==
    ASSUME Inv, UNCHANGED <<kind, old, owners, gone, unguarded>>,
           new = None, gen < MaxGen, gen' = gen + 1,
           new' \in NewResource, new'.gen = gen + 1, new'.fin = {}, ~new'.deleting, ~new'.transferred,
           \/ UNCHANGED worker /\ ~new'.migrated
           \/ pc = "create" /\ EndPass
           \/ pc = "create" /\ pc' = "status" /\ read' = read /\ readNew' = new'
    PROVE  Inv'
<1> USE DEF worker, EndPass
<1>1. new' # None
  BY MigrationAssumption
<1>2. gen \in Nat /\ gen' \in 0..MaxGen
  BY MigrationAssumption DEF Inv, TypeInv, TypeOK
<1>3. TypeInv'
  BY <1>1, <1>2 DEF Inv, TypeInv, TypeOK
<1>4. LossInv'
  BY <1>1 DEF Inv, LossInv, Cleaning
<1>5. \A g : AllOwned(g)' <=> AllOwned(g)
  BY DEF AllOwned
<1>6. OwnerInv'
  <2>1. \A s \in Secrets : 0 \in owners[s] /\ owners[s] \subseteq 0..gen'
    BY <1>2 DEF Inv, OwnerInv
  <2>2. readNew' # None => readNew'.gen <= gen' /\ (readNew'.transferred => AllOwned(readNew'.gen))
    <3>1. CASE readNew' = readNew /\ readNew # None
      <4>1. readNew.gen \in Nat /\ readNew.gen <= gen
        BY <3>1, MigrationAssumption DEF Inv, TypeInv, TypeOK, OwnerInv, NewResource, Gen
      <4> QED
        BY <1>2, <3>1, <4>1 DEF Inv, OwnerInv
    <3>2. CASE readNew' = new'
      BY <1>2, <3>2
    <3> QED
      BY <3>1, <3>2
  <2> QED
    BY <1>1, <1>2, <1>5, <2>1, <2>2 DEF Inv, OwnerInv
<1>7. MarkInv'
  BY <1>1 DEF Inv, MarkInv
<1>8. CertInv'
  <2>1. gone = Secrets => AllOwned(gen + 1)
    BY DEF AllOwned
  <2> QED
    BY <1>1, <1>5, <2>1 DEF Inv, CertInv, MarkInv, FreshInv
<1>9. FreshInv'
  <2>1. \A s \in Secrets : gen + 1 \notin owners[s]
    BY <1>2 DEF Inv, OwnerInv
  <2> QED
    BY <1>1, <2>1 DEF Inv, FreshInv
<1> QED
  BY <1>3, <1>4, <1>6, <1>7, <1>8, <1>9 DEF Inv

LEMMA CreateKeeps == ASSUME Inv, Create PROVE Inv'
<1>1. CASE new # None
  <2>1. CASE kind = Cluster
    BY <1>1, <2>1, ToTransferKeeps DEF Create, Still
  <2>2. CASE kind # Cluster
    BY <1>1, <2>2, EndPassKeeps DEF Create, Still, Done
  <2> QED
    BY <2>1, <2>2
<1>2. CASE new = None
  <2>1. /\ pc = "create" /\ UNCHANGED <<kind, old, owners, gone, unguarded>>
        /\ gen < MaxGen /\ gen' = gen + 1 /\ new' = Converted(read)
        /\ \/ pc' = "status" /\ readNew' = new' /\ read' = read
           \/ EndPass
    BY <1>2 DEF Create
  <2>2. read \in OldResource /\ gen \in Nat
    BY <2>1, MigrationAssumption DEF Inv, TypeInv, TypeOK
  <2>3. /\ new' \in NewResource /\ new'.gen = gen + 1 /\ new'.fin = {} /\ ~new'.deleting /\ ~new'.transferred
    BY <2>1, <2>2, MigrationAssumption DEF Converted, NewResource, OldResource, Gen
  <2> QED
    BY <1>2, <2>1, <2>3, NewMadeKeeps
<1> QED
  BY <1>1, <1>2

LEMMA UserCreatesNewKeeps == ASSUME Inv, UserCreatesNew PROVE Inv'
<1>1. /\ new = None /\ gen < MaxGen /\ gen' = gen + 1
      /\ new' = [Converted([spec |-> 2]) EXCEPT !.migrated = FALSE]
      /\ UNCHANGED <<kind, old, owners, gone, unguarded, worker>>
  BY DEF UserCreatesNew
<1>2. gen \in Nat
  BY MigrationAssumption DEF Inv, TypeInv, TypeOK
<1>3. [spec |-> 2].spec = 2
  OBVIOUS
<1>4. new' = [fin |-> {}, deleting |-> FALSE, ready |-> FALSE, spec |-> 2, gen |-> gen + 1,
              migrated |-> FALSE, transferred |-> FALSE]
  BY <1>1, <1>3 DEF Converted
<1>5. /\ new' \in NewResource /\ new'.gen = gen + 1 /\ new'.fin = {} /\ ~new'.deleting /\ ~new'.transferred
      /\ ~new'.migrated
  <2>1. gen + 1 \in Gen /\ 2 \in Contents
    BY <1>1, <1>2, MigrationAssumption DEF Gen, Contents
  <2>2. new' \in NewResource
    BY <1>4, <2>1, Zenon DEF NewResource
  <2> QED
    BY <1>4, <2>2, Zenon
<1> QED
  BY <1>1, <1>5, NewMadeKeeps

LEMMA AddFinalizerKeeps == ASSUME Inv, AddFinalizerToNew \/ MainAddsFinalizer PROVE Inv'
<1>1. PICK f \in {"migration", "main"} :
        /\ new # None /\ ~new.deleting /\ new' = With(new, f)
        /\ UNCHANGED <<kind, old, owners, gone, gen, unguarded>>
        /\ EndPass \/ (UNCHANGED worker /\ f = "main")
  BY DEF AddFinalizerToNew, MainAddsFinalizer, Done, Others
<1>2. new \in NewResource
  BY <1>1 DEF Inv, TypeInv, TypeOK
<1> DEFINE w == [new EXCEPT !.fin = @ \cup {f}]
<1>3. /\ w \in NewResource /\ w.gen = new.gen /\ w.deleting = new.deleting /\ w.migrated = new.migrated
      /\ w.transferred = new.transferred /\ w.fin = new.fin \cup {f}
  BY <1>2 DEF NewResource
<1>4. new' = Settle(w)
  BY <1>1 DEF With
<1> HIDE DEF w
<1>5. new' = w
  BY <1>1, <1>3, <1>4 DEF Settle
<1>6. new.transferred => AllOwned(new.gen)
  BY <1>1 DEF Inv, OwnerInv
<1> QED
  BY <1>1, <1>3, <1>5, <1>6, NewEditKeeps

LEMMA ReadyKeeps == ASSUME Inv, CopyStatus \/ MainBecomesReady PROVE Inv'
<1>1. CASE new = None
  BY <1>1, EndPassKeeps DEF CopyStatus, MainBecomesReady, Done, Others, Still
<1>2. CASE new # None
  <2>1. /\ UNCHANGED <<kind, old, owners, gone, gen, unguarded>>
        /\ \E b \in BOOLEAN : new' = new \/ new' = [new EXCEPT !.ready = b]
        /\ EndPass \/ UNCHANGED worker \/ (pc' = "transfer" /\ readNew' = new' /\ read' = read)
    <3>1. CASE MainBecomesReady
      BY <3>1 DEF MainBecomesReady, Others
    <3>2. CASE CopyStatus
      <4>1. read.ready \in BOOLEAN
        BY <3>2 DEF CopyStatus, Inv, TypeInv, TypeOK, OldResource
      <4> QED
        BY <1>2, <3>2, <4>1 DEF CopyStatus, Others, Done
    <3> QED
      BY <3>1, <3>2
  <2>2. new \in NewResource
    BY <1>2 DEF Inv, TypeInv, TypeOK
  <2>3. /\ new' \in NewResource /\ new'.gen = new.gen /\ new'.deleting = new.deleting
        /\ new'.migrated = new.migrated /\ new'.transferred = new.transferred /\ new'.fin = new.fin
    BY <2>1, <2>2 DEF NewResource
  <2>4. new.transferred => AllOwned(new.gen)
    BY <1>2 DEF Inv, OwnerInv
  <2> QED
    BY <1>2, <2>1, <2>3, <2>4, NewEditKeeps
<1> QED
  BY <1>1, <1>2
\* The finalizers that are left when one of them goes: the last one lets a deleted resource go.
LEMMA WithoutNew ==
    ASSUME Inv, new # None, NEW F
    PROVE  LET w == Without(new, F) IN
           \/ w = None /\ new.deleting /\ new.fin \ F = {}
           \/ /\ w \in NewResource /\ w.gen = new.gen /\ w.deleting = new.deleting
              /\ w.migrated = new.migrated /\ w.transferred = new.transferred /\ w.fin = new.fin \ F
<1>1. new \in NewResource
  BY DEF Inv, TypeInv, TypeOK
<1> DEFINE v == [new EXCEPT !.fin = @ \ F]
<1>2. /\ v \in NewResource /\ v.gen = new.gen /\ v.deleting = new.deleting /\ v.migrated = new.migrated
      /\ v.transferred = new.transferred /\ v.fin = new.fin \ F
  BY <1>1 DEF NewResource
<1>3. Without(new, F) = Settle(v)
  BY DEF Without
<1> HIDE DEF v
<1> QED
  BY <1>2, <1>3 DEF Settle

\* The controller releases the new resource only when no other finalizer is left.
LEMMA ReleaseNewKeeps == ASSUME Inv, ReleaseNew PROVE Inv'
<1>1. /\ pc = "release" /\ EndPass /\ UNCHANGED <<kind, old, owners, gone, gen, unguarded>>
      /\ new' = IF new = readNew THEN Without(new, {"migration"}) ELSE new
  BY DEF ReleaseNew, Done, Others
<1>2. CASE new # readNew
  BY <1>1, <1>2, EndPassKeeps DEF Still
<1>3. CASE new = readNew
  <2>1. new # None /\ new.deleting /\ ~Cleaning(new) /\ new \in NewResource
    BY <1>1, <1>3 DEF Inv, TypeInv, TypeOK, LossInv, Cleaning
  <2>2. new.fin \ {"migration"} = {}
    BY <2>1 DEF Cleaning, NewResource
  <2> DEFINE v == [new EXCEPT !.fin = @ \ {"migration"}]
  <2>3. v.deleting /\ v.fin = {}
    BY <2>1, <2>2 DEF NewResource
  <2>4. new' = Settle(v)
    BY <1>1, <1>3 DEF Without
  <2> HIDE DEF v
  <2>5. new' = None
    BY <2>3, <2>4 DEF Settle
  <2>6. unguarded \subseteq {"finalizer", "secrets"}
    BY DEF Inv, TypeInv, TypeOK
  <2> QED
    BY <1>1, <2>1, <2>5, <2>6, NewGoneKeeps
<1> QED
  BY <1>2, <1>3

LEMMA MainCleansUpKeeps == ASSUME Inv, MainCleansUp PROVE Inv'
<1>1. /\ new # None /\ new.deleting /\ new' = Without(new, {"main"})
      /\ UNCHANGED <<kind, old, owners, gone, gen, unguarded, worker>>
  BY DEF MainCleansUp, Others
<1>2. unguarded \subseteq {"finalizer", "secrets"} /\ (new.transferred => AllOwned(new.gen))
  BY <1>1 DEF Inv, TypeInv, TypeOK, OwnerInv
<1>3. CASE new' = None /\ new.fin \ {"main"} = {}
  <2>1. "migration" \notin new.fin /\ "finalizer" \in unguarded
    BY <1>1, <1>3 DEF Inv, LossInv
  <2> QED
    BY <1>1, <1>2, <1>3, <2>1, NewGoneKeeps
<1>4. CASE /\ new' \in NewResource /\ new'.gen = new.gen /\ new'.deleting = new.deleting
           /\ new'.migrated = new.migrated /\ new'.transferred = new.transferred
           /\ new'.fin = new.fin \ {"main"}
  BY <1>1, <1>2, <1>4, NewEditKeeps
<1> QED
  BY <1>1, <1>3, <1>4, WithoutNew

\* A user's deletion of the new resource: whether the controller held it is noted.
LEMMA UserDeletesNewKeeps == ASSUME Inv, UserDeletesNew PROVE Inv'
<1>1. /\ new # None /\ ~new.deleting /\ new' = Settle([new EXCEPT !.deleting = TRUE])
      /\ UNCHANGED <<kind, old, owners, gone, gen, pc, read, readNew>>
      /\ unguarded \subseteq unguarded' /\ unguarded' \subseteq unguarded \cup {"finalizer"}
      /\ "migration" \notin new.fin => "finalizer" \in unguarded'
  BY DEF UserDeletesNew, worker
<1>2. new \in NewResource /\ unguarded \subseteq {"finalizer", "secrets"}
  BY <1>1 DEF Inv, TypeInv, TypeOK
<1> DEFINE d == [new EXCEPT !.deleting = TRUE]
<1>3. /\ d \in NewResource /\ d.gen = new.gen /\ d.deleting /\ d.migrated = new.migrated
      /\ d.transferred = new.transferred /\ d.fin = new.fin
  BY <1>2 DEF NewResource
<1>4. new' = Settle(d)
  BY <1>1
<1> HIDE DEF d
<1>5. CASE new.fin = {}
  <2>1. new' = None
    BY <1>3, <1>4, <1>5 DEF Settle
  <2> QED
    BY <1>1, <1>2, <1>5, <2>1, NewGoneKeeps DEF worker
<1>6. CASE new.fin # {}
  <2>1. new' = d /\ d # None
    BY <1>3, <1>4, <1>6, MigrationAssumption DEF Settle
  <2>2. TypeInv'
    BY <1>1, <1>2, <1>3, <2>1 DEF Inv, TypeInv, TypeOK
  <2>3. LossInv'
    BY <1>1, <1>3, <2>1 DEF Inv, LossInv, Cleaning
  <2>4. \A g : AllOwned(g)' <=> AllOwned(g)
    BY <1>1 DEF AllOwned
  <2>5. OwnerInv' /\ MarkInv'
    BY <1>1, <1>3, <2>1, <2>4 DEF Inv, OwnerInv, MarkInv
  <2>6. FreshInv' /\ CertInv'
    BY <1>1, <1>3, <2>1, <2>4 DEF Inv, FreshInv, CertInv
  <2> QED
    BY <2>2, <2>3, <2>5, <2>6 DEF Inv
<1> QED
  BY <1>5, <1>6
-----------------------------------------------------------------------------
(* Steps that change the secrets *)

LEMMA TransferSecretKeeps == ASSUME Inv, TransferSecret PROVE Inv'
<1>1. /\ pc \in {"transfer", "retransfer"} /\ UNCHANGED <<kind, old, new, gone, gen, unguarded>>
      /\ readNew \in NewResource /\ readNew.gen <= gen
  BY DEF TransferSecret, Inv, TypeInv, TypeOK, OwnerInv
<1>2. CASE owners' = owners /\ TransferDone
  BY <1>1, <1>2, EndPassKeeps, GotoKeeps DEF TransferDone, Done, Still
<1>3. CASE Unowned = {} /\ owners' = owners /\ ToAnnotate
  <2>1. AllOwned(readNew.gen)
    BY <1>3 DEF AllOwned, Unowned
  <2> QED
    BY <1>1, <1>3, <2>1, GotoKeeps DEF ToAnnotate, Still
<1>4. CASE /\ Unowned # {} /\ Answered(pc)
           /\ LET s == CHOOSE t \in Unowned : TRUE IN owners' = [owners EXCEPT ![s] = @ \cup {readNew.gen}]
  <2>1. PICK s \in Secrets : owners' = [owners EXCEPT ![s] = @ \cup {readNew.gen}]
    BY <1>4 DEF Unowned
  <2>2. /\ \/ pc' = pc /\ read' = read /\ readNew' = readNew
           \/ pc' = "idle" /\ read' = None /\ readNew' = None
    BY <1>4 DEF Answered, Goto, EndPass
  <2>3. owners \in [Secrets -> SUBSET (Gen \cup {0})] /\ readNew.gen \in Gen
    BY <1>1 DEF Inv, TypeInv, TypeOK, NewResource
  <2>4. /\ owners' \in [Secrets -> SUBSET (Gen \cup {0})]
        /\ \A t \in Secrets : owners[t] \subseteq owners'[t] /\ owners'[t] \subseteq owners[t] \cup {readNew.gen}
    BY <2>1, <2>3
  <2>5. \A g : AllOwned(g) => AllOwned(g)'
    BY <1>1, <2>4 DEF AllOwned
  <2>6. TypeInv' /\ LossInv'
    BY <1>1, <2>2, <2>4 DEF Inv, TypeInv, TypeOK, LossInv
  <2>7. readNew.gen \in 0..gen
    BY <1>1, <2>3, MigrationAssumption DEF Gen, Inv, TypeInv, TypeOK
  <2>8. OwnerInv'
    BY <1>1, <2>2, <2>4, <2>5, <2>7 DEF Inv, OwnerInv
  <2>9. MarkInv' /\ FreshInv'
    BY <1>1, <2>2 DEF Inv, MarkInv, FreshInv
  <2>10. CertInv'
    BY <1>1, <2>5 DEF Inv, CertInv
  <2> QED
    BY <2>6, <2>8, <2>9, <2>10 DEF Inv
<1> QED
  BY <1>2, <1>3, <1>4 DEF TransferSecret

LEMMA AnnotateKeeps == ASSUME Inv, Annotate PROVE Inv'
<1>1. /\ pc \in {"annotate", "reannotate"} /\ UNCHANGED <<kind, old, owners, gone, gen, unguarded>>
      /\ new' = IF new = readNew THEN [new EXCEPT !.transferred = TRUE] ELSE new
      /\ EndPass \/ (pc = "reannotate" /\ Goto("sync"))
  BY DEF Annotate, TransferDone, Done, Others
<1>2. CASE new # readNew
  BY <1>1, <1>2, EndPassKeeps, GotoKeeps DEF Still
<1>3. CASE new = readNew
  <2>1. new # None /\ new \in NewResource /\ AllOwned(new.gen)
    BY <1>1, <1>3 DEF Inv, TypeInv, TypeOK, OwnerInv
  <2>2. /\ new' \in NewResource /\ new'.gen = new.gen /\ new'.deleting = new.deleting
        /\ new'.migrated = new.migrated /\ new'.fin = new.fin
    BY <1>1, <1>3, <2>1 DEF NewResource
  <2> QED
    BY <1>1, <2>1, <2>2, NewEditKeeps DEF Goto
<1> QED
  BY <1>2, <1>3

LEMMA CollectGarbageKeeps == ASSUME Inv, NEW s \in Secrets, CollectGarbage(s) PROVE Inv'
<1>1. gone' = gone \cup {s} /\ UNCHANGED <<kind, old, new, owners, gen, unguarded, pc, read, readNew>>
  BY DEF CollectGarbage, worker
<1>2. TypeInv' /\ LossInv'
  BY <1>1 DEF Inv, TypeInv, TypeOK, LossInv, Cleaning
<1>3. \A g : AllOwned(g) => AllOwned(g)'
  BY <1>1 DEF AllOwned
<1>4. OwnerInv' /\ MarkInv'
  BY <1>1, <1>3 DEF Inv, OwnerInv, MarkInv
<1>5. gone' # Secrets => gone # Secrets
  BY <1>1
<1>6. FreshInv' /\ CertInv'
  BY <1>1, <1>3, <1>5 DEF Inv, FreshInv, CertInv
<1> QED
  BY <1>2, <1>4, <1>6 DEF Inv
-----------------------------------------------------------------------------
(* All steps *)

LEMMA CheckNewKeeps == ASSUME Inv, CheckNew PROVE Inv'
<1>1. /\ Still /\ pc = "checkNew"
      /\ EndPass \/ ((new # None \/ read.marked) /\ Goto("freeOld"))
  BY DEF CheckNew, Still, Others, Done
<1> QED
  BY <1>1, EndPassKeeps, GotoKeeps

LEMMA LookNewKeeps == ASSUME Inv, LookNew PROVE Inv'
<1>1. /\ Still /\ pc = "lookNew"
      /\ \/ EndPass
         \/ new # None /\ pc' = "retransfer" /\ readNew' = new /\ read' = read
         \/ new = None /\ ~read.marked /\ Goto("create")
  BY DEF LookNew, Still, Others, Done
<1> QED
  BY <1>1, EndPassKeeps, GotoKeeps, ToTransferKeeps

LEMMA InvInit == Init => Inv
<1> SUFFICES ASSUME Init PROVE Inv
  OBVIOUS
<1>1. /\ old \in OldResource /\ old.fin = {"legacy"} /\ ~old.deleting /\ ~old.marked
      /\ new = None /\ owners = [s \in Secrets |-> {0}] /\ pc = "idle" /\ read = None /\ readNew = None
      /\ gen = 0 /\ unguarded = {} /\ kind \in AllKinds /\ gone \subseteq Secrets
      /\ kind # Cluster => gone = Secrets
  BY MigrationAssumption DEF Init, OldResource, Contents
<1>2. old # None
  BY <1>1, MigrationAssumption
<1>3. TypeInv
  BY <1>1, MigrationAssumption DEF TypeInv, TypeOK
<1>4. LossInv /\ MarkInv /\ FreshInv /\ CertInv
  BY <1>1, <1>2 DEF LossInv, MarkInv, FreshInv, CertInv
<1>5. OwnerInv
  BY <1>1 DEF OwnerInv
<1> QED
  BY <1>3, <1>4, <1>5 DEF Inv

\* Every kind is handled by the same steps; those of a cluster have some more.
LEMMA ReconcileSteps ==
    ASSUME Reconcile
    PROVE  Generic \/ TransferSecret \/ Annotate \/ SyncStatus
BY DEF Reconcile, ClusterMigration, UserMigration, RoleMigration, UserRoleBindingMigration, TenantMigration,
   ActionGroupMigration, ISMPolicyMigration, SnapshotPolicyMigration, IndexTemplateMigration,
   ComponentTemplateMigration

LEMMA InvStep == Inv /\ [Next]_vars => Inv'
<1> SUFFICES ASSUME Inv, [Next]_vars PROVE Inv'
  OBVIOUS
<1>1. CASE Generic
  BY <1>1, StartPassKeeps, AddFinalizerKeeps, MarkOldKeeps, DeleteOldKeeps, ReleaseNewKeeps, ReadOldKeeps,
     CheckNewKeeps, FreeOldKeeps, LookNewKeeps, CreateKeeps, ReadyKeeps, Zenon DEF Generic
<1>2. CASE TransferSecret \/ Annotate \/ SyncStatus
  BY <1>2, TransferSecretKeeps, AnnotateKeeps, SyncStatusKeeps, Zenon
<1>3. CASE PassFails
  BY <1>3, EndPassKeeps DEF PassFails, Others, Still
<1>4. CASE Main
  BY <1>4, AddFinalizerKeeps, ReadyKeeps, MainCleansUpKeeps, Zenon DEF Main
<1>5. ASSUME NEW s \in Secrets, CollectGarbage(s) PROVE Inv'
  BY <1>5, CollectGarbageKeeps
<1>6. CASE UserDeletesOld \/ UserDeletesNew \/ UserCreatesNew \/ UserEditsOld
  BY <1>6, UserDeletesOldKeeps, UserDeletesNewKeeps, UserCreatesNewKeeps, UserEditsOldKeeps, Zenon
<1>7. CASE UNCHANGED vars
  <2>1. Still /\ UNCHANGED worker
    BY <1>7 DEF vars, Still, worker
  <2>2. \A g : AllOwned(g)' <=> AllOwned(g)
    BY <2>1 DEF AllOwned, Still
  <2> USE DEF Still, worker
  <2>3. TypeInv' /\ LossInv'
    <3>1. TypeInv'
      BY <2>1, Zenon DEF Inv, TypeInv, TypeOK
    <3>2. LossInv'
      BY <2>1 DEF Inv, LossInv, Cleaning
    <3> QED
      BY <3>1, <3>2
  <2>4. OwnerInv'
    BY <2>1, <2>2 DEF Inv, OwnerInv
  <2>5. MarkInv'
    BY <2>1, <2>2 DEF Inv, MarkInv
  <2>6. FreshInv' /\ CertInv'
    BY <2>1, <2>2 DEF Inv, FreshInv, CertInv
  <2> QED
    BY <2>3, <2>4, <2>5, <2>6 DEF Inv
<1> QED
  BY <1>1, <1>2, <1>3, <1>4, <1>5, <1>6, <1>7, ReconcileSteps DEF Next

LEMMA MigrationInvariant == Spec => []Inv
BY InvInit, InvStep, PTL DEF Spec
-----------------------------------------------------------------------------
(* Results *)

\* The old resource goes only when the new one exists, was deleted first, or a deletion came before the
\* controller had its finalizers in place: only the step that removes them lets it go, and that comes after
\* the new resource was found (handleOldClusterDeletion, handleGenericDeletion).
THEOREM MigrationLosesNothing == Spec => NothingIsLost
<1> DEFINE Lost == (old # None /\ old' = None) => (new # None \/ old.marked \/ "finalizer" \in unguarded)
<1>1. ASSUME Inv, Next PROVE Lost
  <2> SUFFICES ASSUME old # None, old' = None
               PROVE  new # None \/ old.marked \/ "finalizer" \in unguarded
    OBVIOUS
  <2>1. old \in OldResource
    BY <1>1 DEF Inv, TypeInv, TypeOK
  <2>2. ~MarkOld
    <3> SUFFICES ASSUME MarkOld PROVE FALSE
      OBVIOUS
    <3>1. old' = [old EXCEPT !.marked = TRUE]
      BY DEF MarkOld
    <3>2. old' \in OldResource
      BY <2>1, <3>1 DEF OldResource
    <3> QED
      BY <3>2, MigrationAssumption
  <2>3. ~DeleteOld /\ ~UserDeletesOld
    BY <1>1, DeletingOld DEF DeleteOld, UserDeletesOld
  <2>4. ~ReadOld
    <3> SUFFICES ASSUME ReadOld PROVE FALSE
      OBVIOUS
    <3>1. ~old.deleting /\ old' = With(old, "migration")
      BY DEF ReadOld
    <3> DEFINE w == [old EXCEPT !.fin = @ \cup {"migration"}]
    <3>2. w \in OldResource /\ w.deleting = old.deleting
      BY <2>1 DEF OldResource
    <3>3. old' = Settle(w)
      BY <3>1 DEF With
    <3> HIDE DEF w
    <3>4. old' = w
      BY <3>1, <3>2, <3>3 DEF Settle
    <3> QED
      BY <3>2, <3>4, MigrationAssumption
  <2>5. ~SyncStatus
    <3> SUFFICES ASSUME SyncStatus PROVE FALSE
      OBVIOUS
    <3>1. pc = "sync" /\ old' = [old EXCEPT !.ready = readNew.ready]
      BY DEF SyncStatus
    <3>2. readNew.ready \in BOOLEAN
      BY <1>1, <3>1 DEF Inv, TypeInv, TypeOK, NewResource
    <3>3. old' \in OldResource
      BY <2>1, <3>1, <3>2 DEF OldResource
    <3> QED
      BY <3>3, MigrationAssumption
  <2>6. ~UserEditsOld
    <3> SUFFICES ASSUME UserEditsOld PROVE FALSE
      OBVIOUS
    <3>1. PICK spec \in Contents : old' = [old EXCEPT !.spec = spec]
      BY DEF UserEditsOld
    <3>2. old' \in OldResource
      BY <2>1, <3>1 DEF OldResource
    <3> QED
      BY <3>2, MigrationAssumption
  <2>7. FreeOld
    BY <1>1, <2>2, <2>3, <2>4, <2>5, <2>6, ReconcileSteps DEF Next, Generic, Main, StartPass, AddFinalizerToNew,
       ReleaseNew, CheckNew, LookNew, Create, CopyStatus, TransferSecret, Annotate, PassFails, MainAddsFinalizer,
       MainBecomesReady, MainCleansUp, CollectGarbage, UserDeletesNew, UserCreatesNew
  <2>8. pc = "freeOld" /\ old = read
    BY <1>1, <2>7, FreeOldGone DEF FreeOld
  <2> QED
    BY <1>1, <2>8 DEF Inv, LossInv
<1>2. Inv /\ [Next]_vars => [Lost]_vars
  BY <1>1
<1> QED
  BY <1>2, MigrationInvariant, PTL DEF Spec, NothingIsLost

\* The garbage collector takes no secret of a cluster whose new resource the migration made: every secret
\* belongs to it when the old resource goes (transferCertificateSecretOwnership), unless the old one was deleted before
\* the transfer was complete.
THEOREM MigrationKeepsSecrets == Spec => CertificatesSurvive
<1> DEFINE Survive == \A s \in gone' \ gone : new = None \/ ~new.migrated \/ "secrets" \in unguarded
<1>1. ASSUME Inv, NEW s \in Secrets, CollectGarbage(s) PROVE new = None \/ ~new.migrated \/ "secrets" \in unguarded
  <2> SUFFICES ASSUME new # None, new.migrated, "secrets" \notin unguarded PROVE FALSE
    OBVIOUS
  <2>1. s \notin gone /\ \A g \in owners[s] : ~Alive(g)
    BY <1>1 DEF CollectGarbage
  <2>2. 0 \in owners[s]
    BY <1>1 DEF Inv, OwnerInv
  <2>3. old = None
    BY <2>1, <2>2 DEF Alive
  <2>4. new.gen \in owners[s]
    BY <1>1, <2>1, <2>3 DEF Inv, CertInv, AllOwned
  <2>5. new.gen # 0
    BY <1>1 DEF Inv, TypeInv, TypeOK, NewResource, Gen
  <2> QED
    BY <2>1, <2>4, <2>5 DEF Alive
<1>2. ASSUME Inv, Next PROVE Survive
  <2>1. gone' = gone \/ \E s \in Secrets : CollectGarbage(s)
    BY <1>2, ReconcileSteps DEF Next, Generic, Main, StartPass, AddFinalizerToNew, MarkOld, DeleteOld, ReleaseNew,
       ReadOld, CheckNew, FreeOld, LookNew, Create, CopyStatus, TransferSecret, Annotate, SyncStatus, PassFails,
       MainAddsFinalizer, MainBecomesReady, MainCleansUp, UserDeletesOld, UserDeletesNew, UserCreatesNew,
       UserEditsOld, Others
  <2> QED
    BY <1>1, <1>2, <2>1
<1>3. Inv /\ [Next]_vars => [Survive]_vars
  BY <1>2 DEF vars
<1> QED
  BY <1>3, MigrationInvariant, PTL DEF Spec, CertificatesSurvive
=============================================================================
