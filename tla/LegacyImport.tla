---------------------------- MODULE LegacyImport ----------------------------
(***************************************************************************)
(* legacy_import.rs: the one boot that moves a backend's side file, its    *)
(* invoice and payment maps, into the books.  The two files may be of      *)
(* different instants (one of them restored from a backup) or the side     *)
(* file may be lost, and after this boot a missing row is an assertion:    *)
(* what disagrees is refused, repaired from the wallet's own word, or      *)
(* fenced.  One purchase and its refund, whose LNURL is resolved afresh    *)
(* for each attempt; the daemon of before the upgrade is modelled by the   *)
(* rows it leaves.                                                         *)
(***************************************************************************)
EXTENDS Integers, FiniteSets

CONSTANTS
    MaxInvoices,    \* bound: invoices minted for the purchase
    MaxGen          \* bound: resolutions of the refund's destination

ASSUME LegacyAssumption == MaxInvoices \in Nat \ {0} /\ MaxGen \in Nat \ {0}

LegacyInvoices == 1 .. MaxInvoices
Gens == 1 .. MaxGen

VARIABLES
    liBooks,    \* the invoice row, the refund attempt and the import marker
    liFile,     \* the side file: the effective receive row and the pay rows
    liWallet,   \* what is true of the money, whoever remembers it
    liSaved,    \* a backup of both files
    liPhase     \* "old", "boot", "rename", "refused" or "up"

liVars == <<liBooks, liFile, liWallet, liSaved, liPhase>>

NoBooks == [inv |-> 0, status |-> "none", att |-> "none", gen |-> 0, id |-> FALSE,
            fence |-> FALSE, marker |-> "none"]
NoFile == [here |-> FALSE, inv |-> 0, canceled |-> FALSE, pay |-> [g \in Gens |-> "none"]]

LegacyInit ==
    /\ liBooks = NoBooks
    /\ liFile = [NoFile EXCEPT !.here = TRUE]
    /\ liWallet = [paidIn |-> 0, expired |-> {}, sent |-> [g \in Gens |-> "none"]]
    /\ liSaved = [books |-> NoBooks, file |-> NoFile]
    /\ liPhase = "old"

-----------------------------------------------------------------------------
(* The daemon before the upgrade: an invoice is minted into the side file  *)
(* and then written to the books; an expired one is replaced.              *)
OldMint ==
    /\ liPhase = "old" /\ liFile.inv < MaxInvoices
    /\ liFile.inv = liBooks.inv /\ liBooks.att = "none" /\ liBooks.status # "PAID"
    /\ liFile.inv # 0 => liFile.inv \in liWallet.expired
    /\ liFile' = [liFile EXCEPT !.inv = @ + 1, !.canceled = FALSE]
    /\ UNCHANGED <<liBooks, liWallet, liSaved, liPhase>>

OldBook ==
    /\ liPhase = "old" /\ liBooks.inv # liFile.inv
    /\ liBooks' = [liBooks EXCEPT !.inv = liFile.inv, !.status = "OPEN"]
    /\ UNCHANGED <<liFile, liWallet, liSaved, liPhase>>

OldExpire ==
    /\ liPhase = "old" /\ liBooks.inv \in liWallet.expired /\ liBooks.status = "OPEN"
    /\ liBooks' = [liBooks EXCEPT !.status = "EXPIRED"]
    /\ liFile' = [liFile EXCEPT !.canceled = (liFile.inv = liBooks.inv)]
    /\ UNCHANGED <<liWallet, liSaved, liPhase>>

(* The buyer pays the invoice that was sent, once the books name it, or it *)
(* expires at the wallet.                                                  *)
BuyerSettles ==
    /\ liPhase = "old" /\ liFile.inv # 0 /\ liBooks.inv = liFile.inv
    /\ liWallet.paidIn = 0 /\ liFile.inv \notin liWallet.expired
    /\ \/ liWallet' = [liWallet EXCEPT !.paidIn = liFile.inv]
       \/ liWallet' = [liWallet EXCEPT !.expired = @ \cup {liFile.inv}]
    /\ UNCHANGED <<liBooks, liFile, liSaved, liPhase>>

(* The payment is booked and owed back.                                    *)
OldRefundDue ==
    /\ liPhase = "old" /\ liBooks.inv # 0 /\ liBooks.status = "OPEN"
    /\ liWallet.paidIn = liBooks.inv
    /\ liBooks' = [liBooks EXCEPT !.status = "PAID", !.att = "PENDING"]
    /\ UNCHANGED <<liFile, liWallet, liSaved, liPhase>>

OldResolve ==
    /\ liPhase = "old" /\ liBooks.att = "PENDING" /\ liBooks.gen < MaxGen
    /\ liBooks.gen # 0 => liFile.pay[liBooks.gen] = "FAILED"
    /\ liBooks' = [liBooks EXCEPT !.gen = @ + 1]
    /\ UNCHANGED <<liFile, liWallet, liSaved, liPhase>>

OldPrepare ==
    /\ liPhase = "old" /\ liBooks.att = "PENDING" /\ liBooks.gen # 0
    /\ liFile.pay[liBooks.gen] = "none"
    /\ liFile' = [liFile EXCEPT !.pay[liBooks.gen] = "PREPARED"]
    /\ UNCHANGED <<liBooks, liWallet, liSaved, liPhase>>

OldSend ==
    /\ liPhase = "old" /\ liBooks.gen # 0
    /\ liFile.pay[liBooks.gen] = "PREPARED" /\ liWallet.sent[liBooks.gen] = "none"
    /\ \E outcome \in {"paid", "failed"} :
         liWallet' = [liWallet EXCEPT !.sent[liBooks.gen] = outcome]
    /\ UNCHANGED <<liBooks, liFile, liSaved, liPhase>>

OldRecord ==
    /\ liPhase = "old" /\ liBooks.gen # 0 /\ liWallet.sent[liBooks.gen] # "none"
    /\ IF liFile.pay[liBooks.gen] = "PREPARED"
       THEN /\ liFile' = [liFile EXCEPT !.pay[liBooks.gen] =
                   IF liWallet.sent[liBooks.gen] = "paid" THEN "SUCCEEDED" ELSE "FAILED"]
            /\ UNCHANGED liBooks
       ELSE /\ liBooks.att = "PENDING"
            /\ liBooks' = IF liFile.pay[liBooks.gen] = "SUCCEEDED"
                          THEN [liBooks EXCEPT !.att = "SENT", !.id = TRUE]
                          ELSE [liBooks EXCEPT !.att = "FAILED"]
            /\ UNCHANGED liFile
    /\ UNCHANGED <<liWallet, liSaved, liPhase>>

(* The operator backs up, and later upgrades: on what is there, after      *)
(* restoring one of the two files, or with the side file lost.             *)
SaveBoth ==
    /\ liPhase = "old" /\ ~liSaved.file.here
    /\ liSaved' = [books |-> liBooks, file |-> liFile]
    /\ UNCHANGED <<liBooks, liFile, liWallet, liPhase>>

Upgrade ==
    /\ liPhase = "old"
    /\ \/ UNCHANGED <<liBooks, liFile>>
       \/ liSaved.file.here /\ liBooks' = liSaved.books /\ UNCHANGED liFile
       \/ liSaved.file.here /\ liFile' = liSaved.file /\ UNCHANGED liBooks
       \/ liFile' = NoFile /\ UNCHANGED liBooks
    /\ liPhase' = "boot"
    /\ UNCHANGED <<liWallet, liSaved>>

-----------------------------------------------------------------------------
(* LegacyProbe::receive_state, the wallet's word on one invoice; it may    *)
(* have forgotten it.                                                      *)
ReceiveStates(i) ==
    {IF i \in liWallet.expired THEN "TerminalUnpaid" ELSE "Established", "Absent"}

(* analyse, receive side: the row is covered, reaped, a tie for the wallet *)
(* to break, or refused.                                                   *)
Receive(aged) ==
    LET reapable == aged /\ liBooks.status = "EXPIRED"
    IN  IF liBooks.inv = 0 THEN "covered"
        ELSE IF liFile.inv = 0 THEN IF reapable THEN "reap" ELSE "refuse"
        ELSE IF liFile.canceled /\ reapable THEN "reap"
        ELSE IF liFile.inv = liBooks.inv THEN "covered"
        ELSE IF liFile.canceled \/ liBooks.status = "PAID" THEN "refuse"
        ELSE "tie"

(* Mutant: the map is taken for the newer of the two.                      *)
TieBreaksByMap(mapState, bookState) == bookState # "Established"

(* The books take the map's invoice only if the wallet says that it is the *)
(* effective one and that the books' own is unpaid for good.               *)
TieBreaks(mapState, bookState) ==
    mapState = "Established" /\ bookState = "TerminalUnpaid"

(* Mutant: an attempt that has no pay row was never started.               *)
PayNeverStarted(row) ==
    IF row = "none" /\ ~liBooks.id THEN "covered" ELSE "fence"

(* analyse, pay side, by the attempt's key.                                *)
Pay(row) ==
    IF liBooks.att = "none" THEN "covered"
    ELSE IF row = "none" THEN IF liBooks.att = "SENT" \/ liBooks.id THEN "refuse" ELSE "fence"
    ELSE IF liBooks.att = "SENT" THEN IF row = "SUCCEEDED" THEN "covered" ELSE "refuse"
    ELSE IF liBooks.att = "FAILED" /\ row # "FAILED" THEN "fence"
    ELSE "covered"

RowOf(file) == IF liBooks.gen = 0 THEN "none" ELSE file.pay[liBooks.gen]

(* The migration row of this side file's name.                             *)
Migrated == liBooks.marker # "none"

(* repair_invoice, the reap, the stamp and the marker, in one transaction. *)
ImportedBooks(r, p) ==
    [liBooks EXCEPT
        !.inv = CASE r = "reap" -> 0 [] r = "tie" -> liFile.inv [] OTHER -> @,
        !.status = CASE r = "reap" -> "reaped" [] r = "tie" /\ @ = "EXPIRED" -> "OPEN"
                     [] OTHER -> @,
        !.fence = (p = "fence"),
        !.marker = "imported"]

(* run, side file present and no marker: the transaction after the probes. *)
ImportPresent ==
    /\ liPhase = "boot" /\ liFile.here /\ ~Migrated
    /\ \E aged \in BOOLEAN : \E mapState \in ReceiveStates(liFile.inv) :
         \E bookState \in ReceiveStates(liBooks.inv) :
           LET r == Receive(aged)
               p == Pay(RowOf(liFile))
           IN  IF r = "refuse" \/ p = "refuse" \/ (r = "tie" /\ ~TieBreaks(mapState, bookState))
               THEN liPhase' = "refused" /\ UNCHANGED liBooks
               ELSE liPhase' = "rename" /\ liBooks' = ImportedBooks(r, p)
    /\ UNCHANGED <<liFile, liWallet, liSaved>>

(* first_correlation_bearing_row: the books name this backend's rows.      *)
Correlated == liBooks.inv # 0 \/ liBooks.att = "SENT" \/ liBooks.id

(* unwitnessed_attempts: what may have been sent and left no id.           *)
Unwitnessed == liBooks.att \in {"PENDING", "FAILED"} /\ ~liBooks.id

(* import_absent: correlated books without their map are refused; what is  *)
(* left is fenced.                                                         *)
ImportAbsent ==
    /\ liPhase = "boot" /\ ~liFile.here
    /\ IF Migrated THEN liPhase' = "up" /\ UNCHANGED liBooks
       ELSE IF Correlated THEN liPhase' = "refused" /\ UNCHANGED liBooks
       ELSE /\ liPhase' = "up"
            /\ liBooks' = [liBooks EXCEPT
                   !.fence = Unwitnessed, !.marker = IF Unwitnessed THEN "parked" ELSE "fresh"]
    /\ UNCHANGED <<liFile, liWallet, liSaved>>

(* rename_imported; a crash before it leaves the marker and the file, and  *)
(* the next boot knows the file by its hash and only renames it.           *)
RenameImported ==
    /\ \/ liPhase = "rename"
       \/ liPhase = "boot" /\ liFile.here /\ Migrated
    /\ liFile' = [liFile EXCEPT !.here = FALSE]
    /\ liPhase' = "up"
    /\ UNCHANGED <<liBooks, liWallet, liSaved>>

ImportCrash ==
    /\ liPhase \in {"rename", "up"}
    /\ liPhase' = "boot"
    /\ UNCHANGED <<liBooks, liFile, liWallet, liSaved>>

-----------------------------------------------------------------------------
(* The refund driver after the upgrade: a fenced attempt waits; a known    *)
(* key follows its row; a failed or unresolved one is resolved anew.       *)
DriveRefund ==
    /\ liPhase = "up" /\ liBooks.att = "PENDING" /\ ~liBooks.fence
    /\ LET g == IF liBooks.gen = 0 THEN 1 ELSE liBooks.gen
           row == liFile.pay[g]
       IN  CASE row = "FAILED" ->
                  /\ g < MaxGen
                  /\ liBooks' = [liBooks EXCEPT !.gen = g + 1]
                  /\ UNCHANGED <<liFile, liWallet>>
             [] row = "SUCCEEDED" \/ (row = "PREPARED" /\ liWallet.sent[g] # "none") ->
                  /\ liBooks' = [liBooks EXCEPT !.gen = g, !.att =
                         IF liWallet.sent[g] = "failed" THEN "FAILED" ELSE "SENT"]
                  /\ UNCHANGED <<liFile, liWallet>>
             [] OTHER ->
                  /\ liBooks' = [liBooks EXCEPT !.gen = g, !.att = "SENT"]
                  /\ liFile' = [liFile EXCEPT !.pay[g] = "SUCCEEDED"]
                  /\ liWallet' = [liWallet EXCEPT !.sent[g] =
                         IF @ = "paid" THEN "twice" ELSE "paid"]
    /\ UNCHANGED <<liSaved, liPhase>>

LegacyNext ==
    \/ OldMint \/ OldBook \/ OldExpire \/ BuyerSettles \/ OldRefundDue
    \/ OldResolve \/ OldPrepare \/ OldSend \/ OldRecord
    \/ SaveBoth \/ Upgrade
    \/ ImportPresent \/ ImportAbsent \/ RenameImported \/ ImportCrash
    \/ DriveRefund

-----------------------------------------------------------------------------
(* A boot that completed the import never pays a refund that went out      *)
(* before it, whichever of the two files was old or lost: the attempt      *)
(* finds its payment or waits for the operator.                            *)
ImportNeverRepays ==
    Cardinality({g \in Gens : liWallet.sent[g] = "paid"}) <= 1
    /\ \A g \in Gens : liWallet.sent[g] # "twice"

(* Nor does it leave a paid invoice that the books do not name: they name  *)
(* it, hold it as paid, or the boot was refused.  (Books rolled back to    *)
(* before the purchase say nothing of it, and the import asks nothing.)    *)
ImportNamesThePaid ==
    (liPhase = "up" /\ liWallet.paidIn # 0 /\ liBooks.status # "none") =>
        liBooks.inv = liWallet.paidIn

(* A completed import agrees with the wallet: no refund is paid again and  *)
(* the purchase names the invoice that was paid (legacy_import.rs).        *)
ImportAgreesWithWallet == ImportNeverRepays /\ ImportNamesThePaid
=============================================================================
