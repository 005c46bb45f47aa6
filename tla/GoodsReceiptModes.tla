------------------------- MODULE GoodsReceiptModes -------------------------
(***************************************************************************)
(* What overlapping requests do to GoodsReceipt's books they do not do     *)
(* when they come one at a time.  A behaviour says whether they do: then   *)
(* at most one request is under way.                                       *)
(***************************************************************************)
EXTENDS GoodsReceipt

VARIABLE alone

OneActive == \A q, r \in Active : q = r

ModesInit == Init /\ alone \in BOOLEAN

ModesNext == Next /\ UNCHANGED alone /\ (alone => OneActive')

ModesSpec == ModesInit /\ [][ModesNext]_<<vars, alone>>

(* Every unit of the GRNs in stock has an item.  Of a GRN for which serial *)
(* numbers were scanned, create_stock_items_from_grn makes no item for the *)
(* accepted units without one; cost and summary count them all the same.   *)
EachScanned ==
  \A item \in stock : SerialOf[item.grn] # NoSerial => grn[item.grn].accepted = 1

(* When requests do not overlap, the lines, their orders and the invoices  *)
(* agree, and so do the stock items, the cost and the summary, but for     *)
(* units that were not scanned.                                            *)
SerialBooksAgree == alone => LinesAgree /\ (EachScanned => SheetsAgree)

(* When requests do not overlap, a cancelled GRN has nothing in stock.     *)
SerialCancelledHasNothing == alone => CancelledHasNothing
=============================================================================
