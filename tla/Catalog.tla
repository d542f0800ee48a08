------------------------------ MODULE Catalog ------------------------------
(***************************************************************************)
(* The administrators' operations on the catalogue, and what readers see   *)
(* of it: app/db/repositories/admin_items.py, items.py, inventory.py.      *)
(***************************************************************************)
EXTENDS Store

FaultySkuTaken(sku) == \E i \in DOMAIN items : Live(i) /\ items[i].sku = sku

\* create_item compares SKUs without case, and only with rows not deleted.
SkuTaken(sku) ==
  \E i \in DOMAIN items : Live(i) /\ LowerSku[items[i].sku] = LowerSku[sku]

\* A refused request raises before it writes: only the accepted ones are here.
CreateItem(a, sku, price, stock) ==
  /\ IsAdmin(a)
  /\ ~SkuTaken(sku)
  /\ Len(items) < MaxItems
  /\ items' = Append(items, NewItem(sku, price, stock))
  /\ UNCHANGED <<role, walletVars, orderVars, refundVars, now>>

\* One field write of an administrator to a live item.
EditItem(a, i, edited) ==
  /\ IsAdmin(a)
  /\ Live(i)
  /\ items' = [items EXCEPT ![i] = edited]
  /\ UNCHANGED <<role, walletVars, orderVars, refundVars, now>>

Supplied(value, current) == IF value = None THEN current ELSE value

\* None means "not in the request": a finite stock never becomes unlimited.
UpdateItem(a, i, price, stock) ==
  EditItem(a, i, [items[i] EXCEPT !.price = Supplied(price, @),
                                  !.stock = Supplied(stock, @)])

DeleteItem(a, i) ==
  EditItem(a, i, [items[i] EXCEPT !.deleted = TRUE, !.active = FALSE])

ToggleActive(a, i, isActive) ==
  EditItem(a, i, [items[i] EXCEPT !.active = isActive])

\* The four routes of /admin/items, for any administrator.
AdminRequest ==
  \E a \in Users :
    \/ \E sku \in Skus, price \in Prices, stock \in Optional(Stocks) :
         CreateItem(a, sku, price, stock)
    \/ \E i \in ItemIds :
         \/ \E price \in Optional(Prices), stock \in Optional(Stocks) :
              UpdateItem(a, i, price, stock)
         \/ DeleteItem(a, i)
         \/ \E isActive \in BOOLEAN : ToggleActive(a, i, isActive)
=============================================================================
