------------------------------ MODULE Checkout ------------------------------
(***************************************************************************)
(* From the menu to the order in the browser: the Menu page with its menu  *)
(* and dish-search requests, the persisted cart store, and the Order page  *)
(* with its previews, its hop plan, the address confirmation and the place *)
(* button.  Every answer arrives in an event of its own, and the pages put *)
(* it where it belongs only if nothing else happened since.                *)
(***************************************************************************)
EXTENDS Naturals, Sequences, SequencesExt, FiniteSets

CONSTANTS
    Lines,           \* what a cart line can be: an item as it is, or in a variant
    ItemOf,          \* the item of each line, which is the line without a variant
    SoldBy,          \* the kitchen of each item; Store for Instamart's products
    Kitchens, Store, NoKitchen,
    MaxQuantity,     \* bound: of one line
    HopCap,          \* pieces one delivery holds (the cap on its value)
    Waiting,         \* bound: requests of one kind in flight
    CheckoutModes    \* input: circumstances, records of CheckoutMode

CheckoutMode ==
    [servers: SUBSET {"food", "instamart"},
     offered: SUBSET Lines,  \* what there is to add
     stops: Nat,             \* intercepts of the journey, the best first
     coupon: BOOLEAN,        \* whether Swiggy offers one
     habits: SUBSET { "edit",    \* edits go on while answers are awaited
                      "leave",   \* pages are left while an order is under way
                      "look",    \* also for the orders page; and that page is
                                 \* left before its list is there
                      "reload",  \* pages are reloaded
                      "lost" } ] \* the answer to an order may be lost

\* An item is its own line without a variant, and some kitchen or the store sells it.
ASSUME CheckoutAssumption ==
    /\ IsFiniteSet(Lines)
    /\ ItemOf \in [Lines -> Lines] /\ \A l \in Lines : ItemOf[ItemOf[l]] = ItemOf[l]
    /\ \A l \in Lines : SoldBy[ItemOf[l]] \in Kitchens \union {Store}
    /\ NoKitchen \notin Kitchens \union {Store}
    /\ {MaxQuantity, HopCap, Waiting} \subseteq Nat
    /\ CheckoutModes \subseteq CheckoutMode

VARIABLES
    cart,          \* the cart store: restaurantId and items
    menu,          \* Menu.tsx: server, selected kitchen, whose dishes are shown
    menuAsked,     \* menu and dish-search requests in flight, by kitchen
    checkout,      \* Order.tsx: its component state
    previewAsked,  \* previews in flight, by their body
    planAsked,     \* hop plans in flight, by the items they are for
    posts,         \* POST /orders and /orders/multi-hop under way
    screen,        \* the page shown; "orders" for every other one
    orderLoading,  \* useOrders.loading, shared by everything in that store
    fetching,      \* requests of that store in flight which are no orders
    bought,        \* history: the cart, as it is, has been ordered
    checkoutMode

checkoutVars == <<cart, menu, menuAsked, checkout, previewAsked, planAsked, posts,
                  screen, orderLoading, fetching, bought, checkoutMode>>
ordersVars == <<posts, orderLoading, fetching>>

Contents == [Lines -> 0..MaxQuantity]
Empty == [l \in Lines |-> 0]
PiecesIn(lines, items) == UNION {{l} \X (1..items[l]) : l \in lines}
Pieces(items) == Cardinality(PiecesIn(Lines, items))
Variants(item) == {l \in Lines : ItemOf[l] = item}
PiecesOf(item, items) == Cardinality(PiecesIn(Variants(item), items))
Payments == {"COD", "online"}
Body == [server: {"food", "instamart"}, kitchen: Kitchens \union {NoKitchen},
         items: [Lines -> Nat], payment: Payments, coupon: BOOLEAN, to: SUBSET Nat]
NoBody == [server |-> "food", kitchen |-> NoKitchen, items |-> Empty, payment |-> "COD",
           coupon |-> FALSE, to |-> {}]

FreshMenu(server) == [server |-> server, selected |-> NoKitchen, shown |-> NoKitchen]
FreshCheckout(server, stop) ==
    [server |-> server, stop |-> stop, payment |-> "COD", coupon |-> FALSE,
     preview |-> NoBody, canPlace |-> FALSE, loading |-> FALSE, confirmed |-> FALSE,
     placing |-> FALSE, plan |-> Empty]

\* A POST: what was sent, what the page showed, whether hop by hop, whether the
\* page it came from is still there; again is history.
Post == [pc: {"sent", "executed", "refused"}, sent: Body, shown: Body, hops: BOOLEAN,
         here: BOOLEAN, again: BOOLEAN]

CheckoutTypes ==
    /\ cart \in [kitchen: Kitchens \union {NoKitchen}, items: Contents]
    /\ menu \in [server: {"food", "instamart"}, selected: Kitchens \union {NoKitchen},
                 shown: Kitchens \union {NoKitchen}]
    /\ menuAsked \in Seq(Kitchens) /\ Len(menuAsked) <= Waiting
    /\ checkout \in [server: {"food", "instamart"}, stop: Nat, payment: Payments,
                     coupon: BOOLEAN, preview: Body, canPlace: BOOLEAN, loading: BOOLEAN,
                     confirmed: BOOLEAN, placing: BOOLEAN, plan: Contents]
    /\ previewAsked \in Seq(Body) /\ planAsked \in Seq(Contents)
    /\ posts \in Seq(Post)
    /\ screen \in {"menu", "order", "orders"}
    /\ orderLoading \in BOOLEAN /\ fetching \in Nat /\ bought \in BOOLEAN
    /\ checkoutMode \in CheckoutModes

CheckoutInit ==
    /\ cart = [kitchen |-> NoKitchen, items |-> Empty]
    /\ menu = FreshMenu("food") /\ menuAsked = <<>>
    /\ checkout = FreshCheckout("food", 1) /\ previewAsked = <<>> /\ planAsked = <<>>
    /\ posts = <<>>
    /\ screen = "orders"
    /\ orderLoading = FALSE /\ fetching = 0 /\ bought = FALSE
    /\ checkoutMode \in CheckoutModes

Habit(h) == h \in checkoutMode.habits
UnderWay == posts # <<>>
Settled == menuAsked = <<>> /\ previewAsked = <<>> /\ planAsked = <<>>
MayEdit == Habit("edit") \/ (Settled /\ ~UnderWay)
MayLeave == (Habit("leave") \/ ~UnderWay)
            /\ (screen = "orders" /\ fetching > 0 => Habit("look"))
MayLook == MayLeave /\ (Habit("look") \/ ~UnderWay)

\* The page that sent them is unmounted, and its answers come to nothing.
PageLeft == [i \in DOMAIN posts |-> [posts[i] EXCEPT !.here = FALSE]]
DropAsked == menuAsked' = <<>> /\ previewAsked' = <<>> /\ planAsked' = <<>>

-----------------------------------------------------------------------------
\* The cart store.
\* Mutant: the items stay in the cart.
SetRestaurantKeepsItems(k) == cart' = [cart EXCEPT !.kitchen = k]

\* setRestaurant: another restaurant, an empty cart.
SetRestaurant(k) == cart' = [kitchen |-> k, items |-> Empty]

ClearCart == cart' = [kitchen |-> NoKitchen, items |-> Empty]

\* addItem: one more of a line that is there, or a new line.
AddItem(l) ==
    /\ cart.items[l] < MaxQuantity
    /\ cart' = [cart EXCEPT !.items[l] = @ + 1]

\* updateQuantity finds lines by their item id: all variants get the quantity.
UpdateQuantity(item, q) ==
    cart' = [cart EXCEPT !.items =
                [l \in Lines |-> IF ItemOf[l] = item /\ @[l] > 0 THEN q ELSE @[l]]]

-----------------------------------------------------------------------------
\* The Menu page of an intercept, for food or for groceries.  The groceries page
\* keeps the cart as it is.
OpenMenu(server) ==
    /\ MayLeave
    /\ server \in checkoutMode.servers
    /\ screen' = "menu"
    /\ menu' = FreshMenu(server)
    /\ DropAsked
    /\ posts' = PageLeft
    /\ UNCHANGED <<cart, checkout, orderLoading, fetching, bought, checkoutMode>>

\* handleSelectRestaurant: the dishes on show stay until the answer comes.
SelectRestaurant(k) ==
    /\ screen = "menu" /\ menu.server = "food" /\ menu.selected = NoKitchen
    /\ MayEdit /\ Len(menuAsked) < Waiting
    /\ menu' = [menu EXCEPT !.selected = k]
    /\ SetRestaurant(k)
    /\ bought' = FALSE
    /\ menuAsked' = Append(menuAsked, k)
    /\ UNCHANGED <<checkout, previewAsked, planAsked, ordersVars, screen, checkoutMode>>

\* runDishSearch: its answer replaces the dishes shown, like a menu's.
SearchDishes ==
    /\ screen = "menu" /\ menu.selected # NoKitchen
    /\ MayEdit /\ Len(menuAsked) < Waiting
    /\ menuAsked' = Append(menuAsked, menu.selected)
    /\ UNCHANGED <<cart, menu, checkout, previewAsked, planAsked, ordersVars, screen,
                   bought, checkoutMode>>

\* The answer is not compared with the kitchen selected by now.
MenuAnswered(i) ==
    /\ screen = "menu"
    /\ \/ menu' = [menu EXCEPT !.shown = menuAsked[i]]
       \/ UNCHANGED menu
    /\ menuAsked' = RemoveAt(menuAsked, i)
    /\ UNCHANGED <<cart, checkout, previewAsked, planAsked, ordersVars, screen, bought,
                   checkoutMode>>

\* handleBack to the list of restaurants.
BackToKitchens ==
    /\ screen = "menu" /\ menu.selected # NoKitchen
    /\ MayEdit
    /\ menu' = [menu EXCEPT !.selected = NoKitchen, !.shown = NoKitchen]
    /\ UNCHANGED <<cart, menuAsked, checkout, previewAsked, planAsked, ordersVars, screen,
                   bought, checkoutMode>>

\* openCustomize, confirmCustomize and addProduct: a line on show is added.
AddShown(l) ==
    /\ screen = "menu" /\ MayEdit
    /\ \/ menu.server = "food" /\ menu.selected # NoKitchen
          /\ SoldBy[ItemOf[l]] = menu.shown
       \/ menu.server = "instamart" /\ SoldBy[ItemOf[l]] = Store
    /\ AddItem(l)
    /\ bought' = FALSE
    /\ UNCHANGED <<menu, menuAsked, checkout, previewAsked, planAsked, ordersVars, screen,
                   checkoutMode>>

-----------------------------------------------------------------------------
\* buildPreviewBody, and the body of the order: the lines go with the restaurant
\* for food, and all of them, whatever they are, as products for groceries.
BodyOf(co, c) ==
    LET food == co.server = "food"
    IN  [server |-> co.server, payment |-> co.payment, coupon |-> co.coupon,
         to |-> {co.stop},
         kitchen |-> IF food THEN c.kitchen ELSE NoKitchen,
         items |-> IF food /\ c.kitchen = NoKitchen THEN Empty ELSE c.items]

\* The effects of a change of cart, payment, coupon or server: a preview and a hop plan
\* are asked for, none while the cart is empty.  (The plan of a journey with one
\* stop is never used, and left out.)
Refresh(co, c) ==
    IF c.items = Empty
    THEN /\ checkout' = co
         /\ UNCHANGED <<previewAsked, planAsked>>
    ELSE /\ Len(previewAsked) < Waiting
         /\ checkout' = [co EXCEPT !.loading = TRUE]
         /\ previewAsked' = Append(previewAsked, BodyOf(co, c))
         /\ planAsked' =
              IF (c.items = cart.items /\ screen = "order") \/ checkoutMode.stops < 2
              THEN planAsked ELSE Append(planAsked, c.items)

\* handleCheckout, or the Order page of an intercept by its address.
OpenOrder(server, stop) ==
    /\ screen # "order"
    /\ MayLeave /\ server \in checkoutMode.servers
    /\ Refresh(FreshCheckout(server, stop), cart)
    /\ screen' = "order"
    /\ menuAsked' = <<>>
    /\ UNCHANGED <<cart, menu, ordersVars, bought, checkoutMode>>

\* The + and - of a line; it is the Order page's only way to edit the cart.
EditLine(l, q) ==
    /\ screen = "order" /\ MayEdit
    /\ cart.items[l] > 0
    /\ q \in {cart.items[l] - 1, cart.items[l] + 1} /\ q <= MaxQuantity
    /\ UpdateQuantity(ItemOf[l], q)
    /\ Refresh(checkout, cart')
    /\ bought' = FALSE
    /\ UNCHANGED <<menu, menuAsked, ordersVars, screen, checkoutMode>>

\* Another payment method, or the refresh button, which is disabled while a
\* preview loads.
ChangePayment(p) ==
    /\ screen = "order" /\ MayEdit
    /\ p # checkout.payment \/ ~checkout.loading
    /\ cart.items # Empty
    /\ Refresh([checkout EXCEPT !.payment = p], cart)
    /\ UNCHANGED <<cart, menu, menuAsked, ordersVars, screen, bought, checkoutMode>>

\* A coupon of the preview on show, or none; they are offered for food only.
ChooseCoupon(on) ==
    /\ screen = "order" /\ MayEdit
    /\ checkoutMode.coupon /\ checkout.server = "food" /\ on # checkout.coupon
    /\ on => checkout.preview # NoBody
    /\ cart.items # Empty
    /\ Refresh([checkout EXCEPT !.coupon = on], cart)
    /\ UNCHANGED <<cart, menu, menuAsked, ordersVars, screen, bought, checkoutMode>>

\* The box stands next to the address of the preview on show.
ConfirmAddress(on) ==
    /\ screen = "order" /\ checkout.preview # NoBody
    /\ checkout.confirmed # on
    /\ checkout' = [checkout EXCEPT !.confirmed = on]
    /\ UNCHANGED <<cart, menu, menuAsked, previewAsked, planAsked, ordersVars, screen,
                   bought, checkoutMode>>

\* refreshPreview, answered: with a cart that can be placed or not, and the
\* payment method Swiggy selected, whose change asks again; or with an error.
\* Whichever preview answers ends the loading of all of them.
PreviewAnswered(i) ==
    LET rest == RemoveAt(previewAsked, i)
    IN  /\ screen = "order"
        /\ \/ \E ok \in BOOLEAN, p \in {previewAsked[i].payment, "COD"} :
                 LET again == p # checkout.payment /\ cart.items # Empty
                     then == [checkout EXCEPT !.preview = previewAsked[i], !.canPlace = ok,
                                              !.payment = p, !.loading = again]
                 IN  /\ checkout' = then
                     /\ previewAsked' = IF again THEN Append(rest, BodyOf(then, cart))
                                        ELSE rest
           \/ /\ checkout' = [checkout EXCEPT !.preview = NoBody, !.canPlace = FALSE,
                                              !.loading = FALSE]
              /\ previewAsked' = rest
        /\ UNCHANGED <<cart, menu, menuAsked, planAsked, ordersVars, screen, bought,
                       checkoutMode>>

\* planOrderHopPack, answered or failed.
PlanAnswered(i) ==
    /\ screen = "order"
    /\ checkout' \in {[checkout EXCEPT !.plan = planAsked[i]],
                      [checkout EXCEPT !.plan = Empty]}
    /\ planAsked' = RemoveAt(planAsked, i)
    /\ UNCHANGED <<cart, menu, menuAsked, previewAsked, ordersVars, screen, bought,
                   checkoutMode>>

-----------------------------------------------------------------------------
\* Mutant: the button forgets the POST of its own page.
CanPlace_Impatient == checkout.canPlace /\ checkout.confirmed /\ ~checkout.loading
                      /\ ~orderLoading

CanPlace == checkout.canPlace /\ checkout.confirmed /\ ~checkout.loading
            /\ ~checkout.placing /\ ~orderLoading

\* A plan of several hops for a journey of several stops is placed hop by hop:
\* its items come from the plan, without their variants, and go to the best
\* stops of the journey, whichever stop the page is for.
MultiHop == Pieces(checkout.plan) > HopCap /\ checkoutMode.stops > 1
            /\ (checkout.server = "instamart" \/ cart.kitchen # NoKitchen)
PlannedItems == [l \in Lines |-> IF l = ItemOf[l] THEN PiecesOf(l, checkout.plan) ELSE 0]
BestStops == {i \in 1..checkoutMode.stops : (i - 1) * HopCap < Pieces(checkout.plan)}

OrderBody ==
    LET body == BodyOf(checkout, cart)
    IN  IF MultiHop THEN [body EXCEPT !.items = PlannedItems, !.to = BestStops] ELSE body

\* handlePlaceOrder up to the POST, behind the button.  The single order raises
\* orderLoading, the multi-hop request does not.
Place ==
    /\ screen = "order" /\ cart.items # Empty
    /\ CanPlace
    /\ Habit("edit") \/ Settled
    /\ Len(posts) < Waiting
    /\ checkout' = [checkout EXCEPT !.placing = TRUE]
    /\ posts' = Append(posts, [pc |-> "sent", sent |-> OrderBody, shown |-> checkout.preview,
                               hops |-> MultiHop, here |-> TRUE, again |-> bought])
    /\ orderLoading' = (orderLoading \/ ~MultiHop)
    /\ UNCHANGED <<cart, menu, menuAsked, previewAsked, planAsked, screen, fetching, bought,
                   checkoutMode>>

\* The server places the order, or refuses it.
OrderServed(i) ==
    /\ posts[i].pc = "sent"
    /\ \/ posts' = [posts EXCEPT ![i].pc = "executed"] /\ bought' = TRUE
       \/ posts' = [posts EXCEPT ![i].pc = "refused"] /\ UNCHANGED bought
    /\ UNCHANGED <<cart, menu, menuAsked, checkout, previewAsked, planAsked, screen,
                   orderLoading, fetching, checkoutMode>>

\* A single order's answer resets the flag that it shares with other requests.
LoadingEnds(i) == IF posts[i].hops THEN orderLoading ELSE FALSE

\* Success: the cart, whatever it is by now, is cleared, and the browser goes to
\* the orders page from wherever it is, which fetches the orders once it is there.
OrderPlaced(i) ==
    /\ posts[i].pc = "executed"
    /\ ClearCart
    /\ screen' = "orders"
    /\ DropAsked
    /\ posts' = RemoveAt(PageLeft, i)
    /\ bought' = (bought /\ cart'.items # Empty)
    /\ IF screen = "orders"
       THEN orderLoading' = LoadingEnds(i) /\ UNCHANGED fetching
       ELSE fetching < Waiting /\ orderLoading' = TRUE /\ fetching' = fetching + 1
    /\ UNCHANGED <<menu, checkout, checkoutMode>>

\* A refusal, or no answer, leaves all as it was; the page, if it is still the
\* same one, offers its button again.
OrderFailed(i) ==
    /\ posts[i].pc = "refused" \/ (posts[i].pc = "executed" /\ Habit("lost"))
    /\ checkout' = [checkout EXCEPT !.placing = @ /\ ~posts[i].here]
    /\ posts' = RemoveAt(posts, i)
    /\ orderLoading' = LoadingEnds(i)
    /\ UNCHANGED <<cart, menu, menuAsked, previewAsked, planAsked, screen, fetching, bought,
                   checkoutMode>>

\* The orders page or the dashboard, and a cancellation there: fetchOrders and
\* cancelOrder set, then reset, the same loading flag.
OpenOrders ==
    /\ MayLook /\ fetching < Waiting
    /\ screen' = "orders"
    /\ orderLoading' = TRUE /\ fetching' = fetching + 1
    /\ DropAsked
    /\ posts' = PageLeft
    /\ UNCHANGED <<cart, menu, checkout, bought, checkoutMode>>

OrdersFetched ==
    /\ fetching > 0
    /\ orderLoading' = FALSE /\ fetching' = fetching - 1
    /\ UNCHANGED <<cart, menu, menuAsked, checkout, previewAsked, planAsked, posts, screen,
                   bought, checkoutMode>>

\* A reload: the cart is persisted, the rest starts anew, and nobody waits for
\* the orders under way (which the server may still execute).
ReloadPage ==
    /\ Habit("reload")
    /\ \E executed \in SUBSET {i \in DOMAIN posts : posts[i].pc = "sent"} :
          bought' = (bought \/ executed # {})
    /\ posts' = <<>>
    /\ orderLoading' = FALSE /\ fetching' = 0
    /\ menu' = FreshMenu(menu.server)
    /\ checkout' = FreshCheckout(checkout.server, checkout.stop)
    /\ DropAsked
    /\ screen' = "orders"
    /\ UNCHANGED <<cart, checkoutMode>>

CheckoutNext ==
    \/ \E server \in {"food", "instamart"} :
          OpenMenu(server) \/ \E stop \in 1..checkoutMode.stops : OpenOrder(server, stop)
    \/ \E k \in Kitchens : SelectRestaurant(k)
    \/ \E l \in checkoutMode.offered : AddShown(l)
    \/ \E l \in Lines, q \in 0..MaxQuantity : EditLine(l, q)
    \/ \E p \in Payments : ChangePayment(p)
    \/ \E on \in BOOLEAN : ConfirmAddress(on) \/ ChooseCoupon(on)
    \/ \E i \in DOMAIN menuAsked : MenuAnswered(i)
    \/ \E i \in DOMAIN previewAsked : PreviewAnswered(i)
    \/ \E i \in DOMAIN planAsked : PlanAnswered(i)
    \/ \E i \in DOMAIN posts : OrderServed(i) \/ OrderPlaced(i) \/ OrderFailed(i)
    \/ SearchDishes \/ BackToKitchens \/ Place \/ OpenOrders \/ OrdersFetched \/ ReloadPage

CheckoutSpec == CheckoutInit /\ [][CheckoutNext]_checkoutVars

-----------------------------------------------------------------------------
\* What is ordered is what the customer was shown: the order carries the lines,
\* the payment method, the coupon and the stop of the preview whose address was
\* confirmed, all lines from the restaurant it names; hop by hop, as many pieces
\* of each item (their variants are lost, and the hops go to the best stops,
\* whatever address was confirmed).  (With edits while answers are awaited it
\* may not: the older of two previews ends the loading, a late menu is shown
\* under another kitchen, and a plan of an older cart is placed.)
OrderedAsShown ==
    ~Habit("edit") => \A i \in DOMAIN posts :
        LET sent == posts[i].sent  shown == posts[i].shown
        IN  /\ \/ sent = shown
               \/ posts[i].hops /\ sent = [shown EXCEPT !.items = sent.items, !.to = sent.to]
            /\ \A l \in Lines : PiecesOf(ItemOf[l], sent.items) = PiecesOf(ItemOf[l], shown.items)
            /\ checkoutMode.servers = {"food"} =>
                  \A l \in Lines : sent.items[l] > 0 => SoldBy[ItemOf[l]] = sent.kitchen

\* The customer stays on the page while his order is under way; or he leaves it
\* for the menu and the Order page again, when orders are single ones.  Answers
\* are not lost, and nothing is reloaded.
ButtonHolds ==
    /\ checkoutMode.habits \intersect {"reload", "lost"} = {}
    /\ Habit("leave") => ~Habit("look") /\ checkoutMode.stops < 2

\* A cart is ordered once: while its order is under way there is no other, and
\* once it is answered the cart, however it was edited meanwhile, is empty.  The
\* page's own `placing` keeps the button off, and on another page, for a single
\* order, the shared orderLoading does.  (A multi-hop request does not raise it,
\* and the answer to a list of orders resets it: leaving the page then allows a
\* second POST, as a reload and a lost answer do; the server's double-submit
\* guard is what is left.)
OrderedOnce ==
    ButtonHolds => Len(posts) <= 1 /\ \A i \in DOMAIN posts : ~posts[i].again
=============================================================================
