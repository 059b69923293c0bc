------------------------------ MODULE SaleDesk ------------------------------
(***************************************************************************)
(* The pages that sell, the network and the server that posts what they    *)
(* send, while the accounts of those who sell change underneath: the       *)
(* counter of the cafe (CafePOSPage), the guest's cart (useCafeCart) and   *)
(* the retail counter (POSPage).                                           *)
(*                                                                         *)
(* A page sends its cart under a key and waits.  The answer may be late or *)
(* lost, the request may arrive after the page has given up, the page may  *)
(* be reloaded, its session may end.  The pages differ in when they keep a *)
(* key and when they take a new one, which is all that tells the server a  *)
(* retry from a second sale.                                               *)
(*                                                                         *)
(* A sale is what one customer wants once, its body the content of the     *)
(* request.  The checks of a sale are BranchTill's and CafeFloor's; here a *)
(* new one is posted, refused or fails.                                    *)
(***************************************************************************)
EXTENDS Accounts

CONSTANTS Pages,        \* the pages that are open
          Seller,       \* the account that sells
          Surprises,    \* what may happen to a page beside its answers
          MaxSales,     \* bound: sales begun
          MaxTries,     \* bound: requests sent
          MaxEdits      \* bound: changes of a cart

AllPages == {"cafe", "guest", "retail"}
AllSurprises == {"network", "reload", "edit", "refusal"}

ASSUME DeskAssumption ==
    /\ Pages \subseteq AllPages /\ Surprises \subseteq AllSurprises
    /\ Seller \in Users
    /\ MaxSales \in Nat /\ MaxTries \in Nat /\ MaxEdits \in Nat

VARIABLES desk,         \* each page: its cart, its attempt and the request it waits for
          wire,         \* requests underway and answers that are waited for
          posted,       \* the sales the server has posted, with their keys
          confirmed,    \* history: the keys whose success a page has seen
          dropped,      \* history: the keys a page gave up, with its cart kept
          sales, tries  \* how many sales were begun and requests sent
deskVars == <<desk, wire, posted, confirmed, dropped, sales, tries>>
vars == <<accountVars, deskVars>>

NoCart == [sale |-> 0, edit |-> 0]
NoAttempt == [key |-> 0, sale |-> 0, body |-> <<>>]
Idle == [cart |-> NoCart, attempt |-> NoAttempt, waits |-> 0]

Init ==
    /\ AccountsInit
    /\ desk = [p \in Pages |-> Idle]
    /\ wire = {}
    /\ posted = {}
    /\ confirmed = {}
    /\ dropped = {}
    /\ sales = 0
    /\ tries = 0

-----------------------------------------------------------------------------
(* The pages.                                                               *)

\* The cafe's counter lets nobody touch the cart while a sale is unconfirmed.
MayEdit(p) == p = "cafe" => desk[p].attempt = NoAttempt /\ desk[p].waits = 0

BeginSale(p) ==
    /\ desk[p].cart = NoCart
    /\ MayEdit(p)
    /\ sales < MaxSales
    /\ sales' = sales + 1
    /\ desk' = [desk EXCEPT ![p].cart = [sale |-> sales + 1, edit |-> 0]]
    /\ UNCHANGED <<accountVars, wire, posted, confirmed, dropped, tries>>

\* The guest's cart forgets the key whenever it is changed, answered or not.
EditCart(p) ==
    /\ "edit" \in Surprises
    /\ desk[p].cart # NoCart
    /\ desk[p].cart.edit < MaxEdits
    /\ MayEdit(p)
    /\ desk' = [desk EXCEPT ![p].cart.edit = @ + 1,
                            ![p].attempt = IF p = "guest" THEN NoAttempt ELSE @]
    /\ dropped' = IF p = "guest" /\ desk[p].attempt # NoAttempt
                  THEN dropped \cup {desk[p].attempt.key} ELSE dropped
    /\ UNCHANGED <<accountVars, wire, posted, confirmed, sales, tries>>

\* The retail page puts the time of the click into what it sends.
Body(p) ==
    LET cart == desk[p].cart
    IN  IF p = "retail" THEN <<cart.sale, cart.edit, tries>> ELSE <<cart.sale, cart.edit>>

NewAttempt(p) == [key |-> tries + 1, sale |-> desk[p].cart.sale, body |-> Body(p)]

\* Mutant: the counter takes a new key at every click.
AttemptOfTheClick(p) == IF desk[p].cart = NoCart THEN desk[p].attempt ELSE NewAttempt(p)

\* What a click on Pay sends: the attempt that is pending, or a new one.
Attempt(p) ==
    LET old == desk[p].attempt
        kept == IF p = "retail" THEN old.body = Body(p) ELSE old # NoAttempt
    IN  IF kept THEN old ELSE NewAttempt(p)

Message(p, attempt, i) ==
    [page |-> p, try |-> tries + 1, attempt |-> attempt, session |-> i, answer |-> "none"]

\* The token is one of the seller's; a guest has none.
Tokens(p) ==
    IF p = "guest" THEN {0} ELSE {i \in DOMAIN sessions : sessions[i].user = Seller}

Submit(p, i) ==
    /\ desk[p].waits = 0
    /\ desk[p].cart # NoCart \/ (p = "cafe" /\ desk[p].attempt # NoAttempt)
    /\ tries < MaxTries
    /\ tries' = tries + 1
    /\ wire' = wire \cup {Message(p, Attempt(p), i)}
    /\ desk' = [desk EXCEPT ![p].attempt = Attempt(p), ![p].waits = tries + 1]
    /\ UNCHANGED <<accountVars, posted, confirmed, dropped, sales>>

\* The answers upon which the counter gives the key up: 400, 403, 404, 409, 422.
Final == {"refused"}

Receive(m) ==
    LET p == m.page
    IN  /\ m.answer # "none"
        /\ wire' = wire \ {m}
        /\ desk' = CASE m.answer = "done" -> [desk EXCEPT ![p] = Idle]
                     [] m.answer \in Final /\ p = "cafe" ->
                            [desk EXCEPT ![p].attempt = NoAttempt, ![p].waits = 0]
                     [] OTHER -> [desk EXCEPT ![p].waits = 0]
        /\ confirmed' = IF m.answer = "done" THEN confirmed \cup {m.attempt.key} ELSE confirmed
        /\ dropped' = IF m.answer = "refused" /\ p = "cafe"
                      THEN dropped \cup {m.attempt.key} ELSE dropped
        /\ UNCHANGED <<accountVars, posted, sales, tries>>

\* An answer that its page no longer waits for is thrown away.
Deafened(p) == {m \in wire : m.page # p \/ m.answer = "none"}

\* fetch fails: the request may still arrive, or its answer is lost.
NetworkError(p) ==
    /\ "network" \in Surprises
    /\ desk[p].waits # 0
    /\ desk' = [desk EXCEPT ![p].waits = 0]
    /\ wire' = Deafened(p)
    /\ UNCHANGED <<accountVars, posted, confirmed, dropped, sales, tries>>

\* Mutant: the attempt is in the page's memory only.
ReloadedForgetting(p) == Idle

\* The cart is gone; the cafe's counter finds its attempt in the session storage.
Reloaded(p) == IF p = "cafe" THEN [Idle EXCEPT !.attempt = desk[p].attempt] ELSE Idle

Reload(p) ==
    /\ "reload" \in Surprises
    /\ desk[p] # Idle
    /\ desk' = [desk EXCEPT ![p] = Reloaded(p)]
    /\ wire' = Deafened(p)
    /\ UNCHANGED <<accountVars, posted, confirmed, dropped, sales, tries>>

-----------------------------------------------------------------------------
(* The server.                                                              *)

Known(m) == {s \in posted : s.page = m.page /\ s.key = m.attempt.key}

Sale(m) == [page |-> m.page, key |-> m.attempt.key, sale |-> m.attempt.sale,
            body |-> m.attempt.body]

\* A guest's access ends with his session at the table, at any time.
Outcomes(m) ==
    CASE m.page = "guest" /\ Known(m) # {} -> {"lapsed", "done"}
      [] m.page = "guest" -> {"lapsed", "done", "refused", "failed"}
      [] ~Live(m.session) -> {"lapsed"}
      [] account[Seller].role = "kitchen" -> {"refused"}
      [] Known(m) # {} ->
            {IF \E s \in Known(m) : s.body = m.attempt.body THEN "done" ELSE "refused"}
      [] OTHER -> {"done", "refused", "failed"}

\* The answer is kept on the wire while the page waits for it.
Handle(m) ==
    /\ m.answer = "none"
    /\ \E a \in Outcomes(m) :
          /\ a \in {"refused", "failed"} /\ Known(m) = {} => "refusal" \in Surprises
          /\ posted' = IF a = "done" /\ Known(m) = {} THEN posted \cup {Sale(m)} ELSE posted
          /\ wire' = (wire \ {m}) \cup
                {r \in {[m EXCEPT !.answer = a]} : desk[m.page].waits = m.try}
    /\ UNCHANGED <<accountVars, desk, confirmed, dropped, sales, tries>>

-----------------------------------------------------------------------------

Next ==
    \/ AccountsNext /\ UNCHANGED deskVars
    \/ \E p \in Pages : \/ BeginSale(p)
                        \/ EditCart(p)
                        \/ \E i \in Tokens(p) : Submit(p, i)
                        \/ NetworkError(p)
                        \/ Reload(p)
    \/ \E m \in wire : Handle(m) \/ Receive(m)

Spec == Init /\ [][Next]_vars

-----------------------------------------------------------------------------
(* Properties.                                                              *)

\* A sale that the cafe's counter sent and the server posted is one whose success
\* the page has seen, or one that the page still holds, to retry it, whatever was
\* lost, reloaded or signed out in between; or else the server refused it to the
\* page's face.
UnconfirmedIsStored ==
    \A s \in posted :
        s.page = "cafe" => \/ s.key \in confirmed \cup dropped
                           \/ desk["cafe"].attempt.key = s.key

\* A sale is posted twice only when the page was told of a refusal, or its guest
\* changed the cart, in between: never by a retry, a reload or a late request.
SalesArePostedOnce ==
    \A s, t \in posted : s.sale = t.sale /\ s # t => {s.key, t.key} \cap dropped # {}

\* What the requirements say of every page: retries retain the identity of the
\* transaction, so that a sale that is sent again is posted once.
RetriesPayOnce == \A s, t \in posted : s.sale = t.sale => s = t
=============================================================================
