------------------------------- MODULE WebPage -------------------------------
(***************************************************************************)
(* web/app.js in one browser tab, over the answers of Browse: the grid of  *)
(* products with its filters, pager and tables of prices, the search by    *)
(* name, and the basket.  A listener runs to its first await without being *)
(* disturbed; what it sent is answered later, in any order, or fails.      *)
(* Meanwhile a fold may commit: each statement of a request sees the rows  *)
(* of price_current that are committed when it runs.                       *)
(*                                                                         *)
(* The chips of the chains act at once.  The fields of the form, one       *)
(* record here, are read by the next request, whatever sends it.           *)
(***************************************************************************)
EXTENDS Browse

CONSTANTS
  Fields,       \* what the form may say
  NoFields,     \* the form as the page is loaded
  Hits,         \* for each query the products whose names match, the best match first,
                \* cut at SEARCH_RESULT_LIMIT
  Tables,       \* price_current as one fold after another leaves it
  MaxClicks,    \* bounds of the model: what the customer does,
  MaxLooks      \* and how much of it in the catalogue and the search

ASSUME FieldsAssumption ==
  /\ Fields \subseteq [only : SUBSET Product, minChains : Nat, maxPrice : Nat, sort : STRING]
  /\ NoFields \in Fields
ASSUME HitsAssumption ==
  /\ \A q \in DOMAIN Hits : Hits[q] \in Seq(Product)
  /\ None \notin DOMAIN Hits
ASSUME TablesAssumption ==
  /\ Tables \in Seq(SUBSET PriceRow) /\ Tables # <<>>
  /\ \A v \in DOMAIN Tables : IsFiniteSet(Tables[v])

VARIABLES
  view,         \* the view on screen
  chips,        \* selectedChains
  fields,       \* the form
  catalogPage,
  facets,       \* the chains that have a chip, None until /filters answers
  asked,        \* the requests of the catalogue that are not answered, oldest first
  grid,         \* the cards
  pager,        \* page and number of pages, None while it is hidden
  status,       \* the line above the grid
  lastQuery,    \* the query searched for last
  searches,     \* the requests of the search that are not answered, oldest first
  results,      \* the cards of the search
  searchStatus, \* the line above them
  basket,       \* items and quantities
  stored,       \* localStorage
  rows,         \* the list of the basket as it was last rendered
  orders,       \* the baskets sent to the optimizer and not answered
  disabled,     \* the button that sends them
  result,       \* the basket whose answer is shown
  clicks, looks,
  version,      \* the number of folds committed
  sent,         \* history: the request that the catalogue sent last
  inTurn,       \* history: since the page was loaded no search overtook another
  lastOrder,    \* history: the basket sent last
  steady        \* history: since the page was loaded no request overtook another or turned
                \* a page of other fields, and no fold committed

catalogVars == <<chips, fields, catalogPage, facets, asked, grid, pager, status, sent, steady>>
searchVars == <<lastQuery, searches, results, searchStatus, inTurn>>
basketVars == <<basket, stored, rows, orders, disabled, result, lastOrder>>
vars == <<view, clicks, looks, version, catalogVars, searchVars, basketVars>>

-----------------------------------------------------------------------------
(* The catalogue.                                                          *)

\* How many pages the count of a table makes.
Pages(t, url) == (Len(Found(t, url)) + PageSize - 1) \div PageSize

catalogParams == [chips |-> chips, fields |-> fields, page |-> catalogPage]

\* Mutant: the cards of the last answer stay.
ClearNothing == UNCHANGED grid

Clear == grid' = <<>>

\* runCatalog up to its await, after the listener has set what the request reads.
runCatalog ==
  /\ Clear
  /\ pager' = None
  /\ status' = "loading"
  /\ asked' = Append(asked, [url |-> catalogParams', since |-> version])
  /\ sent' = catalogParams'
  /\ steady' = (steady /\ asked = <<>> /\ (catalogPage' = 1 \/ fields' = sent.fields))

\* The cards of a page: one statement reads their prices and a later one the chains.
Cards(url, seen, named) ==
  LET page == Page(Tables[seen], url)
      ends == {f \in [DOMAIN page -> (Chain \cup {None}) \X (Chain \cup {None})] :
                 \A k \in DOMAIN page : f[k] \in Extremes(Tables[named], page[k].id, url.chips)}
  IN  {[k \in DOMAIN page |->
          [product |-> page[k].id, chips |-> url.chips, seen |-> seen, named |-> named,
           cheapest |-> page[k].cheapest, dearest |-> page[k].dearest,
           low |-> f[k][1], high |-> f[k][2],
           open |-> FALSE, waits |-> <<>>, table |-> None]] : f \in ends}

\* runCatalog after its await.  A page of cards is added to what the grid holds; an
\* answer of one page leaves the pager as it is.
CatalogLands ==
  \E i \in DOMAIN asked :
    LET url == asked[i].url
    IN  \E counted \in asked[i].since .. version : \E seen \in counted .. version :
        \E named \in seen .. version : \E cards \in Cards(url, seen, named) :
          /\ asked' = RemoveAt(asked, i)
          /\ grid' = grid \o cards
          /\ status' = IF cards = <<>> THEN "nothing" ELSE ""
          /\ pager' = IF cards # <<>> /\ Pages(Tables[counted], url) > 1
                        THEN [page |-> url.page, pages |-> Pages(Tables[counted], url)]
                        ELSE pager
          /\ UNCHANGED <<view, clicks, looks, version, chips, fields, catalogPage, facets, sent,
                         steady, searchVars, basketVars>>

CatalogFails ==
  \E i \in DOMAIN asked :
    /\ asked' = RemoveAt(asked, i)
    /\ status' = "failed"
    /\ UNCHANGED <<view, clicks, looks, version, chips, fields, catalogPage, facets, grid, pager,
                   sent, steady, searchVars, basketVars>>

\* loadCatalog after its await; without an answer there are no chips.
FacetsLand ==
  /\ facets = None
  /\ facets' \in {{}} \cup {ChainFacets(Tables[v]) : v \in 1 .. version}
  /\ UNCHANGED <<view, clicks, looks, version, chips, fields, catalogPage, searchVars, basketVars>>
  /\ runCatalog

Click == clicks < MaxClicks /\ clicks' = clicks + 1

Look(at) ==
  /\ Click /\ view = at /\ UNCHANGED <<view, version>>
  /\ looks < MaxLooks /\ looks' = looks + 1

\* The fields of the form change; nothing listens to them.
Type ==
  /\ Look("catalog")
  /\ fields' \in Fields \ {fields}
  /\ UNCHANGED <<chips, catalogPage, facets, asked, grid, pager, status, sent, steady, searchVars,
                 basketVars>>

Submit ==
  /\ Look("catalog")
  /\ catalogPage' = 1
  /\ UNCHANGED <<chips, fields, facets, searchVars, basketVars>>
  /\ runCatalog

Reset ==
  /\ Look("catalog")
  /\ chips' = {} /\ fields' = NoFields
  /\ catalogPage' = 1
  /\ UNCHANGED <<facets, searchVars, basketVars>>
  /\ runCatalog

\* Mutant: a chip keeps the page.
ToggleKeepsPage(c) ==
  /\ chips' = IF c \in chips THEN chips \ {c} ELSE chips \cup {c}
  /\ UNCHANGED catalogPage

Toggle(c) ==
  /\ chips' = IF c \in chips THEN chips \ {c} ELSE chips \cup {c}
  /\ catalogPage' = 1

Chip ==
  /\ Look("catalog")
  /\ facets # None
  /\ \E c \in facets : Toggle(c)
  /\ UNCHANGED <<fields, facets, searchVars, basketVars>>
  /\ runCatalog

TurnPage ==
  /\ Look("catalog")
  /\ pager # None
  /\ catalogPage' \in {pager.page - 1, pager.page + 1} \cap (1 .. pager.pages)
  /\ UNCHANGED <<chips, fields, facets, searchVars, basketVars>>
  /\ runCatalog

OnGrid ==
  <<chips, fields, catalogPage, facets, asked, pager, status, sent, steady, searchVars, basketVars>>

\* The button "stores" of card k: its table opens, every other closes, and its rows are
\* asked for.
OpenTable(k) ==
  /\ Look("catalog")
  /\ ~grid[k].open
  /\ grid' = [j \in DOMAIN grid |->
                IF j = k THEN [grid[k] EXCEPT !.open = TRUE, !.table = None,
                                              !.waits = Append(@, version)]
                ELSE [grid[j] EXCEPT !.open = FALSE]]
  /\ UNCHANGED OnGrid

CloseTable(k) ==
  /\ Look("catalog")
  /\ grid[k].open
  /\ grid' = [grid EXCEPT ![k].open = FALSE]
  /\ UNCHANGED OnGrid

\* The rows arrive, or the failure, which leaves none.
TableLands(k) ==
  /\ \E i \in DOMAIN grid[k].waits :
       \E read \in grid[k].waits[i] .. version :
       \E table \in {None} \cup {[rows |-> found, read |-> read] :
                                   found \in PriceTables(Tables[read], grid[k].product)} :
         grid' = [grid EXCEPT ![k].waits = RemoveAt(@, i), ![k].table = table]
  /\ UNCHANGED <<view, clicks, looks, version, OnGrid>>

\* A cycle of the worker commits its fold.
Fold ==
  /\ version < Len(Tables)
  /\ version' = version + 1 /\ steady' = FALSE
  /\ UNCHANGED <<view, clicks, looks, chips, fields, catalogPage, facets, asked, grid, pager,
                 status, sent, searchVars, basketVars>>

-----------------------------------------------------------------------------
(* The search.                                                             *)

OffSearch == <<chips, fields, catalogPage, facets, asked, pager, status, sent, steady, basketVars>>

\* Mutant: the cards of the last search stay.
KeepResults == UNCHANGED results

ClearResults == results' = <<>>

\* runSearch up to its await, when the form is sent or another order of the rows chosen.
runSearch ==
  /\ Look("search")
  /\ lastQuery' \in DOMAIN Hits
  /\ ClearResults
  /\ searchStatus' = "searching"
  /\ searches' = Append(searches, [query |-> lastQuery', since |-> version])
  /\ inTurn' = (inTurn /\ searches = <<>>)
  /\ UNCHANGED <<grid, OffSearch>>

\* The cards of an answer: for each product a statement of its own reads the rows.
ResultCards(search) ==
  LET hits == Hits[search.query]
      CardsOf(p) == UNION {{[product |-> p, read |-> v, open |-> FALSE, answer |-> answer] :
                              answer \in SearchResults(Tables[v], p)} :
                           v \in search.since .. version}
  IN  {cards \in [DOMAIN hits -> UNION {CardsOf(p) : p \in ToSet(hits)}] :
         /\ \A k \in DOMAIN hits : cards[k] \in CardsOf(hits[k])
         /\ \A j, k \in DOMAIN hits : j < k => cards[j].read <= cards[k].read}

SearchEnds(i) ==
  /\ searches' = RemoveAt(searches, i)
  /\ UNCHANGED <<view, clicks, looks, version, lastQuery, inTurn, catalogVars, basketVars>>

SearchLands ==
  \E i \in DOMAIN searches : \E cards \in ResultCards(searches[i]) :
    /\ SearchEnds(i)
    /\ results' = results \o cards
    /\ searchStatus' = IF cards = <<>> THEN "nothing" ELSE ""

SearchFails ==
  \E i \in DOMAIN searches :
    SearchEnds(i) /\ searchStatus' = "failed" /\ UNCHANGED results

\* The button "stores" of card k of the search, which has its rows: when it opens, what
\* is open in the grid closes.
ShowRows(k) ==
  /\ Look("search")
  /\ results[k].answer.rows # {}
  /\ results' = [results EXCEPT ![k].open = ~@]
  /\ grid' = IF results[k].open THEN grid
             ELSE [j \in DOMAIN grid |-> [grid[j] EXCEPT !.open = FALSE]]
  /\ UNCHANGED <<lastQuery, searches, searchStatus, inTurn, OffSearch>>

-----------------------------------------------------------------------------
(* The basket.                                                             *)

addToBasket(p) ==
  LET held == {i \in DOMAIN basket : basket[i].id = p}
  IN  IF held = {} THEN Append(basket, [id |-> p, qty |-> 1])
      ELSE [basket EXCEPT ![CHOOSE i \in held : TRUE].qty = @ + 1]

\* Mutant: the basket is saved before it is changed.
SavedBefore == stored' = basket

saveBasket == stored' = basket'

\* The button of a card.
AddToBasket ==
  /\ Click /\ UNCHANGED <<view, looks, version>>
  /\ \/ view = "catalog" /\ \E card \in ToSet(grid) : basket' = addToBasket(card.product)
     \/ view = "search" /\ \E card \in ToSet(results) : basket' = addToBasket(card.product)
  /\ saveBasket
  /\ UNCHANGED <<rows, orders, disabled, result, lastOrder, catalogVars, searchVars>>

\* The list of an emptied basket stays behind the hidden panel.
renderBasket == rows' = IF basket' = <<>> THEN rows ELSE basket'

showView ==
  /\ Click
  /\ view' \in {"catalog", "search", "basket"} \ {view}
  /\ UNCHANGED <<looks, version, basket, stored, orders, disabled, result, lastOrder, catalogVars,
                 searchVars>>
  /\ IF view' = "basket" THEN renderBasket ELSE UNCHANGED rows

Less(i) == basket' = [basket EXCEPT ![i].qty = Max({1, @ - 1})]
More(i) == basket' = [basket EXCEPT ![i].qty = @ + 1]
Drop(i) == basket' = RemoveAt(basket, i)

\* The panel is on screen and one of its buttons is pressed.
Panel == Click /\ view = "basket" /\ basket # <<>> /\ UNCHANGED <<view, looks, version>>

\* A button of row i acts on item i of the basket.
Edit ==
  /\ Panel
  /\ \E i \in DOMAIN rows : Less(i) \/ More(i) \/ Drop(i)
  /\ saveBasket
  /\ UNCHANGED <<orders, disabled, result, lastOrder, catalogVars, searchVars>>
  /\ renderBasket

\* Mutant: the button can be pressed while an answer is on its way.
ReadyAlways == TRUE

Ready == ~disabled

\* The listener of the button up to its await.
Send ==
  /\ Panel /\ Ready
  /\ disabled' = TRUE
  /\ result' = None
  /\ orders' = Append(orders, basket)
  /\ lastOrder' = basket
  /\ UNCHANGED <<basket, stored, rows, catalogVars, searchVars>>

\* And after it: the answer is shown, or the failure, and the button works again.
OrderEnds(i) ==
  /\ orders' = RemoveAt(orders, i)
  /\ disabled' = FALSE
  /\ UNCHANGED <<view, clicks, looks, version, basket, stored, rows, lastOrder, catalogVars,
                 searchVars>>

OrderLands == \E i \in DOMAIN orders : OrderEnds(i) /\ result' = orders[i]
OrderFails == \E i \in DOMAIN orders : OrderEnds(i) /\ UNCHANGED result

-----------------------------------------------------------------------------

\* The script of the page has run to its end and asked for /filters.
Init ==
  /\ view = "catalog" /\ clicks = 0 /\ looks = 0 /\ version = 1
  /\ chips = {} /\ fields = NoFields /\ catalogPage = 1
  /\ facets = None /\ asked = <<>> /\ grid = <<>> /\ pager = None /\ status = ""
  /\ basket = <<>> /\ stored = <<>> /\ rows = <<>>
  /\ lastQuery = None /\ searches = <<>> /\ results = <<>> /\ searchStatus = "" /\ inTurn = TRUE
  /\ orders = <<>> /\ disabled = FALSE /\ result = None
  /\ sent = catalogParams /\ lastOrder = None /\ steady = TRUE

\* The page is loaded again: the basket comes from localStorage, and what was on its way
\* is lost.
Reload ==
  /\ Click /\ UNCHANGED <<looks, version>>
  /\ view' = "catalog"
  /\ chips' = {} /\ fields' = NoFields /\ catalogPage' = 1
  /\ facets' = None /\ asked' = <<>> /\ grid' = <<>> /\ pager' = None /\ status' = ""
  /\ lastQuery' = None /\ searches' = <<>> /\ results' = <<>> /\ searchStatus' = ""
  /\ inTurn' = TRUE
  /\ basket' = stored /\ rows' = stored /\ UNCHANGED stored
  /\ orders' = <<>> /\ disabled' = FALSE /\ result' = None
  /\ sent' = catalogParams' /\ lastOrder' = None /\ steady' = TRUE

Next ==
  \/ FacetsLand \/ CatalogLands \/ CatalogFails
  \/ Type \/ Submit \/ Reset \/ Chip \/ TurnPage
  \/ \E k \in DOMAIN grid : OpenTable(k) \/ CloseTable(k) \/ TableLands(k)
  \/ runSearch \/ SearchLands \/ SearchFails
  \/ \E k \in DOMAIN results : ShowRows(k)
  \/ AddToBasket \/ showView \/ Edit \/ Send \/ OrderLands \/ OrderFails
  \/ Reload \/ Fold

Spec == Init /\ [][Next]_vars

-----------------------------------------------------------------------------
(* What the customer may rely on.                                          *)

Settled == steady /\ facets # None /\ asked = <<>>

\* runCatalog: the grid holds exactly the page that the controls ask for, each product
\* once, when no request has overtaken another and no fold committed: requests carry no
\* number, and the answer of an overtaken one is added to the grid as well.
GridIsTheAnswer ==
  Settled /\ status # "failed" =>
    /\ [k \in DOMAIN grid |-> [id |-> grid[k].product, cheapest |-> grid[k].cheapest]]
         = LET page == Page(Tables[version], sent)
           IN  [k \in DOMAIN page |-> [id |-> page[k].id, cheapest |-> page[k].cheapest]]
    /\ sent.chips = chips /\ sent.page = catalogPage

\* runSearch: the cards are the products that the last query finds, in the order of the
\* match, when no search has overtaken another.
ResultsAreTheAnswer ==
  inTurn /\ searches = <<>> /\ lastQuery # None /\ searchStatus # "failed" =>
    [k \in DOMAIN results |-> results[k].product] = Hits[lastQuery]

\* runCatalog and runSearch: what is listed answers the last question asked.
ListsAreTheAnswers == GridIsTheAnswer /\ ResultsAreTheAnswer

\* "No products match the filter" is said only of filters that match none, never because
\* the page number of another filter was kept.  (A page turned after the fields of the
\* form were changed is not steady: the pager does keep the number then.)
EmptyMeansNothing == Settled /\ status = "nothing" => Found(Tables[version], sent) = <<>>

Charged(card, chain, price) ==
  \E r \in Tables[card.seen] : /\ r.product = card.product /\ r.store \in Active
                               /\ ChainOf[r.store] = chain
                               /\ card.chips = {} \/ chain \in card.chips
                               /\ r.price = price

\* Rows of the card's product tell what it tells: there are some, those of a card without
\* chips are within its range, and unless the LIMIT may have cut them the ends of the
\* range are among them.
Tells(card, found) ==
  /\ found # {}
  /\ card.chips = {} => Asking(found) \subseteq card.cheapest .. card.dearest
  /\ Cardinality(found) < TableLimit => {card.cheapest, card.dearest} \subseteq Asking(found)

\* browse, product_prices and search: the chains named on a card charge the prices beside
\* them, its table tells what the card tells, whichever rows are cut, and so does the card
\* of the same product in the search, whose lowest price is the same or, if rows were
\* cut, no lower.  What was read around a fold is excused.
CardAndTableAgree ==
  \A card \in ToSet(grid) :
    /\ card.seen = card.named =>
         Charged(card, card.low, card.cheapest) /\ Charged(card, card.high, card.dearest)
    /\ card.table # None /\ card.table.read = card.seen => Tells(card, card.table.rows)
    /\ \A found \in {r \in ToSet(results) : r.product = card.product /\ r.read = card.seen} :
         /\ Tells(card, found.answer.rows)
         /\ card.chips = {} =>
              \/ found.answer.cheapest = card.cheapest
              \/ /\ found.answer.cheapest > card.cheapest
                 /\ Cardinality(found.answer.rows) = TableLimit

\* The basket in memory, in localStorage and in the list on screen agree: a row's
\* buttons, which know only its number, act on the product named in it.
CopiesAgree ==
  /\ stored = basket
  /\ view = "basket" /\ basket # <<>> => rows = basket

\* The optimizer's answer on screen is the one for the basket that was sent last, and the
\* button works unless an answer is on its way.
ResultIsOfTheLastOrder ==
  /\ result # None => result = lastOrder
  /\ disabled <=> orders # <<>>
=============================================================================
