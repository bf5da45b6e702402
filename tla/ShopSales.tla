----------------------------- MODULE ShopSales -----------------------------
(***************************************************************************)
(* The sales side of MERCADO FING, the menu-driven shop: users, products,  *)
(* promotions and who is told of them, purchases and shipments. One person *)
(* sits at the menu and answers questions, so the hard part is not         *)
(* concurrency but what a long sequence of answers leaves in the maps: a   *)
(* lookup with operator[] inserts a NULL that a later listing dereferences,*)
(* and Producto::compraProd is filled under two kinds of key.              *)
(***************************************************************************)
EXTENDS Integers, Sequences, FiniteSets, SequencesExt

CONSTANTS
  Nick,          \* what may be typed where a nickname is asked
  PromoName,     \* what may be typed where the name of a promotion is asked
  Amount,        \* what may be typed where a stock, a quantity or a minimum is asked
  Sessions,      \* how far a session may go: a set of limits
  NOBODY         \* clienteAsociado before asociarCliente: never written

Limits == [roles : Nat, products : Nat, promotions : Nat, purchases : Nat, comments : Nat]

ASSUME ShopAssumption ==
  /\ NOBODY \notin Nick
  /\ Amount \subseteq Nat
  /\ Sessions \subseteq Limits

VARIABLES
  limit,             \* the limits of this session (a bound of the model)
  pc,                \* where the program stands, or how it ended
  actor,             \* the user a longer menu option is about
  fuera,             \* an answer was not among those the screen offered
  colUsuarios,       \* colUsuarios[n]: no entry, a NULL one, or a user
  productos,         \* the products, by code
  nulos,             \* the codes that colProductos maps to NULL
  promociones,       \* the promotions, in the order of their creation
  compras,           \* compras[b]: the client of purchase b, or NOBODY
  item,              \* item[p, b]: the CompraProd of product p in purchase b
  colSuscripciones,  \* colSuscripciones[n]: the vendors client n has subscribed to
  suscriptores,      \* suscriptores[n]: the clients vendor n will notify
  notificaciones,    \* notificaciones[n]: the stack of promotions n has not read
  leidas             \* leidas[n]: those n has read

users  == <<colUsuarios, colSuscripciones, suscriptores, notificaciones, leidas>>
goods  == <<productos, nulos, promociones, compras, item>>
sales  == <<limit, pc, actor, fuera, users, goods>>

Codigo    == DOMAIN productos
Compra    == DOMAIN compras
EsCliente == {n \in Nick : colUsuarios[n] = "cliente"}
EsVendedor == {n \in Nick : colUsuarios[n] = "vendedor"}
Existe    == EsCliente \cup EsVendedor

\* what may be typed where a code is asked: the codes in use, the one the next
\* product will have, and 0, which no product ever has
Typed == 0 .. Len(productos) + 1

(***************************************************************************)
(* How the process ends: a NULL is dereferenced, an uninitialised or freed *)
(* pointer is, or a question is asked for ever that has no answer. What    *)
(* is in memory then does not matter any more.                             *)
(***************************************************************************)
Muere(how) == pc' = how /\ UNCHANGED <<limit, actor, users, goods>>

\* imprimirUsuarios and its kin dereference every entry of colUsuarios,
\* listarProductos and listarProductosDisp every entry of colProductos
UsersListed    == \A n \in Nick : colUsuarios[n] # "null"
ProductsListed == nulos = {}

AtMenu == pc = "menu"

SalesInit ==
  /\ limit \in Sessions
  /\ pc = "menu" /\ actor = NOBODY /\ fuera = FALSE
  /\ colUsuarios = [n \in Nick |-> "none"]
  /\ colSuscripciones = [n \in Nick |-> {}]
  /\ suscriptores = [n \in Nick |-> {}]
  /\ notificaciones = [n \in Nick |-> <<>>]
  /\ leidas = [n \in Nick |-> <<>>]
  /\ productos = <<>> /\ nulos = {}
  /\ promociones = <<>> /\ compras = <<>>
  /\ item = [i \in {} |-> [cantidad |-> 0, enviado |-> FALSE]]

-----------------------------------------------------------------------------
(* Users *)

\* (menu a) a taken nickname is refused, and nothing changes
AltaUsuario(n, role) ==
  /\ AtMenu /\ n \notin Existe
  /\ Cardinality(Existe) < limit.roles
  /\ colUsuarios' = [colUsuarios EXCEPT ![n] = role]
  /\ UNCHANGED <<limit, pc, actor, fuera, colSuscripciones, suscriptores, notificaciones, leidas, goods>>

\* any of the menu options that list users or their nicknames first
CaeAlListarUsuarios ==
  AtMenu /\ ~UsersListed /\ Muere("null") /\ UNCHANGED fuera

\* (menu k and m, and h and i of Shop) the name is looked up with operator[]
BuscaUsuario(n) ==
  /\ AtMenu /\ UsersListed /\ colUsuarios[n] = "none"
  /\ colUsuarios' = [colUsuarios EXCEPT ![n] = "null"]
  /\ fuera' = TRUE
  /\ UNCHANGED <<limit, pc, actor, colSuscripciones, suscriptores, notificaciones, leidas, goods>>

\* (menu l) one turn of its loop; a name that is not there is dereferenced
Suscribirse(c, v) ==
  /\ AtMenu /\ UsersListed
  /\ IF c \in EsCliente /\ v \in EsVendedor
     THEN /\ colSuscripciones' = [colSuscripciones EXCEPT ![c] = @ \cup {v}]
          /\ suscriptores' = [suscriptores EXCEPT ![v] = @ \cup {c}]
          /\ UNCHANGED <<limit, pc, actor, fuera, colUsuarios, notificaciones, leidas, goods>>
     ELSE Muere("null") /\ fuera' = TRUE

\* Fault: the vendor keeps the client on the list.
OneSideOnly(c, v) ==
  /\ AtMenu /\ UsersListed
  /\ IF c \in EsCliente /\ v \in EsVendedor
     THEN /\ colSuscripciones' = [colSuscripciones EXCEPT ![c] = @ \ {v}]
          /\ UNCHANGED <<limit, pc, actor, fuera, colUsuarios, suscriptores, notificaciones, leidas, goods>>
     ELSE Muere("null") /\ fuera' = TRUE

\* (menu n) one turn of its loop
EliminarSuscripcion(c, v) ==
  /\ AtMenu /\ UsersListed
  /\ IF c \in EsCliente /\ v \in EsVendedor
     THEN /\ colSuscripciones' = [colSuscripciones EXCEPT ![c] = @ \ {v}]
          /\ suscriptores' = [suscriptores EXCEPT ![v] = @ \ {c}]
          /\ UNCHANGED <<limit, pc, actor, fuera, colUsuarios, notificaciones, leidas, goods>>
     ELSE Muere("null") /\ fuera' = TRUE

\* (menu m) the stack is read until it is empty
ConsultarNotificaciones(c) ==
  /\ AtMenu /\ UsersListed /\ c \in EsCliente
  /\ leidas' = [leidas EXCEPT ![c] = @ \o Reverse(notificaciones[c])]
  /\ notificaciones' = [notificaciones EXCEPT ![c] = <<>>]
  /\ UNCHANGED <<limit, pc, actor, fuera, colUsuarios, colSuscripciones, suscriptores, goods>>

-----------------------------------------------------------------------------
(* Products and promotions *)

NuevoCodigo == Len(productos) + 1

\* (menu c) an unknown vendor is refused, and nothing changes
AltaProducto(v, s) ==
  /\ AtMenu /\ UsersListed /\ v \in EsVendedor
  /\ Len(productos) < limit.products
  /\ productos' = Append(productos,
       [vend |-> v, alta |-> s, stock |-> s, promo |-> 0, compraProd |-> [k \in {} |-> 0]])
  /\ nulos' = nulos \ {NuevoCodigo}
  /\ UNCHANGED <<limit, pc, actor, fuera, users, promociones, compras, item>>

\* the options that list products: d, g and h
CaeAlListarProductos ==
  AtMenu /\ UsersListed /\ ~ProductsListed /\ Muere("null") /\ UNCHANGED fuera

\* (menu d) asks until the code is one of a product: with none, for ever
ConsultarProducto(p) ==
  /\ AtMenu /\ ProductsListed /\ p \notin Codigo
  /\ nulos' = nulos \cup {p}
  /\ fuera' = TRUE
  /\ pc' = IF productos = <<>> THEN "asks" ELSE pc
  /\ UNCHANGED <<limit, actor, users, productos, promociones, compras, item>>

\* Fault: a product that is discounted from one piece on gets no entry.
OnlyMinimaAboveOne(minimo) == [p \in {p \in DOMAIN minimo : minimo[p] > 1} |-> minimo[p]]

\* the map that agregarProdAPromoCantMin fills
PromProductos(minimo) == [p \in DOMAIN minimo |-> minimo[p]]

(***************************************************************************)
(* (menu e) minimo gives the products that are added and the quantity from *)
(* which each has the discount. Any vendor's products are accepted; a name *)
(* or a code that is not there is dereferenced. Then the subscribers of    *)
(* the vendor are notified. audience is kept for the properties only.      *)
(***************************************************************************)
CrearPromocion(v, name, minimo) ==
  /\ AtMenu /\ UsersListed
  /\ Len(promociones) < limit.promotions
  /\ IF v \in EsVendedor /\ DOMAIN minimo \subseteq Codigo
     THEN LET q == Len(promociones) + 1
          IN  /\ promociones' = Append(promociones,
                   [nombre |-> name, minimo |-> PromProductos(minimo),
                    audience |-> {c \in Nick : v \in colSuscripciones[c]}])
              /\ productos' = [p \in Codigo |->
                   [productos[p] EXCEPT !.promo = IF p \in DOMAIN minimo THEN q ELSE @]]
              /\ notificaciones' = [c \in Nick |->
                   IF c \in suscriptores[v] THEN Append(notificaciones[c], q)
                                            ELSE notificaciones[c]]
              /\ UNCHANGED <<limit, pc, actor, fuera, colUsuarios, colSuscripciones,
                             suscriptores, leidas, nulos, compras, item>>
     ELSE Muere("null") /\ fuera' = TRUE

\* (menu f) the name of a promotion that was never made is dereferenced
ConsultarPromocion(name) ==
  /\ AtMenu /\ \A q \in DOMAIN promociones : promociones[q].nombre # name
  /\ Muere("null") /\ fuera' = TRUE

-----------------------------------------------------------------------------
(* Purchases *)

EnCompra(p) == <<p, Len(compras)>> \in DOMAIN item

\* (menu g) the purchase has its number before the products are listed; an
\* unknown client is refused, and nothing changes
Comprar(c) ==
  /\ AtMenu /\ UsersListed /\ ProductsListed /\ c \in EsCliente
  /\ Len(compras) < limit.purchases
  /\ compras' = Append(compras, NOBODY)
  /\ actor' = c
  /\ pc' = "comprando"
  /\ UNCHANGED <<limit, fuera, users, productos, nulos, promociones, item>>

\* Faults: one of the two keys is forgotten, or is one too high, or its old entry
\* stays.
OneKeyOnly(p, b) ==
  [k \in DOMAIN productos[p].compraProd \cup {p} |->
     IF k = p THEN b ELSE productos[p].compraProd[k]]

NextCodeAsKey(p, b) ==
  [k \in DOMAIN productos[p].compraProd \cup {p, p + 1, b} |->
     IF k \in {p, p + 1, b} THEN b ELSE productos[p].compraProd[k]]

KeepsOldEntry(p, b) ==
  [k \in DOMAIN productos[p].compraProd \cup {p, b} |->
     IF k = b \/ k \notin DOMAIN productos[p].compraProd THEN b ELSE productos[p].compraProd[k]]

\* ingresarCompraProd keys by the product's own code, asociarCompraProd by the
\* purchase's number, in the same map
ConCompraProd(p, b) ==
  [k \in DOMAIN productos[p].compraProd \cup {p, b} |->
     IF k \in {p, b} THEN b ELSE productos[p].compraProd[k]]

\* Fault: off by one.
OneTooMany(p, n) == n > 0 /\ n <= productos[p].stock + 1

\* a quantity that is not positive, or more than there is, is refused, and nothing
\* changes
HayStock(p, n) == n > 0 /\ n <= productos[p].stock

\* Fault: the stock is left as it is.
StockNotTaken(p, n) == productos[p].stock

\* the stock is taken before the purchase is confirmed
TomarStock(p, n) == productos[p].stock - n

\* aplicarDescuento dereferences the entry its promotion has for the product
PromoLoTiene(p) ==
  LET q == productos[p].promo IN q # 0 => p \in DOMAIN promociones[q].minimo

AgregarProducto(p, n) ==
  LET b == Len(compras)
  IN  /\ pc = "comprando" /\ p \in Codigo /\ ~EnCompra(p) /\ HayStock(p, n)
      /\ \/ IF PromoLoTiene(p)
            THEN /\ item' = [i \in DOMAIN item \cup {<<p, b>>} |->
                      IF i = <<p, b>> THEN [cantidad |-> n, enviado |-> FALSE] ELSE item[i]]
                 /\ productos' = [productos EXCEPT ![p].compraProd = ConCompraProd(p, b),
                                                   ![p].stock = TomarStock(p, n)]
                 /\ UNCHANGED <<limit, pc, actor, fuera, users, nulos, promociones, compras>>
            ELSE Muere("null") /\ UNCHANGED fuera
         \/ \* Producto::promo is not initialised by the constructor
            productos[p].promo = 0 /\ Muere("wild") /\ UNCHANGED fuera

\* a code that is not there is refused, but its lookup stays
CodigoDesconocido(p) ==
  /\ pc = "comprando" /\ p \notin Codigo
  /\ nulos' = nulos \cup {p}
  /\ fuera' = TRUE
  /\ UNCHANGED <<limit, pc, actor, users, productos, promociones, compras, item>>

\* the summary reads the entry of each product under its code
Resumen == {productos[p].compraProd[p] : p \in {p \in Codigo : EnCompra(p)}}

\* with 0 the client gets the purchase; with anything else it is left as it is
TerminarCompra(confirma) ==
  /\ pc = "comprando"
  /\ compras' = IF confirma THEN [compras EXCEPT ![Len(compras)] = actor] ELSE compras
  /\ pc' = "menu" /\ actor' = NOBODY
  /\ UNCHANGED <<limit, fuera, users, productos, nulos, promociones, item>>

-----------------------------------------------------------------------------
(* Shipments: (menu j) *)

\* the keys of p whose entry has not been sent
Pendientes(p) ==
  {k \in DOMAIN productos[p].compraProd : ~item[<<p, productos[p].compraProd[k]>>].enviado}

\* imprimirComprasConProdPendiente: the numbers on the screen
IdsCompras(p) == {productos[p].compraProd[k] : k \in Pendientes(p)}

\* the entry findCompraProd(id) gives is marked, whichever it is
EnviarProducto(v, p, id) ==
  /\ AtMenu /\ UsersListed /\ v \in EsVendedor
  /\ p \in Codigo /\ productos[p].vend = v /\ id \in IdsCompras(p)
  /\ IF id \in DOMAIN productos[p].compraProd
     THEN /\ item' = [item EXCEPT ![<<p, productos[p].compraProd[id]>>].enviado = TRUE]
          /\ UNCHANGED <<limit, pc, actor, fuera, users, productos, nulos, promociones, compras>>
     ELSE Muere("null") /\ UNCHANGED fuera

\* the listing asks every purchase for its client, confirmed or not; nobody has
\* written clienteAsociado when it was not, so it is NULL or anything
CaeAlListarCompras(v, p) ==
  /\ AtMenu /\ UsersListed /\ v \in EsVendedor
  /\ p \in Codigo /\ productos[p].vend = v
  /\ \E b \in IdsCompras(p) : compras[b] = NOBODY
  /\ (\E how \in {"null", "wild"} : Muere(how)) /\ UNCHANGED fuera

\* asks until the name is one of a vendor: with none, for ever
SinVendedores ==
  AtMenu /\ UsersListed /\ EsVendedor = {} /\ Muere("asks") /\ UNCHANGED fuera

Minimos == UNION {[S -> Amount] : S \in (SUBSET Typed) \ {{}}}

SalesNext ==
  \/ \E n \in Nick :
       \/ \E role \in {"cliente", "vendedor"} : AltaUsuario(n, role)
       \/ BuscaUsuario(n)
       \/ ConsultarNotificaciones(n)
       \/ Comprar(n)
       \/ \E s \in Amount : AltaProducto(n, s)
       \/ \E v \in Nick : Suscribirse(n, v) \/ EliminarSuscripcion(n, v)
       \/ \E name \in PromoName, minimo \in Minimos : CrearPromocion(n, name, minimo)
       \/ \E p \in Codigo : CaeAlListarCompras(n, p)
       \/ \E p \in Codigo, id \in Compra : EnviarProducto(n, p, id)
  \/ CaeAlListarUsuarios
  \/ CaeAlListarProductos
  \/ \E p \in Typed : ConsultarProducto(p) \/ CodigoDesconocido(p)
  \/ \E name \in PromoName : ConsultarPromocion(name)
  \/ \E p \in Codigo, n \in Amount : AgregarProducto(p, n)
  \/ \E confirma \in BOOLEAN : TerminarCompra(confirma)
  \/ SinVendedores
=============================================================================
