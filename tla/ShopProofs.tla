----------------------------- MODULE ShopProofs -----------------------------
(***************************************************************************)
(* Proofs about Shop, for any users, limits and answers: the two kinds of  *)
(* key in Producto::compraProd, which menu j and the summary of a purchase *)
(* rely on; the stock; who is told of a promotion; the four maps that      *)
(* point to comments, and the NULLs that lookups leave in them.            *)
(***************************************************************************)
EXTENDS Shop, Recursion

Producto ==
  [vend : Nick, alta : Nat, stock : Nat, promo : Nat,
   compraProd : UNION {[S -> Nat] : S \in SUBSET Nat}]

Promocion ==
  [nombre : PromoName, minimo : UNION {[S -> Amount] : S \in SUBSET Nat}, audience : SUBSET Nick]

\* the maps that the keys are about have their types
GoodsType ==
  /\ productos \in Seq(Producto)
  /\ promociones \in Seq(Promocion)
  /\ compras \in Seq(Nick \cup {NOBODY})
  /\ DOMAIN item \subseteq Codigo \X Compra

\* every entry leads to the CompraProd of a purchase, ...
EntriesExist ==
  \A p \in Codigo : \A k \in DOMAIN productos[p].compraProd :
    <<p, productos[p].compraProd[k]>> \in DOMAIN item

\* ... under the number of that purchase, ...
KeyedByPurchase ==
  \A p \in Codigo : \A k \in DOMAIN productos[p].compraProd :
    k # p => productos[p].compraProd[k] = k

\* ... except the one under the product's own code, whose CompraProd is found
\* under its number too, ...
OwnCodeIsAlias ==
  \A p \in Codigo : p \in DOMAIN productos[p].compraProd =>
    LET b == productos[p].compraProd[p] IN
      b \in DOMAIN productos[p].compraProd /\ productos[p].compraProd[b] = b

\* ... and is the latest of the product.
OwnCodeIsLatest ==
  \A p \in Codigo, b \in Compra : <<p, b>> \in DOMAIN item =>
    p \in DOMAIN productos[p].compraProd /\ b <= productos[p].compraProd[p]

\* no CompraProd is lost but under the product's own code
Kept ==
  \A p \in Codigo, b \in Compra : <<p, b>> \in DOMAIN item /\ b # p =>
    b \in DOMAIN productos[p].compraProd

Keys ==
  /\ GoodsType
  /\ EntriesExist
  /\ KeyedByPurchase
  /\ OwnCodeIsAlias
  /\ OwnCodeIsLatest
  /\ Kept

-----------------------------------------------------------------------------
LEMMA InitKeys == Init => Keys
  BY DEF Init, SalesInit, Keys, GoodsType, EntriesExist, KeyedByPurchase,
         OwnCodeIsAlias, OwnCodeIsLatest, Kept, Codigo, Compra

\* Most options leave the entries alone: they only add products and purchases, or
\* change other fields.
LEMMA EntriesLeftAlone ==
  ASSUME Keys, GoodsType',
         Codigo \subseteq Codigo', Compra \subseteq Compra',
         DOMAIN item' = DOMAIN item,
         \A p \in Codigo : productos'[p].compraProd = productos[p].compraProd,
         \A p \in Codigo' \ Codigo : DOMAIN productos'[p].compraProd = {}
  PROVE  Keys'
<1>1. ASSUME NEW p \in Codigo', NEW b, <<p, b>> \in DOMAIN item'
      PROVE  p \in Codigo /\ b \in Compra
  BY <1>1 DEF Keys, GoodsType
<1>2. EntriesExist'
  BY DEF Keys, EntriesExist
<1>3. KeyedByPurchase'
  BY DEF Keys, KeyedByPurchase
<1>4. OwnCodeIsAlias'
  BY DEF Keys, OwnCodeIsAlias
<1>5. OwnCodeIsLatest'
  BY <1>1 DEF Keys, OwnCodeIsLatest
<1>6. Kept'
  BY <1>1 DEF Keys, Kept
<1> QED
  BY <1>2, <1>3, <1>4, <1>5, <1>6 DEF Keys

LEMMA SameGoods ==
  ASSUME Keys, UNCHANGED goods
  PROVE  Keys'
<1>1. GoodsType' /\ Codigo' = Codigo /\ Compra' = Compra
  BY DEF Keys, GoodsType, Codigo, Compra, goods
<1> QED
  BY <1>1, EntriesLeftAlone DEF goods

LEMMA AltaProductoKeys ==
  ASSUME Keys, NEW v \in Nick, NEW s \in Amount, AltaProducto(v, s)
  PROVE  Keys'
<1> DEFINE nuevo == [vend |-> v, alta |-> s, stock |-> s, promo |-> 0,
                     compraProd |-> [k \in {} |-> 0]]
<1>1. nuevo.compraProd \in [{} -> Nat] /\ {} \in SUBSET Nat
  OBVIOUS
<1>2. nuevo \in Producto
  <2>1. nuevo.compraProd \in UNION {[S -> Nat] : S \in SUBSET Nat}
    BY <1>1
  <2> QED
    BY <2>1, ShopAssumption DEF Producto
<1>3. productos \in Seq(Producto) /\ productos' = Append(productos, nuevo)
  BY DEF Keys, GoodsType, AltaProducto
<1>4. DOMAIN nuevo.compraProd = {}
  OBVIOUS
<1> HIDE DEF nuevo
<1>5. /\ productos' \in Seq(Producto)
      /\ Codigo' = Codigo \cup {Len(productos) + 1}
      /\ \A p \in Codigo : productos'[p] = productos[p]
      /\ productos'[Len(productos) + 1] = nuevo
  BY <1>2, <1>3 DEF Codigo
<1>6. compras' = compras /\ item' = item /\ promociones' = promociones
  BY DEF AltaProducto
<1>7. GoodsType'
  BY <1>5, <1>6 DEF Keys, GoodsType, Compra
<1> QED
  BY <1>4, <1>5, <1>6, <1>7, EntriesLeftAlone DEF Compra

LEMMA CrearPromocionKeys ==
  ASSUME Keys, NEW v \in Nick, NEW name \in PromoName, NEW minimo \in Minimos,
         CrearPromocion(v, name, minimo)
  PROVE  Keys'
<1>1. CASE UNCHANGED goods
  BY <1>1, SameGoods
<1>2. CASE /\ promociones' = Append(promociones,
                [nombre |-> name, minimo |-> PromProductos(minimo),
                 audience |-> {c \in Nick : v \in colSuscripciones[c]}])
           /\ productos' = [p \in Codigo |->
                [productos[p] EXCEPT !.promo = IF p \in DOMAIN minimo
                                               THEN Len(promociones) + 1 ELSE @]]
           /\ UNCHANGED <<compras, item>>
  <2>1. productos \in Seq(Producto) /\ Codigo = 1 .. Len(productos)
    BY DEF Keys, GoodsType, Codigo
  <2>2. promociones \in Seq(Promocion) /\ Len(promociones) + 1 \in Nat
    BY DEF Keys, GoodsType
  <2>3. ASSUME NEW p \in Codigo
        PROVE  productos'[p] \in Producto /\ productos'[p].compraProd = productos[p].compraProd
    <3>1. productos[p] \in Producto
      BY <2>1
    <3> DEFINE m == IF p \in DOMAIN minimo THEN Len(promociones) + 1 ELSE productos[p].promo
    <3>2. m \in Nat
      BY <2>2, <3>1 DEF Producto
    <3>3. productos'[p] = [productos[p] EXCEPT !.promo = m]
      BY <1>2, <3>1 DEF Producto
    <3> HIDE DEF m
    <3> QED
      BY <3>1, <3>2, <3>3 DEF Producto
  <2>4. productos' \in [1 .. Len(productos) -> Producto]
    BY <1>2, <2>1, <2>3
  <2>5. productos' \in Seq(Producto) /\ Codigo' = Codigo
    BY <2>1, <2>4 DEF Codigo
  <2>6. PromProductos(minimo) \in UNION {[S -> Amount] : S \in SUBSET Nat}
    <3>1. PICK S \in SUBSET Typed : minimo \in [S -> Amount]
      BY DEF Minimos
    <3>2. PromProductos(minimo) \in [S -> Amount]
      BY <3>1 DEF PromProductos
    <3>3. S \in SUBSET Nat
      BY <2>1 DEF Typed
    <3> QED
      BY <3>2, <3>3
  <2>7. promociones' \in Seq(Promocion)
    BY <1>2, <2>2, <2>6 DEF Promocion
  <2> QED
    BY <1>2, <2>3, <2>5, <2>7, EntriesLeftAlone DEF Keys, GoodsType, Compra
<1> QED
  BY <1>1, <1>2 DEF CrearPromocion, Muere, goods

LEMMA ComprarKeys ==
  ASSUME Keys, NEW c \in Nick, Comprar(c)
  PROVE  Keys'
<1>1. /\ compras' \in Seq(Nick \cup {NOBODY}) /\ Compra \subseteq Compra'
      /\ UNCHANGED <<productos, promociones, item>>
  BY DEF Keys, GoodsType, Comprar, Compra
<1> QED
  BY <1>1, EntriesLeftAlone DEF Keys, GoodsType, Codigo

LEMMA TerminarCompraKeys ==
  ASSUME Keys, NEW confirma \in BOOLEAN, TerminarCompra(confirma),
         actor \in Nick \cup {NOBODY}
  PROVE  Keys'
<1>1. /\ compras' \in Seq(Nick \cup {NOBODY}) /\ Compra = Compra'
      /\ UNCHANGED <<productos, promociones, item>>
  BY DEF Keys, GoodsType, TerminarCompra, Compra
<1> QED
  BY <1>1, EntriesLeftAlone DEF Keys, GoodsType, Codigo

LEMMA EnviarProductoKeys ==
  ASSUME Keys, NEW v \in Nick, NEW p \in Codigo, NEW id \in Compra, EnviarProducto(v, p, id)
  PROVE  Keys'
<1>1. UNCHANGED <<productos, promociones, compras>> /\ DOMAIN item' = DOMAIN item
  BY DEF EnviarProducto, Muere, goods
<1> QED
  BY <1>1, EntriesLeftAlone DEF Keys, GoodsType, Codigo, Compra

-----------------------------------------------------------------------------
(***************************************************************************)
(* The one option that writes entries: both keys of the product of this    *)
(* turn, to the number of the purchase in hand, which is the latest.       *)
(***************************************************************************)
LEMMA AgregarProductoKeys ==
  ASSUME Keys, NEW p \in Codigo, NEW n \in Amount, AgregarProducto(p, n),
         pc = "comprando" => Len(compras) \in Compra
  PROVE  Keys'
<1> DEFINE b == Len(compras)
<1>1. CASE UNCHANGED goods
  BY <1>1, SameGoods
<1>2. CASE /\ HayStock(p, n)
           /\ item' = [i \in DOMAIN item \cup {<<p, b>>} |->
                IF i = <<p, b>> THEN [cantidad |-> n, enviado |-> FALSE] ELSE item[i]]
           /\ productos' = [productos EXCEPT ![p].compraProd = ConCompraProd(p, b),
                                             ![p].stock = TomarStock(p, n)]
           /\ UNCHANGED <<promociones, compras>>
           /\ b \in Compra
  <2> DEFINE c == productos[p].compraProd
             d == ConCompraProd(p, b)
  <2>1. /\ productos \in Seq(Producto) /\ Codigo = 1 .. Len(productos)
        /\ productos[p] \in Producto /\ b \in Nat /\ p \in Nat
    BY DEF Keys, GoodsType, Codigo, Compra
  <2>2. PICK S \in SUBSET Nat : c \in [S -> Nat]
    BY <2>1 DEF Producto
  <2>3. d \in [S \cup {p, b} -> Nat]
    BY <2>1, <2>2 DEF ConCompraProd
  <2>4. /\ DOMAIN d = DOMAIN c \cup {p, b}
        /\ d[p] = b /\ d[b] = b
        /\ \A k \in DOMAIN c \ {p, b} : d[k] = c[k]
    BY DEF ConCompraProd
  <2>5. d \in UNION {[T -> Nat] : T \in SUBSET Nat}
    <3>1. S \cup {p, b} \in SUBSET Nat
      BY <2>1
    <3> QED
      BY <2>3, <3>1
  <2>6. TomarStock(p, n) \in Nat
    BY <1>2, <2>1, ShopAssumption DEF HayStock, TomarStock, Producto
  <2> HIDE DEF d, c
  <2>7. /\ productos' \in Seq(Producto) /\ Codigo' = Codigo
        /\ productos'[p].compraProd = d
        /\ \A q \in Codigo \ {p} : productos'[q] = productos[q]
    <3>1. [productos[p] EXCEPT !.compraProd = d, !.stock = TomarStock(p, n)] \in Producto
      BY <2>1, <2>5, <2>6 DEF Producto
    <3>2. productos' = [productos EXCEPT ![p] =
                          [productos[p] EXCEPT !.compraProd = d, !.stock = TomarStock(p, n)]]
      BY <1>2, <2>1 DEF d, Producto
    <3> QED
      BY <2>1, <3>1, <3>2 DEF Codigo, Producto
  <2>8. DOMAIN item' = DOMAIN item \cup {<<p, b>>} /\ Compra' = Compra
    BY <1>2 DEF Compra
  <2>9. GoodsType'
    BY <1>2, <2>7, <2>8 DEF Keys, GoodsType
  <2>10. EntriesExist'
    BY <2>4, <2>7, <2>8 DEF Keys, EntriesExist, c
  <2>11. KeyedByPurchase'
    BY <2>4, <2>7 DEF Keys, KeyedByPurchase, c
  <2>12. OwnCodeIsAlias'
    BY <2>4, <2>7 DEF Keys, OwnCodeIsAlias, c
  <2>13. OwnCodeIsLatest'
    <3> SUFFICES ASSUME NEW q \in Codigo, NEW a \in Compra, <<q, a>> \in DOMAIN item'
                 PROVE  /\ q \in DOMAIN productos'[q].compraProd
                        /\ a <= productos'[q].compraProd[q]
      BY <2>7, <2>8 DEF OwnCodeIsLatest
    <3>1. CASE q = p
      <4>1. a <= b
        BY DEF Keys, GoodsType, Compra
      <4> QED
        BY <3>1, <4>1, <2>4, <2>7
    <3>2. CASE q # p
      BY <3>2, <2>7, <2>8 DEF Keys, OwnCodeIsLatest
    <3> QED
      BY <3>1, <3>2
  <2>14. Kept'
    BY <2>4, <2>7, <2>8 DEF Keys, Kept, c
  <2> QED
    BY <2>9, <2>10, <2>11, <2>12, <2>13, <2>14 DEF Keys
<1> QED
  BY <1>1, <1>2 DEF AgregarProducto, Muere, goods

-----------------------------------------------------------------------------
\* who is at the menu, and with which purchase
Desk ==
  /\ actor \in Nick \cup {NOBODY}
  /\ pc = "comprando" => Len(compras) \in Compra

IInv == Keys /\ Desk

LEMMA DeskKept ==
  ASSUME IInv, Next
  PROVE  Desk'
<1>1. compras \in Seq(Nick \cup {NOBODY})
  BY DEF IInv, Keys, GoodsType
<1>2. ASSUME NEW c \in Nick, Comprar(c)
      PROVE  Desk'
  <2>1. compras' = Append(compras, NOBODY) /\ actor' = c
    BY <1>2 DEF Comprar
  <2>2. Len(compras') = Len(compras) + 1 /\ DOMAIN compras' = 1 .. Len(compras) + 1
    BY <1>1, <2>1
  <2>3. Len(compras') \in DOMAIN compras'
    BY <1>1, <2>2
  <2> QED
    BY <2>1, <2>3 DEF Desk, Compra
<1>3. ASSUME NEW confirma \in BOOLEAN, TerminarCompra(confirma)
      PROVE  Desk'
  BY <1>3 DEF TerminarCompra, Desk
<1>4. CASE UNCHANGED <<actor, pc, compras>>
  BY <1>4 DEF IInv, Desk, Compra
<1>5. CASE UNCHANGED <<actor, compras>> /\ pc' # "comprando"
  BY <1>5 DEF IInv, Desk
<1>6. CASE compras' = compras /\ pc' \in {"menu", "comentando"} /\ actor' \in Nick \cup {NOBODY}
  BY <1>6 DEF IInv, Desk
<1>7. ASSUME NEW n \in Nick, NEW role, AltaUsuario(n, role)
      PROVE  Desk'
  BY <1>4, <1>7 DEF AltaUsuario, goods
<1>8. ASSUME NEW n \in Nick, BuscaUsuario(n) \/ ConsultarNotificaciones(n)
      PROVE  Desk'
  BY <1>4, <1>8 DEF BuscaUsuario, ConsultarNotificaciones, goods
<1>9. ASSUME NEW n \in Nick, NEW s \in Amount, AltaProducto(n, s)
      PROVE  Desk'
  BY <1>4, <1>9 DEF AltaProducto
<1>10. ASSUME NEW n \in Nick, NEW v \in Nick, Suscribirse(n, v) \/ EliminarSuscripcion(n, v)
       PROVE  Desk'
  BY <1>4, <1>5, <1>10 DEF Suscribirse, EliminarSuscripcion, Muere, goods
<1>11. ASSUME NEW n, NEW name, NEW minimo, CrearPromocion(n, name, minimo)
       PROVE  Desk'
  BY <1>4, <1>5, <1>11 DEF CrearPromocion, Muere, goods
<1>12. ASSUME NEW n, NEW p, CaeAlListarCompras(n, p)
       PROVE  Desk'
  BY <1>5, <1>12 DEF CaeAlListarCompras, Muere, goods
<1>13. ASSUME NEW n, NEW p, NEW id, EnviarProducto(n, p, id)
       PROVE  Desk'
  BY <1>4, <1>5, <1>13 DEF EnviarProducto, Muere, goods
<1>14. CASE CaeAlListarUsuarios \/ CaeAlListarProductos \/ SinVendedores
  BY <1>5, <1>14 DEF CaeAlListarUsuarios, CaeAlListarProductos, SinVendedores, Muere, goods
<1>15. ASSUME NEW p, ConsultarProducto(p)
       PROVE  Desk'
  BY <1>4, <1>5, <1>15 DEF ConsultarProducto
<1>16. ASSUME NEW p, CodigoDesconocido(p)
       PROVE  Desk'
  BY <1>4, <1>16 DEF CodigoDesconocido
<1>17. ASSUME NEW name, ConsultarPromocion(name)
       PROVE  Desk'
  BY <1>5, <1>17 DEF ConsultarPromocion, Muere, goods
<1>18. ASSUME NEW p, NEW n, AgregarProducto(p, n)
       PROVE  Desk'
  BY <1>4, <1>5, <1>18 DEF AgregarProducto, Muere, goods
<1>19. ASSUME NEW u \in Nick, NEW p, CrearComentario(u, p)
       PROVE  Desk'
  BY <1>6, <1>19 DEF CrearComentario, Nuevo, goods
<1>20. ASSUME NEW u \in Nick, NEW p, CaeAlListarComentarios(u, p)
       PROVE  Desk'
  BY <1>5, <1>20 DEF CaeAlListarComentarios, Muere, goods
<1>21. ASSUME NEW u \in Nick, NEW p, NEW i, CrearHijo(u, p, i)
       PROVE  Desk'
  BY <1>6, <1>21 DEF CrearHijo, Nuevo, goods
<1>22. ASSUME NEW u \in Nick, NEW p, NEW i, RespuestaRechazada(u, p, i)
       PROVE  Desk'
  BY <1>6, <1>22 DEF RespuestaRechazada, goods
<1>23. ASSUME NEW p, BuscaProducto(p)
       PROVE  Desk'
  BY <1>4, <1>23 DEF BuscaProducto
<1>24. ASSUME NEW u \in Nick, CaeAlListarPropios(u)
       PROVE  Desk'
  BY <1>5, <1>24 DEF CaeAlListarPropios, Muere, goods
<1>25. ASSUME NEW u \in Nick, NEW i, EliminarComentario(u, i)
       PROVE  Desk'
  BY <1>4, <1>5, <1>25 DEF EliminarComentario, Muere, goods
<1>26. CASE SalesNext
  BY <1>2, <1>3, <1>7, <1>8, <1>9, <1>10, <1>11, <1>12, <1>13, <1>14, <1>15, <1>16,
     <1>17, <1>18, <1>26 DEF SalesNext
<1>27. CASE CommentsNext
  BY <1>19, <1>20, <1>21, <1>22, <1>23, <1>24, <1>25, <1>27 DEF CommentsNext
<1> QED
  BY <1>26, <1>27 DEF Next

\* what the options that keep all goods but the NULLs leave
LEMMA KeysKept ==
  ASSUME IInv, Next
  PROVE  Keys'
<1>1. CASE UNCHANGED <<productos, promociones, compras, item>>
  <2>1. GoodsType' /\ Codigo' = Codigo /\ Compra' = Compra
    BY <1>1 DEF IInv, Keys, GoodsType, Codigo, Compra
  <2> QED
    BY <1>1, <2>1, EntriesLeftAlone DEF IInv
<1>2. CASE CommentsNext
  <2>1. ASSUME NEW u \in Nick, NEW p
        PROVE  /\ CrearComentario(u, p) => UNCHANGED goods
               /\ CaeAlListarComentarios(u, p) => UNCHANGED goods
               /\ \A i : CrearHijo(u, p, i) => UNCHANGED goods
               /\ \A i : RespuestaRechazada(u, p, i) => UNCHANGED goods
    BY DEF CrearComentario, CaeAlListarComentarios, CrearHijo, RespuestaRechazada, Nuevo, Muere
  <2>2. ASSUME NEW u \in Nick
        PROVE  /\ CaeAlListarPropios(u) => UNCHANGED goods
               /\ \A i : EliminarComentario(u, i) => UNCHANGED goods
    BY DEF CaeAlListarPropios, EliminarComentario, Muere
  <2>3. ASSUME NEW p, BuscaProducto(p)
        PROVE  UNCHANGED <<productos, promociones, compras, item>>
    BY <2>3 DEF BuscaProducto
  <2> QED
    BY <1>1, <1>2, <2>1, <2>2, <2>3 DEF CommentsNext, goods
<1>3. CASE SalesNext
  <2>1. ASSUME NEW n \in Nick
        PROVE  /\ \A role : AltaUsuario(n, role) => UNCHANGED goods
               /\ BuscaUsuario(n) => UNCHANGED goods
               /\ ConsultarNotificaciones(n) => UNCHANGED goods
               /\ \A v : Suscribirse(n, v) => UNCHANGED goods
               /\ \A v : EliminarSuscripcion(n, v) => UNCHANGED goods
               /\ \A p : CaeAlListarCompras(n, p) => UNCHANGED goods
    BY DEF AltaUsuario, BuscaUsuario, ConsultarNotificaciones, Suscribirse,
           EliminarSuscripcion, CaeAlListarCompras, Muere
  <2>2. /\ CaeAlListarUsuarios => UNCHANGED goods
        /\ CaeAlListarProductos => UNCHANGED goods
        /\ SinVendedores => UNCHANGED goods
        /\ \A name : ConsultarPromocion(name) => UNCHANGED goods
    BY DEF CaeAlListarUsuarios, CaeAlListarProductos, SinVendedores, ConsultarPromocion, Muere
  <2>3. ASSUME NEW p, ConsultarProducto(p) \/ CodigoDesconocido(p)
        PROVE  UNCHANGED <<productos, promociones, compras, item>>
    BY <2>3 DEF ConsultarProducto, CodigoDesconocido
  <2>4. ASSUME UNCHANGED goods
        PROVE  Keys'
    BY <1>1, <2>4 DEF goods
  <2> QED
    BY <1>1, <1>3, <2>1, <2>2, <2>3, <2>4, AltaProductoKeys, CrearPromocionKeys, ComprarKeys,
       TerminarCompraKeys, EnviarProductoKeys, AgregarProductoKeys DEF SalesNext, IInv, Desk
<1> QED
  BY <1>2, <1>3 DEF Next

LEMMA Stuttering ==
  ASSUME IInv, UNCHANGED vars
  PROVE  IInv'
<1>1. UNCHANGED <<actor, pc, goods>>
  BY DEF vars, sales
<1>2. Keys'
  BY <1>1, SameGoods DEF IInv
<1>3. Desk'
  BY <1>1 DEF IInv, Desk, Compra, goods
<1> QED
  BY <1>2, <1>3 DEF IInv

\* The keys of Producto::compraProd are in order after any session.
THEOREM Invariance == Spec => []IInv
<1>1. Init => IInv
  BY InitKeys DEF IInv, Desk, Init, SalesInit
<1>2. IInv /\ [Next]_vars => IInv'
  BY KeysKept, DeskKept, Stuttering DEF IInv
<1> QED
  BY <1>1, <1>2, PTL DEF Spec

\* What menu j marks as sent is the CompraProd of the purchase it listed, and that
\* one had not been sent.
THEOREM MarkedIsListed == Spec => []ListedIsMarked
<1>1. IInv => ListedIsMarked
  <2> SUFFICES ASSUME IInv, NEW p \in Codigo, NEW id \in IdsCompras(p)
               PROVE  /\ id \in DOMAIN productos[p].compraProd
                      /\ productos[p].compraProd[id] = id
                      /\ ~item[<<p, id>>].enviado
    BY DEF ListedIsMarked
  <2>1. PICK k \in Pendientes(p) : id = productos[p].compraProd[k]
    BY DEF IdsCompras
  <2>2. k \in DOMAIN productos[p].compraProd /\ ~item[<<p, id>>].enviado
    BY <2>1 DEF Pendientes
  <2>3. CASE k = p
    BY <2>1, <2>2, <2>3 DEF IInv, Keys, OwnCodeIsAlias
  <2>4. CASE k # p
    BY <2>1, <2>2, <2>4 DEF IInv, Keys, KeyedByPurchase
  <2> QED
    BY <2>2, <2>3, <2>4
<1> QED
  BY <1>1, Invariance, PTL

\* A CompraProd is lost from the map only if the number of its purchase is the
\* code of its product.
THEOREM NoOtherCollision == Spec => []OnlyOwnCodeCollides
<1>1. IInv => OnlyOwnCodeCollides
  <2> SUFFICES ASSUME IInv, NEW i \in DOMAIN item, i[2] # i[1]
               PROVE  /\ i[2] \in DOMAIN productos[i[1]].compraProd
                      /\ productos[i[1]].compraProd[i[2]] = i[2]
    BY DEF OnlyOwnCodeCollides
  <2>1. i = <<i[1], i[2]>> /\ i[1] \in Codigo /\ i[2] \in Compra
    BY DEF IInv, Keys, GoodsType
  <2>2. i[2] \in DOMAIN productos[i[1]].compraProd
    BY <2>1 DEF IInv, Keys, Kept
  <2> QED
    BY <2>1, <2>2 DEF IInv, Keys, KeyedByPurchase
<1> QED
  BY <1>1, Invariance, PTL

\* The summary of a purchase never shows what was bought in another one.
THEOREM SummariesAreOwn == Spec => []SummaryIsOwn
<1>1. IInv => SummaryIsOwn
  <2> SUFFICES ASSUME IInv, pc = "comprando", NEW p \in Codigo, EnCompra(p)
               PROVE  productos[p].compraProd[p] = Len(compras)
    BY DEF SummaryIsOwn, Resumen
  <2> DEFINE b == productos[p].compraProd[p]
  <2>1. /\ Len(compras) \in Compra /\ <<p, Len(compras)>> \in DOMAIN item
        /\ compras \in Seq(Nick \cup {NOBODY}) /\ Compra = 1 .. Len(compras)
    BY DEF IInv, Desk, EnCompra, Keys, GoodsType, Compra
  <2>2. p \in DOMAIN productos[p].compraProd /\ Len(compras) <= b
    BY <2>1 DEF IInv, Keys, OwnCodeIsLatest
  <2>3. b \in Compra
    BY <2>2 DEF IInv, Keys, EntriesExist, GoodsType
  <2> QED
    BY <2>1, <2>2, <2>3
<1> QED
  BY <1>1, Invariance, PTL

-----------------------------------------------------------------------------
(***************************************************************************)
(* The walk through a comment and its answers.                              *)
(***************************************************************************)
Comentario == [autor : Nick, prod : Nat, padre : Nat]

\* an answer is made after what it answers
AnswersAreLater ==
  /\ comentario \in Seq(Comentario)
  /\ respuestas \subseteq ID \X ID
  /\ \A j, k \in ID : <<j, k>> \in respuestas => j < k

\* The walk finds the comment, all answers to what it finds, and nothing else.
LEMMA HiloIsClosed ==
  ASSUME AnswersAreLater, NEW i \in ID
  PROVE  /\ i \in Hilo(i) /\ Hilo(i) \subseteq ID
         /\ \A j, k \in ID : j \in Hilo(i) /\ <<j, k>> \in respuestas => k \in Hilo(i)
         /\ \A k \in Hilo(i) \ {i} : \E j \in Hilo(i) : <<j, k>> \in respuestas
<1> DEFINE L == Len(comentario)
           B == SUBSET ID
           Below(j) == {k \in ID : <<j, k>> \in respuestas}
           rank == [j \in ID |-> L - j]
           step == [y \in ID \X [ID -> B] |-> {y[1]} \cup UNION {y[2][k] : k \in Below(y[1])}]
           hilo[j \in ID] == {j} \cup UNION {hilo[k] : k \in {k \in ID : <<j, k>> \in respuestas}}
<1>1. L \in Nat /\ ID = 1 .. L
  BY DEF AnswersAreLater, ID
<1>2. \A j \in ID : \A k \in Below(j) : k \in ID /\ j < k
  BY DEF AnswersAreLater
<1> HIDE DEF L, Below
<1>3. rank \in [ID -> Nat] /\ \A j \in ID : rank[j] <= L
  BY <1>1
<1>4. step \in [ID \X [ID -> B] -> B]
  <2>1. ASSUME NEW j \in ID, NEW g \in [ID -> B]
        PROVE  {j} \cup UNION {g[k] : k \in Below(j)} \in B
    BY <1>2
  <2> QED
    BY <2>1
<1>5. ASSUME NEW j \in ID, NEW g \in [ID -> B]
      PROVE  step[<<j, g>>] = {j} \cup UNION {g[k] : k \in Below(j)}
  <2>1. <<j, g>> \in ID \X [ID -> B]
    OBVIOUS
  <2> HIDE DEF B, Below
  <2> QED
    BY <2>1
<1>6. ASSUME NEW j \in ID, NEW g \in [ID -> B], NEW h \in [ID -> B],
             \A k \in ID : rank[k] < rank[j] => g[k] = h[k]
      PROVE  step[<<j, g>>] = step[<<j, h>>]
  <2>1. \A k \in Below(j) : g[k] = h[k]
    BY <1>1, <1>2, <1>6
  <2>2. {g[k] : k \in Below(j)} = {h[k] : k \in Below(j)}
    BY <2>1
  <2> HIDE DEF B, Below, step
  <2> QED
    BY <1>5, <2>2
<1>7. PICK g : Solution(ID, B, step, g)
  <2>1. {} \in B
    OBVIOUS
  <2> HIDE DEF B, rank, step, hilo
  <2>2. Descends(ID, B, rank, step)
    BY <1>3, <1>4, <1>6 DEF Descends
  <2> QED
    BY <1>1, <1>3, <2>1, <2>2, RecursiveFunction
<1>8. hilo = [j \in ID |-> {j} \cup UNION {hilo[k] : k \in {k \in ID : <<j, k>> \in respuestas}}]
  <2>1. /\ g \in [ID -> B]
        /\ \A j \in ID : g[j] = {j} \cup UNION {g[k] : k \in {k \in ID : <<j, k>> \in respuestas}}
    <3>1. g \in [ID -> B] /\ \A j \in ID : g[j] = step[<<j, g>>]
      <4> HIDE DEF B, step, Below
      <4> QED
        BY <1>7 DEF Solution
    <3>2. \A j \in ID : g[j] = {j} \cup UNION {g[k] : k \in Below(j)}
      <4> HIDE DEF B, step, Below
      <4> QED
        BY <1>5, <3>1
    <3> HIDE DEF B, step, hilo
    <3> QED
      BY <3>1, <3>2 DEF Below
  <2> HIDE DEF B
  <2>2. g = [j \in ID |-> {j} \cup UNION {g[k] : k \in {k \in ID : <<j, k>> \in respuestas}}]
    BY <2>1
  <2> QED
    BY <2>2
<1>9. \A j \in ID : hilo[j] = {j} \cup UNION {hilo[k] : k \in Below(j)}
  BY <1>8 DEF Below
<1>10. Hilo(i) = hilo[i]
  BY DEF Hilo
<1> HIDE DEF hilo
<1> DEFINE Good(j) == /\ hilo[j] \subseteq ID
                      /\ \A l \in hilo[j] : \A k \in Below(l) : k \in hilo[j]
                      /\ \A k \in hilo[j] \ {j} : \E l \in hilo[j] : k \in Below(l)
           Fails == {n \in Nat : \E j \in ID : rank[j] < n /\ ~Good(j)}
<1>11. 0 \notin Fails
  BY <1>3
<1>12. ASSUME NEW n \in Nat, n \notin Fails
       PROVE  n + 1 \notin Fails
  <2> SUFFICES ASSUME NEW j \in ID, rank[j] < n + 1
               PROVE  Good(j)
    OBVIOUS
  <2>1. \A k \in Below(j) : k \in ID /\ Good(k)
    <3>1. \A k \in Below(j) : k \in ID /\ rank[k] < n
      BY <1>1, <1>2
    <3> QED
      BY <1>12, <3>1
  <2>2. hilo[j] = {j} \cup UNION {hilo[k] : k \in Below(j)}
    BY <1>9
  <2>3. hilo[j] \subseteq ID
    BY <2>1, <2>2
  <2>4. \A k \in Below(j) : k \in hilo[k]
    BY <1>2, <1>9
  <2>5. ASSUME NEW l \in hilo[j], NEW k \in Below(l)
        PROVE  k \in hilo[j]
    <3>1. CASE l = j
      BY <2>2, <2>4, <2>5, <3>1
    <3>2. CASE l # j
      <4>1. PICK m \in Below(j) : l \in hilo[m]
        BY <2>2, <3>2
      <4> QED
        BY <2>1, <2>2, <2>5, <4>1
    <3> QED
      BY <3>1, <3>2
  <2>6. ASSUME NEW k \in hilo[j] \ {j}
        PROVE  \E l \in hilo[j] : k \in Below(l)
    <3>1. PICK m \in Below(j) : k \in hilo[m]
      BY <2>2
    <3>2. CASE k = m
      BY <2>2, <3>1, <3>2
    <3>3. CASE k # m
      <4>1. PICK l \in hilo[m] : k \in Below(l)
        BY <2>1, <3>1, <3>3
      <4> QED
        BY <2>2, <3>1, <4>1
    <3> QED
      BY <3>2, <3>3
  <2> QED
    BY <2>3, <2>5, <2>6
<1>13. Good(i)
  <2>1. rank[i] < L + 1 /\ L + 1 \in Nat
    BY <1>1
  <2>2. L + 1 \notin Fails
    <3> HIDE DEF Fails
    <3> QED
      BY <1>11, <1>12, <2>1, NoCounterexample
  <2> QED
    BY <2>1, <2>2
<1>14. i \in hilo[i]
  BY <1>9
<1> QED
  BY <1>10, <1>13, <1>14 DEF Below

-----------------------------------------------------------------------------
(***************************************************************************)
(* Which options touch what.                                               *)
(***************************************************************************)
UsersTouched ==
  \/ \E n \in Nick :
       \/ \E role \in {"cliente", "vendedor"} : AltaUsuario(n, role)
       \/ BuscaUsuario(n)
       \/ ConsultarNotificaciones(n)
       \/ \E v \in Nick : Suscribirse(n, v) \/ EliminarSuscripcion(n, v)
       \/ \E name \in PromoName, minimo \in Minimos : CrearPromocion(n, name, minimo)

GoodsTouched ==
  \/ \E n \in Nick :
       \/ \E s \in Amount : AltaProducto(n, s)
       \/ \E name \in PromoName, minimo \in Minimos : CrearPromocion(n, name, minimo)
       \/ \E p \in Codigo, id \in Compra : EnviarProducto(n, p, id)
  \/ \E p \in Codigo, n \in Amount : AgregarProducto(p, n)

CommentsTouched ==
  \E u \in Nick :
    \/ \E p \in Codigo :
         \/ CrearComentario(u, p)
         \/ \E i \in 1 .. NuevoID : CrearHijo(u, p, i) \/ RespuestaRechazada(u, p, i)
    \/ \E i \in 1 .. NuevoID : EliminarComentario(u, i)

LEMMA SalesTouch ==
  ASSUME SalesNext
  PROVE  /\ UsersTouched \/ UNCHANGED <<users, promociones>>
         /\ GoodsTouched \/ UNCHANGED <<productos, promociones, item>>
<1> DEFINE U == UNCHANGED <<users, promociones>>
           G == UNCHANGED <<productos, promociones, item>>
<1>1. ASSUME NEW n \in Nick
      PROVE  /\ \A role : AltaUsuario(n, role) => G
             /\ BuscaUsuario(n) => G
             /\ ConsultarNotificaciones(n) => G
             /\ \A v : Suscribirse(n, v) => G
             /\ \A v : EliminarSuscripcion(n, v) => G
             /\ \A p : CaeAlListarCompras(n, p) => U /\ G
  BY DEF AltaUsuario, BuscaUsuario, ConsultarNotificaciones, Suscribirse, EliminarSuscripcion,
         CaeAlListarCompras, Muere, goods
<1>2. ASSUME NEW n \in Nick
      PROVE  /\ \A s : AltaProducto(n, s) => U
             /\ Comprar(n) => U /\ G
             /\ \A p, id : EnviarProducto(n, p, id) => U
  BY DEF AltaProducto, Comprar, EnviarProducto, Muere, goods
<1>3. /\ CaeAlListarUsuarios => U /\ G
      /\ CaeAlListarProductos => U /\ G
      /\ SinVendedores => U /\ G
      /\ \A name : ConsultarPromocion(name) => U /\ G
  BY DEF CaeAlListarUsuarios, CaeAlListarProductos, SinVendedores, ConsultarPromocion, Muere, goods
<1>4. /\ \A p : ConsultarProducto(p) => U /\ G
      /\ \A p : CodigoDesconocido(p) => U /\ G
      /\ \A confirma : TerminarCompra(confirma) => U /\ G
  BY DEF ConsultarProducto, CodigoDesconocido, TerminarCompra
<1>5. \A p, n : AgregarProducto(p, n) => U
  BY DEF AgregarProducto, Muere, goods
<1> HIDE DEF U, G
<1>6. UsersTouched \/ U
  BY <1>1, <1>2, <1>3, <1>4, <1>5 DEF SalesNext, UsersTouched
<1>7. GoodsTouched \/ G
  BY <1>1, <1>2, <1>3, <1>4, <1>5 DEF SalesNext, GoodsTouched
<1> QED
  BY <1>6, <1>7 DEF U, G

LEMMA CommentsTouch ==
  ASSUME CommentsNext
  PROVE  /\ UNCHANGED <<users, promociones>>
         /\ UNCHANGED <<productos, promociones, item>>
         /\ CommentsTouched \/ UNCHANGED comments
<1> DEFINE G == UNCHANGED <<users, promociones, productos, item>>
<1>1. ASSUME NEW u, NEW p
      PROVE  /\ CrearComentario(u, p) => G
             /\ \A i : CrearHijo(u, p, i) => G
             /\ \A i : RespuestaRechazada(u, p, i) => G
  BY DEF CrearComentario, CrearHijo, Nuevo, RespuestaRechazada, goods
<1>2. ASSUME NEW u, NEW p
      PROVE  /\ CaeAlListarComentarios(u, p) => G /\ UNCHANGED comments
             /\ BuscaProducto(p) => G /\ UNCHANGED comments
             /\ CaeAlListarPropios(u) => G /\ UNCHANGED comments
             /\ \A i : EliminarComentario(u, i) => G
  BY DEF CaeAlListarComentarios, BuscaProducto, CaeAlListarPropios, EliminarComentario, Muere, goods
<1> HIDE DEF G
<1>3. G
  BY <1>1, <1>2 DEF CommentsNext
<1>4. CommentsTouched \/ UNCHANGED comments
  BY <1>2 DEF CommentsNext, CommentsTouched
<1> QED
  BY <1>3, <1>4 DEF G

LEMMA Touch ==
  ASSUME [Next]_vars
  PROVE  /\ UsersTouched \/ UNCHANGED <<users, promociones>>
         /\ GoodsTouched \/ UNCHANGED <<productos, promociones, item>>
         /\ CommentsTouched \/ UNCHANGED comments
<1>1. UNCHANGED vars => UNCHANGED <<users, promociones, productos, item, comments>>
  BY DEF vars, sales, goods
<1> QED
  BY <1>1, SalesTouch, CommentsTouch DEF Next

-----------------------------------------------------------------------------
(***************************************************************************)
(* Who is told of a promotion. What a client has read, with what is still  *)
(* to be read, is one sequence, that reading only reorders.                *)
(***************************************************************************)
Once(s, q)  == \E k \in DOMAIN s : \A j \in DOMAIN s : s[j] = q <=> j = k
Never(s, q) == \A j \in DOMAIN s : s[j] # q

UsersType ==
  /\ colUsuarios \in [Nick -> {"none", "null", "cliente", "vendedor"}]
  /\ colSuscripciones \in [Nick -> SUBSET Nick]
  /\ suscriptores \in [Nick -> SUBSET Nick]
  /\ notificaciones \in [Nick -> Seq(DOMAIN promociones)]
  /\ leidas \in [Nick -> Seq(DOMAIN promociones)]

\* a subscription is known to both sides
SidesAgree == \A c, v \in Nick : c \in suscriptores[v] <=> v \in colSuscripciones[c]

Delivered ==
  \A c \in Nick, q \in DOMAIN promociones :
    IF c \in promociones[q].audience THEN Once(leidas[c] \o notificaciones[c], q)
                                     ELSE Never(leidas[c] \o notificaciones[c], q)

Subscribers == UsersType /\ SidesAgree /\ Delivered

\* reading the stack from the top turns around what was to be read
LEMMA ReadInReverse ==
  ASSUME NEW S, NEW a \in Seq(S), NEW b \in Seq(S), NEW q
  PROVE  /\ (a \o Reverse(b)) \o <<>> \in Seq(S)
         /\ a \o Reverse(b) \in Seq(S)
         /\ Once(a \o b, q) => Once((a \o Reverse(b)) \o <<>>, q)
         /\ Never(a \o b, q) => Never((a \o Reverse(b)) \o <<>>, q)
<1> DEFINE m == Len(a)
           n == Len(b)
           s == a \o b
           t == (a \o Reverse(b)) \o <<>>
           other(k) == IF k <= m THEN k ELSE 2 * m + n + 1 - k
<1>1. m \in Nat /\ n \in Nat
  OBVIOUS
<1>2. /\ Reverse(b) \in Seq(S) /\ Len(Reverse(b)) = n
      /\ \A i \in 1 .. n : Reverse(b)[i] = b[n - i + 1]
  BY DEF Reverse
<1>3. /\ s \in Seq(S) /\ Len(s) = m + n
      /\ \A i \in 1 .. m : s[i] = a[i]
      /\ \A i \in m + 1 .. m + n : s[i] = b[i - m]
  OBVIOUS
<1>4. /\ a \o Reverse(b) \in Seq(S) /\ t = a \o Reverse(b)
  BY <1>2
<1>5. /\ Len(t) = m + n
      /\ \A i \in 1 .. m : t[i] = a[i]
      /\ \A i \in m + 1 .. m + n : t[i] = b[n - (i - m) + 1]
  <2> DEFINE r == Reverse(b)
  <2>1. r \in Seq(S) /\ Len(r) = n /\ \A i \in 1 .. n : r[i] = b[n - i + 1]
    BY <1>2
  <2> HIDE DEF r
  <2>2. /\ Len(a \o r) = m + n
        /\ \A i \in 1 .. m : (a \o r)[i] = a[i]
        /\ \A i \in m + 1 .. m + n : (a \o r)[i] = r[i - m]
    <3>1. \A c, d \in Seq(S) : /\ Len(c \o d) = Len(c) + Len(d)
                               /\ \A i \in 1 .. Len(c) : (c \o d)[i] = c[i]
                               /\ \A i \in Len(c) + 1 .. Len(c) + Len(d) : (c \o d)[i] = d[i - Len(c)]
      OBVIOUS
    <3> QED
      BY <2>1, <3>1
  <2>3. \A i \in m + 1 .. m + n : i - m \in 1 .. n
    BY <1>1
  <2>4. \A i \in m + 1 .. m + n : r[i - m] = b[n - (i - m) + 1]
    BY <2>1, <2>3
  <2>5. t = a \o r
    BY <1>4 DEF r
  <2> HIDE DEF t, m, n
  <2> QED
    BY <2>2, <2>4, <2>5
<1> HIDE DEF m, n, s, t
<1>6. DOMAIN s = 1 .. m + n /\ DOMAIN t = 1 .. m + n
  BY <1>3, <1>4, <1>5
<1>7. \A k \in 1 .. m + n : other(k) \in 1 .. m + n /\ other(other(k)) = k
  BY <1>1
<1>8. \A k \in 1 .. m + n : t[k] = s[other(k)]
  BY <1>1, <1>3, <1>5
<1> HIDE DEF other
<1>9. ASSUME NEW k \in DOMAIN s, \A j \in DOMAIN s : s[j] = q <=> j = k
      PROVE  Once(t, q)
  <2>1. other(k) \in DOMAIN t /\ \A j \in DOMAIN t : t[j] = q <=> j = other(k)
    BY <1>6, <1>7, <1>8, <1>9
  <2> QED
    BY <2>1 DEF Once
<1>10. Never(s, q) => Never(t, q)
  BY <1>6, <1>7, <1>8 DEF Never
<1> QED
  BY <1>4, <1>9, <1>10 DEF s, t, Once

LEMMA OneMoreToRead ==
  ASSUME NEW n \in Nat, NEW a \in Seq(1 .. n), NEW b \in Seq(1 .. n)
  PROVE  /\ a \in Seq(1 .. n + 1) /\ b \in Seq(1 .. n + 1)
         /\ Append(b, n + 1) \in Seq(1 .. n + 1)
         /\ Never(a \o b, n + 1)
         /\ Once(a \o Append(b, n + 1), n + 1)
         /\ \A q \in 1 .. n : /\ Once(a \o b, q) => Once(a \o Append(b, n + 1), q)
                              /\ Never(a \o b, q) => Never(a \o Append(b, n + 1), q)
<1> DEFINE s == a \o b
           t == a \o Append(b, n + 1)
           l == Len(a) + Len(b)
<1>1. /\ s \in Seq(1 .. n) /\ Len(s) = l /\ l \in Nat /\ DOMAIN s = 1 .. l
      /\ \A i \in 1 .. l : s[i] \in 1 .. n
  OBVIOUS
<1>2. a \in Seq(1 .. n + 1) /\ b \in Seq(1 .. n + 1)
  OBVIOUS
<1>3. Append(b, n + 1) \in Seq(1 .. n + 1)
  BY <1>2
<1>4. /\ DOMAIN t = 1 .. l + 1
      /\ \A i \in 1 .. l : t[i] = s[i]
      /\ t[l + 1] = n + 1
  BY <1>2, <1>3
<1> HIDE DEF s, t, l
<1>5. Never(s, n + 1)
  BY <1>1 DEF Never
<1>6. Once(t, n + 1)
  <2>1. l + 1 \in DOMAIN t
    BY <1>1, <1>4
  <2>2. \A j \in DOMAIN t : t[j] = n + 1 <=> j = l + 1
    BY <1>1, <1>4
  <2> QED
    BY <2>1, <2>2 DEF Once
<1>7. ASSUME NEW q \in 1 .. n, Once(s, q)
      PROVE  Once(t, q)
  <2>1. PICK k \in DOMAIN s : \A j \in DOMAIN s : s[j] = q <=> j = k
    BY <1>7 DEF Once
  <2>2. k \in DOMAIN t /\ \A j \in DOMAIN t : t[j] = q <=> j = k
    BY <1>1, <1>4, <2>1
  <2> QED
    BY <2>2 DEF Once
<1>8. ASSUME NEW q \in 1 .. n, Never(s, q)
      PROVE  Never(t, q)
  BY <1>1, <1>4, <1>8 DEF Never
<1> QED
  BY <1>2, <1>3, <1>5, <1>6, <1>7, <1>8 DEF s, t

\* the vendor notifies those whose own side has the subscription
LEMMA CrearPromocionDelivers ==
  ASSUME Keys, Subscribers, NEW v \in Nick, NEW name \in PromoName, NEW minimo \in Minimos,
         CrearPromocion(v, name, minimo)
  PROVE  Subscribers'
<1>1. CASE UNCHANGED <<users, promociones>>
  BY <1>1 DEF Subscribers, UsersType, SidesAgree, Delivered, users
<1> DEFINE n == Len(promociones)
           nueva == [nombre |-> name, minimo |-> PromProductos(minimo),
                     audience |-> {c \in Nick : v \in colSuscripciones[c]}]
<1>2. CASE /\ promociones' = Append(promociones, nueva)
           /\ notificaciones' = [c \in Nick |-> IF c \in suscriptores[v]
                                                THEN Append(notificaciones[c], n + 1)
                                                ELSE notificaciones[c]]
           /\ UNCHANGED <<colUsuarios, colSuscripciones, suscriptores, leidas>>
  <2>1. /\ n \in Nat /\ DOMAIN promociones = 1 .. n
        /\ DOMAIN promociones' = 1 .. n + 1
        /\ \A q \in 1 .. n : promociones'[q] = promociones[q]
        /\ promociones'[n + 1] = nueva
    BY <1>2 DEF Keys, GoodsType
  <2>2. nueva.audience = {c \in Nick : c \in suscriptores[v]}
    BY DEF Subscribers, SidesAgree
  <2> HIDE DEF n, nueva
  <2>3. ASSUME NEW c \in Nick
        PROVE  /\ leidas[c] \in Seq(1 .. n) /\ notificaciones[c] \in Seq(1 .. n)
               /\ leidas'[c] = leidas[c]
               /\ notificaciones'[c] = IF c \in suscriptores[v]
                                       THEN Append(notificaciones[c], n + 1)
                                       ELSE notificaciones[c]
    BY <1>2, <2>1 DEF Subscribers, UsersType
  <2>4. UsersType'
    <3>1. ASSUME NEW c \in Nick
          PROVE  /\ leidas'[c] \in Seq(1 .. n + 1)
                 /\ notificaciones'[c] \in Seq(1 .. n + 1)
      BY <2>1, <2>3, OneMoreToRead
    <3>2. DOMAIN leidas' = Nick /\ leidas' = [c \in DOMAIN leidas' |-> leidas'[c]]
      BY <1>2 DEF Subscribers, UsersType
    <3>3. leidas' \in [Nick -> Seq(1 .. n + 1)]
      BY <3>1, <3>2
    <3>4. notificaciones' \in [Nick -> Seq(1 .. n + 1)]
      <4>1. DOMAIN notificaciones' = Nick
                /\ notificaciones' = [c \in DOMAIN notificaciones' |-> notificaciones'[c]]
        BY <1>2
      <4> QED
        BY <3>1, <4>1
    <3> QED
      BY <1>2, <2>1, <3>3, <3>4 DEF Subscribers, UsersType
  <2>5. SidesAgree'
    BY <1>2 DEF Subscribers, SidesAgree
  <2>6. Delivered'
    <3> SUFFICES ASSUME NEW c \in Nick, NEW q \in 1 .. n + 1
                 PROVE  IF c \in promociones'[q].audience
                        THEN Once(leidas'[c] \o notificaciones'[c], q)
                        ELSE Never(leidas'[c] \o notificaciones'[c], q)
      BY <2>1 DEF Delivered
    <3>1. CASE q = n + 1
      <4>1. c \in promociones'[q].audience <=> c \in suscriptores[v]
        BY <2>1, <2>2, <3>1
      <4> QED
        BY <2>1, <2>3, <3>1, <4>1, OneMoreToRead
    <3>2. CASE q # n + 1
      <4>1. q \in 1 .. n
        BY <2>1, <3>2
      <4>2. IF c \in promociones'[q].audience THEN Once(leidas[c] \o notificaciones[c], q)
                                              ELSE Never(leidas[c] \o notificaciones[c], q)
        BY <2>1, <4>1 DEF Subscribers, Delivered
      <4> QED
        BY <2>1, <2>3, <4>1, <4>2, OneMoreToRead
    <3> QED
      BY <3>1, <3>2
  <2> QED
    BY <2>4, <2>5, <2>6 DEF Subscribers
<1> QED
  BY <1>1, <1>2 DEF CrearPromocion, Muere, goods

LEMMA ConsultarNotificacionesReads ==
  ASSUME Keys, Subscribers, NEW c \in Nick, ConsultarNotificaciones(c)
  PROVE  Subscribers'
<1> DEFINE D == DOMAIN promociones
           a == leidas[c]
           b == notificaciones[c]
<1>1. a \in Seq(D) /\ b \in Seq(D)
  BY DEF Subscribers, UsersType
<1>2. promociones' = promociones /\ UNCHANGED <<colUsuarios, colSuscripciones, suscriptores>>
  BY DEF ConsultarNotificaciones, goods
<1>3. /\ leidas' = [leidas EXCEPT ![c] = a \o Reverse(b)]
      /\ notificaciones' = [notificaciones EXCEPT ![c] = <<>>]
  BY DEF ConsultarNotificaciones
<1>4. a \o Reverse(b) \in Seq(D) /\ <<>> \in Seq(D)
  BY <1>1, ReadInReverse
<1>5. UsersType'
  <2> HIDE DEF D, a, b
  <2>1. leidas' \in [Nick -> Seq(D)] /\ notificaciones' \in [Nick -> Seq(D)]
    BY <1>3, <1>4 DEF Subscribers, UsersType, D
  <2> QED
    BY <1>2, <2>1 DEF Subscribers, UsersType, D
<1>6. SidesAgree'
  BY <1>2 DEF Subscribers, SidesAgree
<1>7. Delivered'
  <2> SUFFICES ASSUME NEW e \in Nick, NEW q \in D
               PROVE  IF e \in promociones[q].audience
                      THEN Once(leidas'[e] \o notificaciones'[e], q)
                      ELSE Never(leidas'[e] \o notificaciones'[e], q)
    BY <1>2 DEF Delivered
  <2>1. IF e \in promociones[q].audience THEN Once(leidas[e] \o notificaciones[e], q)
                                         ELSE Never(leidas[e] \o notificaciones[e], q)
    BY DEF Subscribers, Delivered
  <2>2. CASE e = c
    <3>1. leidas'[e] = a \o Reverse(b) /\ notificaciones'[e] = <<>>
      BY <1>3, <2>2 DEF Subscribers, UsersType
    <3>2. IF e \in promociones[q].audience THEN Once(a \o b, q) ELSE Never(a \o b, q)
      BY <2>1, <2>2
    <3> HIDE DEF a, b, D
    <3> QED
      BY <1>1, <3>1, <3>2, ReadInReverse
  <2>3. CASE e # c
    <3>1. leidas'[e] = leidas[e] /\ notificaciones'[e] = notificaciones[e]
      BY <1>3, <2>3 DEF Subscribers, UsersType
    <3> QED
      BY <2>1, <3>1
  <2> QED
    BY <2>2, <2>3
<1> QED
  BY <1>5, <1>6, <1>7 DEF Subscribers

LEMMA SubscribersKept ==
  ASSUME IInv, Subscribers, [Next]_vars
  PROVE  Subscribers'
<1>1. CASE UNCHANGED <<users, promociones>>
  BY <1>1 DEF Subscribers, UsersType, SidesAgree, Delivered, users
<1>2. ASSUME NEW n \in Nick,
             (\E role \in {"cliente", "vendedor"} : AltaUsuario(n, role)) \/ BuscaUsuario(n)
      PROVE  Subscribers'
  <2>1. /\ UNCHANGED <<colSuscripciones, suscriptores, notificaciones, leidas, promociones>>
        /\ \E x \in {"null", "cliente", "vendedor"} :
             colUsuarios' = [colUsuarios EXCEPT ![n] = x]
    BY <1>2 DEF AltaUsuario, BuscaUsuario, goods
  <2>2. UsersType'
    BY <2>1 DEF Subscribers, UsersType
  <2> QED
    BY <2>1, <2>2 DEF Subscribers, SidesAgree, Delivered
<1>3. ASSUME NEW c \in Nick, NEW v \in Nick, Suscribirse(c, v) \/ EliminarSuscripcion(c, v)
      PROVE  Subscribers'
  <2>1. CASE UNCHANGED <<users, promociones>>
    BY <1>1, <2>1
  <2>2. ASSUME NEW A \in SUBSET Nick, NEW B \in SUBSET Nick,
               UNCHANGED <<colUsuarios, notificaciones, leidas, promociones>>,
               colSuscripciones' = [colSuscripciones EXCEPT ![c] = A],
               suscriptores' = [suscriptores EXCEPT ![v] = B],
               \A w \in Nick \ {v} : w \in A <=> w \in colSuscripciones[c],
               \A d \in Nick \ {c} : d \in B <=> d \in suscriptores[v],
               c \in B <=> v \in A
        PROVE  Subscribers'
    <3>1. UsersType'
      BY <2>2 DEF Subscribers, UsersType
    <3>2. \A d, w \in Nick : /\ colSuscripciones'[d] = IF d = c THEN A ELSE colSuscripciones[d]
                             /\ suscriptores'[w] = IF w = v THEN B ELSE suscriptores[w]
      BY <2>2 DEF Subscribers, UsersType
    <3>3. SidesAgree'
      BY <2>2, <3>2 DEF Subscribers, SidesAgree
    <3>4. Delivered'
      BY <2>2 DEF Subscribers, Delivered
    <3> QED
      BY <3>1, <3>3, <3>4 DEF Subscribers
  <2>3. colSuscripciones[c] \in SUBSET Nick /\ suscriptores[v] \in SUBSET Nick
    BY DEF Subscribers, UsersType
  <2>4. ASSUME UNCHANGED <<colUsuarios, notificaciones, leidas, promociones>>,
               colSuscripciones' = [colSuscripciones EXCEPT ![c] = @ \cup {v}],
               suscriptores' = [suscriptores EXCEPT ![v] = @ \cup {c}]
        PROVE  Subscribers'
    <3> DEFINE A == colSuscripciones[c] \cup {v}
               B == suscriptores[v] \cup {c}
    <3>1. /\ A \in SUBSET Nick /\ B \in SUBSET Nick
          /\ \A w \in Nick \ {v} : w \in A <=> w \in colSuscripciones[c]
          /\ \A d \in Nick \ {c} : d \in B <=> d \in suscriptores[v]
          /\ c \in B <=> v \in A
      BY <2>3
    <3>2. /\ colSuscripciones' = [colSuscripciones EXCEPT ![c] = A]
          /\ suscriptores' = [suscriptores EXCEPT ![v] = B]
      BY <2>4
    <3> HIDE DEF A, B
    <3> QED
      BY <2>2, <2>4, <3>1, <3>2
  <2>5. ASSUME UNCHANGED <<colUsuarios, notificaciones, leidas, promociones>>,
               colSuscripciones' = [colSuscripciones EXCEPT ![c] = @ \ {v}],
               suscriptores' = [suscriptores EXCEPT ![v] = @ \ {c}]
        PROVE  Subscribers'
    <3> DEFINE A == colSuscripciones[c] \ {v}
               B == suscriptores[v] \ {c}
    <3>1. /\ A \in SUBSET Nick /\ B \in SUBSET Nick
          /\ \A w \in Nick \ {v} : w \in A <=> w \in colSuscripciones[c]
          /\ \A d \in Nick \ {c} : d \in B <=> d \in suscriptores[v]
          /\ c \in B <=> v \in A
      BY <2>3
    <3>2. /\ colSuscripciones' = [colSuscripciones EXCEPT ![c] = A]
          /\ suscriptores' = [suscriptores EXCEPT ![v] = B]
      BY <2>5
    <3> HIDE DEF A, B
    <3> QED
      BY <2>2, <2>5, <3>1, <3>2
  <2> QED
    BY <1>3, <2>1, <2>4, <2>5 DEF Suscribirse, EliminarSuscripcion, Muere, goods
<1> QED
  BY <1>1, <1>2, <1>3, CrearPromocionDelivers, ConsultarNotificacionesReads, Touch
     DEF UsersTouched, IInv

LEMMA InitSubscribers == Init => Subscribers
<1> SUFFICES ASSUME Init PROVE Subscribers
  OBVIOUS
<1>1. promociones = <<>> /\ DOMAIN promociones = {}
  BY DEF Init, SalesInit
<1>2. UsersType
  BY DEF Init, SalesInit, UsersType
<1>3. SidesAgree
  BY DEF Init, SalesInit, SidesAgree
<1> QED
  BY <1>1, <1>2, <1>3 DEF Subscribers, Delivered

\* Every promotion is delivered once to each client who was subscribed to the vendor,
\* and to nobody else, whatever was subscribed to, cancelled and read in between.
THEOREM SubscribersNotified == Spec => []SubscribersAreNotified
<1>1. Init => IInv /\ Subscribers
  BY InitKeys, InitSubscribers DEF IInv, Desk, Init, SalesInit
<1>2. IInv /\ Subscribers /\ [Next]_vars => (IInv /\ Subscribers)'
  BY KeysKept, DeskKept, Stuttering, SubscribersKept DEF IInv
<1>3. IInv /\ Subscribers => SubscribersAreNotified
  <2> SUFFICES ASSUME Subscribers, NEW c \in Nick, NEW q \in DOMAIN promociones
               PROVE  LET got == leidas[c] \o notificaciones[c]
                      IN  Cardinality({k \in DOMAIN got : got[k] = q})
                            = IF c \in promociones[q].audience THEN 1 ELSE 0
    BY DEF SubscribersAreNotified
  <2> DEFINE got == leidas[c] \o notificaciones[c]
             A == {k \in DOMAIN got : got[k] = q}
  <2>1. CASE c \in promociones[q].audience
    <3>1. Once(got, q)
      BY <2>1 DEF Subscribers, Delivered
    <3>2. \E k \in DOMAIN got : A = {k}
      BY <3>1 DEF Once
    <3> HIDE DEF got, A
    <3>3. Cardinality(A) = 1
      BY <3>2, FS_Singleton
    <3> QED
      BY <2>1, <3>3 DEF A, got
  <2>2. CASE c \notin promociones[q].audience
    <3>1. Never(got, q)
      BY <2>2 DEF Subscribers, Delivered
    <3>2. A = {}
      BY <3>1 DEF Never
    <3> HIDE DEF got, A
    <3>3. Cardinality(A) = 0
      BY <3>2, FS_EmptySet
    <3> QED
      BY <2>2, <3>3 DEF A, got
  <2> QED
    BY <2>1, <2>2
<1> QED
  BY <1>1, <1>2, <1>3, PTL DEF Spec

-----------------------------------------------------------------------------
(***************************************************************************)
(* The stock. A product's promotion has an entry for it, so a purchase is  *)
(* never cut short between the CompraProd and the stock.                   *)
(***************************************************************************)
Taken(p)      == {i \in DOMAIN item : i[1] = p}
Quantities(p) == [i \in Taken(p) |-> item[i].cantidad]

StockType ==
  /\ IsFiniteSet(DOMAIN item)
  /\ \A i \in DOMAIN item : item[i] \in [cantidad : Nat, enviado : BOOLEAN]
  /\ \A p \in Codigo : productos[p].promo \in DOMAIN promociones \cup {0}

PromosHaveThem == \A p \in Codigo : PromoLoTiene(p)

StockLeft ==
  \A p \in Codigo :
    /\ productos[p].stock <= productos[p].alta
    /\ Total(Taken(p), Quantities(p), productos[p].alta - productos[p].stock)

Stock == StockType /\ PromosHaveThem /\ StockLeft

\* what StockIsConserved adds up, with MapThenSumSet written out
Sum(S) ==
  LET iter[s \in SUBSET S] ==
        IF s = {} THEN 0
        ELSE LET x == CHOOSE x \in s : TRUE
             IN  item[x].cantidad + iter[s \ {x}]
  IN  iter[S]

LEMMA SumOfQuantities ==
  ASSUME NEW S, IsFiniteSet(S), \A i \in S : item[i].cantidad \in Nat
  PROVE  Total(S, [i \in S |-> item[i].cantidad], Sum(S))
<1> DEFINE f == [i \in S |-> item[i].cantidad]
           iter[s \in SUBSET S] ==
             IF s = {} THEN 0
             ELSE LET x == CHOOSE x \in s : TRUE
                  IN  item[x].cantidad + iter[s \ {x}]
<1>1. f \in [S -> Nat]
  OBVIOUS
<1>2. Sum(S) = iter[S]
  BY DEF Sum
<1>3. PICK g : Totals(S, f, g)
  BY <1>1, TotalsExist
<1>4. \A s \in SUBSET S : s # {} => f[Some(s)] = item[CHOOSE x \in s : TRUE].cantidad
  BY SomeIsElement DEF Some
<1>5. g = [s \in SUBSET S |-> IF s = {} THEN 0
                              ELSE LET x == CHOOSE x \in s : TRUE
                                   IN  item[x].cantidad + g[s \ {x}]]
  <2>1. \A s \in SUBSET S : g[s] = IF s = {} THEN 0
                                   ELSE LET x == CHOOSE x \in s : TRUE
                                        IN  item[x].cantidad + g[s \ {x}]
    <3> HIDE DEF f
    <3> QED
      BY <1>3, <1>4 DEF Totals, Some
  <2>2. g = [s \in SUBSET S |-> g[s]]
    BY <1>3 DEF Totals
  <2> QED
    BY <2>1, <2>2
<1>6. iter = [s \in SUBSET S |-> IF s = {} THEN 0
                                 ELSE LET x == CHOOSE x \in s : TRUE
                                      IN  item[x].cantidad + iter[s \ {x}]]
  BY <1>5
<1> HIDE DEF iter
<1>7. iter = [s \in SUBSET S |-> IF s = {} THEN 0 ELSE f[Some(s)] + iter[s \ {Some(s)}]]
  <2>1. \A s \in SUBSET S : iter[s] = IF s = {} THEN 0 ELSE f[Some(s)] + iter[s \ {Some(s)}]
    <3> HIDE DEF f
    <3> QED
      BY <1>4, <1>6 DEF Some
  <2>2. iter = [s \in SUBSET S |-> iter[s]]
    BY <1>6
  <2> QED
    BY <2>1, <2>2
<1>8. Totals(S, f, iter)
  <2> HIDE DEF f
  <2> QED
    BY <1>1, <1>7, DefinedTotals
<1> QED
  BY <1>2, <1>8 DEF Total

\* an option under which the product keeps its CompraProds keeps its sum
LEMMA SameQuantities ==
  ASSUME Stock, NEW p \in Codigo,
         Taken(p)' = Taken(p), \A i \in Taken(p) : item'[i].cantidad = item[i].cantidad,
         productos'[p].stock = productos[p].stock, productos'[p].alta = productos[p].alta
  PROVE  /\ productos'[p].stock <= productos'[p].alta
         /\ Total(Taken(p), Quantities(p), productos[p].alta - productos[p].stock)'
<1>1. Quantities(p)' = Quantities(p)
  BY DEF Quantities
<1>2. Total(Taken(p), Quantities(p), productos[p].alta - productos[p].stock)
  BY DEF Stock, StockLeft
<1>3. Total(Taken(p)', Quantities(p)', productos'[p].alta - productos'[p].stock)
  BY <1>1, <1>2
<1> QED
  BY <1>3 DEF Stock, StockLeft

LEMMA AltaProductoStock ==
  ASSUME Keys, Stock, NEW v \in Nick, NEW s \in Amount, AltaProducto(v, s)
  PROVE  Stock'
<1> DEFINE nuevo == [vend |-> v, alta |-> s, stock |-> s, promo |-> 0,
                     compraProd |-> [k \in {} |-> 0]]
           n == Len(productos)
<1>1. /\ productos' = Append(productos, nuevo) /\ productos \in Seq(Producto)
      /\ item' = item /\ promociones' = promociones
  BY DEF Keys, GoodsType, AltaProducto
<1>2. nuevo.stock = s /\ nuevo.alta = s /\ nuevo.promo = 0
  OBVIOUS
<1> HIDE DEF nuevo
<1>3. /\ n \in Nat /\ Codigo = 1 .. n /\ Codigo' = 1 .. n + 1
      /\ \A p \in Codigo : productos'[p] = productos[p]
      /\ productos'[n + 1] = nuevo
  <2>1. productos' = Append(productos, nuevo) /\ DOMAIN productos' = 1 .. Len(productos) + 1
    BY <1>1
  <2> QED
    BY <1>1, <2>1 DEF Codigo
<1> HIDE DEF n
<1>4. \A p \in Codigo' : p \in Codigo \/ (p = n + 1 /\ p \notin Codigo)
  BY <1>3
<1>5. StockType'
  <2>1. \A p \in Codigo' : productos'[p].promo \in DOMAIN promociones' \cup {0}
    BY <1>1, <1>2, <1>3, <1>4 DEF Stock, StockType
  <2> QED
    BY <1>1, <2>1 DEF Stock, StockType
<1>6. PromosHaveThem'
  BY <1>1, <1>2, <1>3, <1>4 DEF Stock, PromosHaveThem, PromoLoTiene
<1>7. StockLeft'
  <2> SUFFICES ASSUME NEW p \in Codigo'
               PROVE  /\ productos'[p].stock <= productos'[p].alta
                      /\ Total(Taken(p), Quantities(p), productos[p].alta - productos[p].stock)'
    BY DEF StockLeft
  <2>1. CASE p \in Codigo
    BY <1>1, <1>3, <2>1, SameQuantities DEF Taken
  <2>2. CASE p = n + 1 /\ p \notin Codigo
    <3>1. Taken(p)' = {}
      BY <1>1, <2>2 DEF Taken, Keys, GoodsType
    <3>2. s \in Nat /\ productos'[p].stock = s /\ productos'[p].alta = s
      BY <1>2, <1>3, <2>2, ShopAssumption
    <3>3. productos'[p].stock <= productos'[p].alta /\ productos'[p].alta - productos'[p].stock = 0
      BY <3>2
    <3>4. Total(Taken(p)', Quantities(p)', 0)
      BY <3>1, TotalOfNone
    <3> QED
      BY <3>3, <3>4
  <2> QED
    BY <1>4, <2>1, <2>2
<1> QED
  BY <1>5, <1>6, <1>7 DEF Stock

LEMMA CrearPromocionStock ==
  ASSUME Keys, Stock, NEW v \in Nick, NEW name \in PromoName, NEW minimo \in Minimos,
         CrearPromocion(v, name, minimo)
  PROVE  Stock'
<1> DEFINE q == Len(promociones) + 1
           nueva == [nombre |-> name, minimo |-> PromProductos(minimo),
                     audience |-> {c \in Nick : v \in colSuscripciones[c]}]
<1>1. CASE UNCHANGED <<productos, promociones, item>>
  <2>1. \A p \in Codigo : Taken(p)' = Taken(p)
    BY <1>1 DEF Taken
  <2>2. StockLeft'
    BY <1>1, <2>1, SameQuantities DEF StockLeft, Codigo
  <2> QED
    BY <1>1, <2>2 DEF Stock, StockType, PromosHaveThem, PromoLoTiene, Codigo
<1>2. CASE /\ promociones' = Append(promociones, nueva)
           /\ productos' = [p \in Codigo |->
                [productos[p] EXCEPT !.promo = IF p \in DOMAIN minimo THEN q ELSE @]]
           /\ item' = item
  <2>1. nueva.minimo = PromProductos(minimo) /\ DOMAIN PromProductos(minimo) = DOMAIN minimo
    BY DEF PromProductos
  <2> HIDE DEF nueva
  <2>2. /\ q \in Nat \ {0} /\ DOMAIN promociones = 1 .. q - 1 /\ DOMAIN promociones' = 1 .. q
        /\ \A r \in 1 .. q - 1 : promociones'[r] = promociones[r]
        /\ promociones'[q] = nueva
    <3>1. promociones \in Seq(Promocion) /\ promociones' = Append(promociones, nueva)
      BY <1>2 DEF Keys, GoodsType
    <3> QED
      BY <3>1
  <2>3. ASSUME NEW p \in Codigo
        PROVE  /\ productos'[p].promo = IF p \in DOMAIN minimo THEN q ELSE productos[p].promo
               /\ productos'[p].alta = productos[p].alta
               /\ productos'[p].stock = productos[p].stock
    <3>1. productos[p] \in Producto
      BY DEF Keys, GoodsType, Codigo
    <3>2. productos'[p] = [productos[p] EXCEPT !.promo =
                             IF p \in DOMAIN minimo THEN q ELSE productos[p].promo]
      BY <1>2, <3>1 DEF Producto
    <3> HIDE DEF q
    <3> QED
      BY <3>1, <3>2 DEF Producto
  <2>4. Codigo' = Codigo
    BY <1>2 DEF Codigo
  <2> HIDE DEF q
  <2>5. StockType'
    <3>1. \A p \in Codigo' : productos'[p].promo \in DOMAIN promociones' \cup {0}
      BY <2>2, <2>3, <2>4 DEF Stock, StockType
    <3> QED
      BY <1>2, <3>1 DEF Stock, StockType
  <2>6. PromosHaveThem'
    <3> SUFFICES ASSUME NEW p \in Codigo, productos'[p].promo # 0
                 PROVE  p \in DOMAIN promociones'[productos'[p].promo].minimo
      BY <2>4 DEF PromosHaveThem, PromoLoTiene
    <3>1. CASE p \in DOMAIN minimo
      BY <2>1, <2>2, <2>3, <3>1
    <3>2. CASE p \notin DOMAIN minimo
      <4>1. productos'[p].promo = productos[p].promo /\ productos[p].promo \in DOMAIN promociones
        BY <2>3, <3>2 DEF Stock, StockType
      <4>2. p \in DOMAIN promociones[productos[p].promo].minimo
        BY <4>1 DEF Stock, PromosHaveThem, PromoLoTiene
      <4> QED
        BY <2>2, <4>1, <4>2
    <3> QED
      BY <3>1, <3>2
  <2>7. StockLeft'
    <3>1. \A p \in Codigo : Taken(p)' = Taken(p)
      BY <1>2 DEF Taken
    <3> QED
      BY <1>2, <2>3, <2>4, <3>1, SameQuantities DEF StockLeft
  <2> QED
    BY <2>5, <2>6, <2>7 DEF Stock
<1> QED
  BY <1>1, <1>2 DEF CrearPromocion, Muere, goods

LEMMA AgregarProductoStock ==
  ASSUME Keys, Stock, NEW p \in Codigo, NEW n \in Amount, AgregarProducto(p, n)
  PROVE  Stock'
<1> DEFINE b == Len(compras)
           x == <<p, b>>
<1>1. CASE UNCHANGED goods
  <2>1. UNCHANGED <<productos, promociones, item>>
    BY <1>1 DEF goods
  <2>2. \A q \in Codigo : Taken(q)' = Taken(q)
    BY <2>1 DEF Taken
  <2>3. StockLeft'
    BY <2>1, <2>2, SameQuantities DEF StockLeft, Codigo
  <2> QED
    BY <2>1, <2>3 DEF Stock, StockType, PromosHaveThem, PromoLoTiene, Codigo
<1>2. CASE /\ HayStock(p, n) /\ x \notin DOMAIN item
           /\ item' = [i \in DOMAIN item \cup {x} |->
                IF i = x THEN [cantidad |-> n, enviado |-> FALSE] ELSE item[i]]
           /\ productos' = [productos EXCEPT ![p].compraProd = ConCompraProd(p, b),
                                             ![p].stock = TomarStock(p, n)]
           /\ promociones' = promociones
  <2>1. n \in Nat
    BY ShopAssumption
  <2>2. /\ productos \in Seq(Producto) /\ productos[p] \in Producto
        /\ productos[p].stock \in Nat /\ productos[p].alta \in Nat
    <3>1. productos \in Seq(Producto) /\ productos[p] \in Producto
      BY DEF Keys, GoodsType, Codigo
    <3> QED
      BY <3>1 DEF Producto
  <2>3. /\ n <= productos[p].stock /\ TomarStock(p, n) = productos[p].stock - n
    BY <1>2 DEF HayStock, TomarStock
  <2> DEFINE c == ConCompraProd(p, b)
             t == TomarStock(p, n)
  <2> HIDE DEF c, t
  <2>4. /\ Codigo' = Codigo
        /\ productos'[p].stock = t /\ productos'[p].alta = productos[p].alta
        /\ productos'[p].promo = productos[p].promo
        /\ \A q \in Codigo \ {p} : productos'[q] = productos[q]
    <3>1. productos' = [productos EXCEPT ![p] =
                          [productos[p] EXCEPT !.compraProd = c, !.stock = t]]
      BY <1>2, <2>2 DEF c, t, Producto
    <3> QED
      BY <2>2, <3>1 DEF Codigo, Producto
  <2> HIDE DEF b, x
  <2>5. /\ DOMAIN item' = DOMAIN item \cup {x}
        /\ item'[x] = [cantidad |-> n, enviado |-> FALSE]
        /\ \A i \in DOMAIN item : item'[i] = item[i]
    BY <1>2
  <2>6. x[1] = p
    BY DEF x
  <2>7. StockType'
    <3>1. IsFiniteSet(DOMAIN item')
      BY <2>5, FS_AddElement DEF Stock, StockType
    <3>2. \A i \in DOMAIN item' : item'[i] \in [cantidad : Nat, enviado : BOOLEAN]
      <4>1. item'[x] \in [cantidad : Nat, enviado : BOOLEAN]
        BY <2>1, <2>5
      <4> QED
        BY <2>5, <4>1 DEF Stock, StockType
    <3>3. \A q \in Codigo' : productos'[q].promo \in DOMAIN promociones' \cup {0}
      BY <1>2, <2>4 DEF Stock, StockType
    <3> QED
      BY <3>1, <3>2, <3>3 DEF StockType
  <2>8. PromosHaveThem'
    BY <1>2, <2>4 DEF Stock, PromosHaveThem, PromoLoTiene
  <2>9. ASSUME NEW q \in Codigo, q # p
        PROVE  Taken(q)' = Taken(q) /\ \A i \in Taken(q) : item'[i].cantidad = item[i].cantidad
    BY <2>5, <2>6, <2>9 DEF Taken
  <2>10. /\ productos'[p].stock <= productos'[p].alta
         /\ Total(Taken(p), Quantities(p), productos[p].alta - productos[p].stock)'
    <3> DEFINE S == Taken(p)
               f == Quantities(p)
               m == productos[p].alta - productos[p].stock
    <3>1. /\ productos[p].stock <= productos[p].alta /\ Total(S, f, m)
      BY DEF Stock, StockLeft
    <3>2. x \notin S /\ IsFiniteSet(S)
      BY <1>2, FS_Subset DEF Taken, Stock, StockType
    <3>3. f \in [S -> Nat]
      BY DEF Taken, Quantities, Stock, StockType
    <3>4. Taken(p)' = S \cup {x}
      BY <2>5, <2>6 DEF Taken
    <3> DEFINE g == [i \in S \cup {x} |-> item'[i].cantidad]
    <3>5. Quantities(p)' = g
      BY <3>4 DEF Quantities
    <3>6. /\ g \in [S \cup {x} -> Nat] /\ g[x] = n /\ \A i \in S : g[i] = f[i]
      <4>1. g[x] = n /\ \A i \in S : g[i] = item[i].cantidad /\ f[i] = item[i].cantidad
        BY <2>5 DEF Taken, Quantities
      <4>2. \A i \in S \cup {x} : item'[i].cantidad \in Nat
        BY <2>1, <2>5 DEF Taken, Stock, StockType
      <4> QED
        BY <4>1, <4>2
    <3> HIDE DEF S, f, g, m
    <3>7. Total(S \cup {x}, g, g[x] + m)
      BY <3>1, <3>2, <3>3, <3>6, TotalWithOneMore
    <3>8. productos'[p].alta - productos'[p].stock = g[x] + m
      BY <2>1, <2>2, <2>3, <2>4, <3>6 DEF m, t
    <3>9. productos'[p].stock <= productos'[p].alta
      BY <2>1, <2>2, <2>3, <2>4, <3>1 DEF t
    <3> QED
      BY <3>4, <3>5, <3>7, <3>8, <3>9
  <2>11. StockLeft'
    <3> SUFFICES ASSUME NEW q \in Codigo
                 PROVE  /\ productos'[q].stock <= productos'[q].alta
                        /\ Total(Taken(q), Quantities(q), productos[q].alta - productos[q].stock)'
      BY <2>4 DEF StockLeft
    <3>1. CASE q = p
      BY <2>10, <3>1
    <3>2. CASE q # p
      <4>1. productos'[q] = productos[q]
        BY <2>4, <3>2
      <4> QED
        BY <2>9, <3>2, <4>1, SameQuantities
    <3> QED
      BY <3>1, <3>2
  <2> QED
    BY <2>7, <2>8, <2>11 DEF Stock
<1> QED
  BY <1>1, <1>2 DEF AgregarProducto, EnCompra, Muere

LEMMA EnviarProductoStock ==
  ASSUME Keys, Stock, NEW v \in Nick, NEW p \in Codigo, NEW id \in Compra, EnviarProducto(v, p, id)
  PROVE  Stock'
<1>1. UNCHANGED <<productos, promociones>>
  BY DEF EnviarProducto, Muere, goods
<1>2. /\ DOMAIN item' = DOMAIN item
      /\ \A i \in DOMAIN item : /\ item'[i] \in [cantidad : Nat, enviado : BOOLEAN]
                                /\ item'[i].cantidad = item[i].cantidad
  <2>1. CASE item' = item
    BY <2>1 DEF Stock, StockType
  <2>2. ASSUME NEW x, item' = [item EXCEPT ![x].enviado = TRUE]
        PROVE  /\ DOMAIN item' = DOMAIN item
               /\ \A i \in DOMAIN item : /\ item'[i] \in [cantidad : Nat, enviado : BOOLEAN]
                                         /\ item'[i].cantidad = item[i].cantidad
    <3>1. DOMAIN item' = DOMAIN item
      BY <2>2
    <3>2. ASSUME NEW i \in DOMAIN item
          PROVE  /\ item'[i] \in [cantidad : Nat, enviado : BOOLEAN]
                 /\ item'[i].cantidad = item[i].cantidad
      <4>1. item[i] \in [cantidad : Nat, enviado : BOOLEAN]
        BY DEF Stock, StockType
      <4>2. item'[i] = item[i] \/ item'[i] = [item[i] EXCEPT !.enviado = TRUE]
        BY <2>2
      <4> QED
        BY <4>1, <4>2
    <3> QED
      BY <3>1, <3>2
  <2> QED
    BY <2>1, <2>2 DEF EnviarProducto, Muere, goods
<1>3. \A q \in Codigo : Taken(q)' = Taken(q) /\ \A i \in Taken(q) : item'[i].cantidad = item[i].cantidad
  BY <1>2 DEF Taken
<1>4. StockLeft'
  BY <1>1, <1>3, SameQuantities DEF StockLeft, Codigo
<1>5. StockType'
  BY <1>1, <1>2 DEF Stock, StockType, Codigo
<1> QED
  BY <1>1, <1>4, <1>5 DEF Stock, PromosHaveThem, PromoLoTiene, Codigo

LEMMA StockKept ==
  ASSUME IInv, Stock, [Next]_vars
  PROVE  Stock'
<1>1. CASE UNCHANGED <<productos, promociones, item>>
  <2>1. \A p \in Codigo : Taken(p)' = Taken(p)
    BY <1>1 DEF Taken
  <2>2. StockLeft'
    BY <1>1, <2>1, SameQuantities DEF StockLeft, Codigo
  <2> QED
    BY <1>1, <2>2 DEF Stock, StockType, PromosHaveThem, PromoLoTiene, Codigo
<1> QED
  BY <1>1, AltaProductoStock, CrearPromocionStock, AgregarProductoStock, EnviarProductoStock, Touch
     DEF GoodsTouched, IInv

LEMMA InitStock == Init => Stock
<1> SUFFICES ASSUME Init PROVE Stock
  OBVIOUS
<1>1. DOMAIN item = {} /\ Codigo = {}
  BY DEF Init, SalesInit, Codigo
<1>2. IsFiniteSet(DOMAIN item)
  BY <1>1, FS_EmptySet
<1> QED
  BY <1>1, <1>2 DEF Stock, StockType, PromosHaveThem, StockLeft

\* What has left the stock of a product is what its CompraProds hold.
THEOREM StockConserved == Spec => []StockIsConserved
<1>1. Init => IInv /\ Stock
  BY InitKeys, InitStock DEF IInv, Desk, Init, SalesInit
<1>2. IInv /\ Stock /\ [Next]_vars => (IInv /\ Stock)'
  BY KeysKept, DeskKept, Stuttering, StockKept DEF IInv
<1>3. IInv /\ Stock => StockIsConserved
  <2>0. ASSUME \A p \in Codigo : productos[p].alta =
                        productos[p].stock + Sum({i \in DOMAIN item : i[1] = p})
        PROVE  StockIsConserved
    BY <2>0 DEF StockIsConserved, MapThenSumSet, MapThenFoldSet, Sum
  <2> SUFFICES ASSUME IInv, Stock, NEW p \in Codigo
               PROVE  productos[p].alta =
                        productos[p].stock + Sum({i \in DOMAIN item : i[1] = p})
    BY <2>0
  <2> DEFINE sum == Sum({i \in DOMAIN item : i[1] = p})
  <2>1. IsFiniteSet(Taken(p)) /\ \A i \in Taken(p) : item[i].cantidad \in Nat
    BY FS_Subset DEF Taken, Stock, StockType
  <2>2. Total(Taken(p), Quantities(p), sum)
    BY <2>1, SumOfQuantities DEF Quantities, Taken
  <2>3. Total(Taken(p), Quantities(p), productos[p].alta - productos[p].stock)
    BY DEF Stock, StockLeft
  <2>4. Quantities(p) \in [Taken(p) -> Nat]
    BY <2>1 DEF Quantities
  <2> HIDE DEF sum
  <2>5. sum = productos[p].alta - productos[p].stock
    BY <2>1, <2>2, <2>3, <2>4, TotalIsOne
  <2>6. productos[p].alta \in Nat /\ productos[p].stock \in Nat
    <3>1. productos[p] \in Producto
      BY DEF IInv, Keys, GoodsType, Codigo
    <3> QED
      BY <3>1 DEF Producto
  <2>7. productos[p].alta = productos[p].stock + sum
    BY <2>5, <2>6
  <2> QED
    BY <2>7 DEF sum
<1> QED
  BY <1>1, <1>2, <1>3, PTL DEF Spec

-----------------------------------------------------------------------------
(***************************************************************************)
(* The maps that point to comments agree also after the program has ended, *)
(* since nothing that ends it touches them.                                *)
(***************************************************************************)
ThreadsType ==
  /\ comentario \in Seq(Comentario)
  /\ \A i \in ID : comentario[i].padre < i
  /\ \A i \in ID : comentario[i].padre = 0 => comentario[i].prod \in Codigo
  /\ vivos \subseteq ID
  /\ deUsuario \subseteq Nick \X ID
  /\ respuestas \subseteq ID \X ID
  /\ deProducto \subseteq Codigo \X ID

OfUser    == \A n \in Nick, i \in ID : <<n, i>> \in deUsuario <=> i \in vivos /\ comentario[i].autor = n
OfProduct == \A p \in Codigo, i \in ID :
               <<p, i>> \in deProducto <=> i \in vivos /\ comentario[i].padre = 0 /\ comentario[i].prod = p
OfComment == \A j, i \in ID : <<j, i>> \in respuestas <=> i \in vivos /\ comentario[i].padre = j
Answered  == \A i \in vivos : comentario[i].padre # 0 => comentario[i].padre \in vivos

Threads == ThreadsType /\ OfUser /\ OfProduct /\ OfComment /\ Answered

LEMMA CommentTypes ==
  ASSUME Threads
  PROVE  /\ AnswersAreLater
         /\ Len(comentario) \in Nat /\ ID = 1 .. Len(comentario)
         /\ \A i \in ID : comentario[i] \in Comentario /\ comentario[i].padre \in 0 .. i - 1
<1>1. comentario \in Seq(Comentario) /\ ID = 1 .. Len(comentario) /\ Len(comentario) \in Nat
  BY DEF Threads, ThreadsType, ID
<1>2. \A i \in ID : comentario[i] \in Comentario
  BY <1>1
<1>3. \A i \in ID : comentario[i].padre \in 0 .. i - 1
  BY <1>1, <1>2 DEF Threads, ThreadsType, Comentario
<1>4. \A j, k \in ID : <<j, k>> \in respuestas => j < k
  BY <1>3 DEF Threads, ThreadsType, OfComment
<1> QED
  BY <1>1, <1>2, <1>3, <1>4 DEF AnswersAreLater, Threads, ThreadsType

\* new codes have no comments yet
LEMMA SameThreads ==
  ASSUME Threads, Codigo \subseteq Codigo',
         UNCHANGED <<comentario, vivos, deProducto, deUsuario, respuestas>>
  PROVE  Threads'
<1>1. ID' = ID
  BY DEF ID
<1>2. ThreadsType'
  BY <1>1 DEF Threads, ThreadsType
<1>3. OfProduct'
  <2> SUFFICES ASSUME NEW p \in Codigo', NEW i \in ID
               PROVE  <<p, i>> \in deProducto <=>
                        i \in vivos /\ comentario[i].padre = 0 /\ comentario[i].prod = p
    BY <1>1 DEF OfProduct
  <2>1. CASE p \in Codigo
    BY <2>1 DEF Threads, OfProduct
  <2>2. CASE p \notin Codigo
    BY <2>2 DEF Threads, ThreadsType
  <2> QED
    BY <2>1, <2>2
<1>4. OfUser' /\ OfComment' /\ Answered'
  BY <1>1 DEF Threads, OfUser, OfComment, Answered
<1> QED
  BY <1>2, <1>3, <1>4 DEF Threads

LEMMA NuevoThreads ==
  ASSUME Threads, NEW u \in Nick, NEW p \in Nat, NEW padre \in Nat, Nuevo(u, p, padre),
         padre = 0 => p \in Codigo,
         padre # 0 => padre \in vivos,
         deProducto' = IF padre = 0 THEN deProducto \cup {<<p, NuevoID>>} ELSE deProducto,
         respuestas' = IF padre = 0 THEN respuestas ELSE respuestas \cup {<<padre, NuevoID>>}
  PROVE  Threads'
<1> DEFINE l == Len(comentario)
           nuevo == [autor |-> u, prod |-> p, padre |-> padre]
<1>1. l \in Nat /\ ID = 1 .. l /\ NuevoID = l + 1
  BY CommentTypes DEF NuevoID
<1>2. nuevo \in Comentario /\ nuevo.autor = u /\ nuevo.prod = p /\ nuevo.padre = padre
  BY DEF Comentario
<1> HIDE DEF nuevo
<1>3. /\ comentario' = Append(comentario, nuevo)
      /\ vivos' = vivos \cup {NuevoID} /\ deUsuario' = deUsuario \cup {<<u, NuevoID>>}
      /\ Codigo' = Codigo
  BY DEF Nuevo, nuevo, goods, Codigo
<1>4. /\ comentario' \in Seq(Comentario)
      /\ ID' = 1 .. l + 1
      /\ \A i \in 1 .. l : comentario'[i] = comentario[i]
      /\ comentario'[l + 1] = nuevo
  BY <1>2, <1>3 DEF Threads, ThreadsType, ID
<1> HIDE DEF l
<1>5. padre < l + 1
  BY <1>1, CommentTypes DEF Threads, ThreadsType
<1>6. \A i \in ID' : i \in ID \/ (i = l + 1 /\ i \notin ID)
  BY <1>1, <1>4
<1>7. ID \subseteq ID' /\ l + 1 \in ID'
  BY <1>1, <1>4
<1>8. \A i \in ID : comentario'[i] = comentario[i] /\ i # NuevoID /\ (i \in vivos' <=> i \in vivos)
  <2>1. \A i \in ID : i # NuevoID /\ i \in 1 .. l
    BY <1>1
  <2> QED
    BY <1>3, <1>4, <2>1
<1>9. /\ comentario'[NuevoID].autor = u /\ comentario'[NuevoID].prod = p
       /\ comentario'[NuevoID].padre = padre /\ NuevoID \in vivos' /\ NuevoID \notin vivos
       /\ NuevoID # padre
  <2>1. NuevoID \in vivos' /\ NuevoID \notin vivos
    BY <1>1, <1>3 DEF Threads, ThreadsType
  <2>2. NuevoID # padre
    BY <1>1, <1>5
  <2> QED
    BY <1>1, <1>2, <1>4, <2>1, <2>2
<1>10. ThreadsType'
  <2>1. \A i \in ID' : comentario'[i].padre < i
    BY <1>1, <1>2, <1>4, <1>5, <1>6 DEF Threads, ThreadsType
  <2>2. \A i \in ID' : comentario'[i].padre = 0 => comentario'[i].prod \in Codigo'
    BY <1>1, <1>2, <1>3, <1>4, <1>6 DEF Threads, ThreadsType
  <2>3. vivos' \subseteq ID'
    BY <1>1, <1>3, <1>7 DEF Threads, ThreadsType
  <2>4. deUsuario' \subseteq Nick \X ID'
    BY <1>1, <1>3, <1>7 DEF Threads, ThreadsType
  <2>5. respuestas' \subseteq ID' \X ID'
    BY <1>1, <1>7 DEF Threads, ThreadsType
  <2>6. deProducto' \subseteq Codigo' \X ID'
    BY <1>1, <1>3, <1>7 DEF Threads, ThreadsType
  <2> QED
    BY <1>4, <2>1, <2>2, <2>3, <2>4, <2>5, <2>6 DEF ThreadsType
<1>11. OfUser'
  <2> SUFFICES ASSUME NEW n \in Nick, NEW i \in ID'
               PROVE  <<n, i>> \in deUsuario' <=> i \in vivos' /\ comentario'[i].autor = n
    BY DEF OfUser
  <2>1. CASE i \in ID
    <3>1. <<n, i>> \in deUsuario' <=> <<n, i>> \in deUsuario
      BY <1>3, <1>8, <2>1
    <3> QED
      BY <1>8, <2>1, <3>1 DEF Threads, OfUser
  <2>2. CASE i = l + 1 /\ i \notin ID
    <3>1. <<n, i>> \notin deUsuario
      BY <2>2 DEF Threads, ThreadsType
    <3> QED
      BY <1>1, <1>3, <1>9, <2>2, <3>1
  <2> QED
    BY <1>6, <2>1, <2>2
<1>12. OfProduct'
  <2> SUFFICES ASSUME NEW q \in Codigo, NEW i \in ID'
               PROVE  <<q, i>> \in deProducto' <=>
                        i \in vivos' /\ comentario'[i].padre = 0 /\ comentario'[i].prod = q
    BY <1>3 DEF OfProduct
  <2>1. CASE i \in ID
    <3>1. <<q, i>> \in deProducto' <=> <<q, i>> \in deProducto
      BY <1>8, <2>1
    <3> QED
      BY <1>8, <2>1, <3>1 DEF Threads, OfProduct
  <2>2. CASE i = l + 1 /\ i \notin ID
    <3>1. <<q, i>> \notin deProducto
      BY <2>2 DEF Threads, ThreadsType
    <3> QED
      BY <1>1, <1>9, <2>2, <3>1
  <2> QED
    BY <1>6, <2>1, <2>2
<1>13. OfComment'
  <2> SUFFICES ASSUME NEW j \in ID', NEW i \in ID'
               PROVE  <<j, i>> \in respuestas' <=> i \in vivos' /\ comentario'[i].padre = j
    BY DEF OfComment
  <2>1. CASE i \in ID /\ j \in ID
    <3>1. <<j, i>> \in respuestas' <=> <<j, i>> \in respuestas
      BY <1>8, <2>1
    <3> QED
      BY <1>8, <2>1, <3>1 DEF Threads, OfComment
  <2>2. CASE i \in ID /\ j = l + 1 /\ j \notin ID
    <3>1. i \in 1 .. l /\ comentario[i].padre \in 0 .. i - 1
      BY <1>1, <2>2, CommentTypes
    <3>2. comentario'[i].padre # j
      BY <1>1, <1>8, <2>2, <3>1
    <3>3. <<j, i>> \notin respuestas /\ <<j, i>> # <<padre, NuevoID>>
      BY <1>8, <2>2 DEF Threads, ThreadsType
    <3> QED
      BY <3>2, <3>3
  <2>3. CASE i = l + 1 /\ i \notin ID
    <3>1. <<j, i>> \notin respuestas
      BY <2>3 DEF Threads, ThreadsType
    <3>2. j # 0
      BY <1>1, <1>4
    <3> QED
      BY <1>1, <1>9, <2>3, <3>1, <3>2
  <2> QED
    BY <1>6, <2>1, <2>2, <2>3
<1>14. Answered'
  BY <1>1, <1>2, <1>3, <1>4 DEF Threads, ThreadsType, Answered
<1> QED
  BY <1>10, <1>11, <1>12, <1>13, <1>14 DEF Threads

\* deleting a comment deletes its answers, from every map
LEMMA EliminarThreads ==
  ASSUME Keys, Threads, NEW u \in Nick, NEW i \in 1 .. NuevoID, EliminarComentario(u, i)
  PROVE  Threads'
<1>1. CASE UNCHANGED <<comentario, vivos, deProducto, deUsuario, respuestas, productos>>
  BY <1>1, SameThreads DEF Codigo
<1> DEFINE H == Hilo(i)
           padre == comentario[i].padre
<1>2. CASE /\ i \in vivos
           /\ vivos' = vivos \ H
           /\ deUsuario' = deUsuario \ {<<comentario[k].autor, k>> : k \in H}
           /\ respuestas' = {r \in respuestas : r[1] \notin H /\ r # <<padre, i>>}
           /\ deProducto' = IF padre = 0 THEN deProducto \ {<<comentario[i].prod, i>>}
                            ELSE deProducto
           /\ comentario' = comentario /\ productos' = productos
  <2>1. i \in ID /\ ID' = ID /\ Codigo' = Codigo
    BY <1>2 DEF Threads, ThreadsType, ID, Codigo
  <2>2. /\ i \in H /\ H \subseteq ID
        /\ \A j, k \in ID : j \in H /\ <<j, k>> \in respuestas => k \in H
        /\ \A k \in H \ {i} : \E j \in H : <<j, k>> \in respuestas
    BY <2>1, CommentTypes, HiloIsClosed
  <2> HIDE DEF H
  <2>3. ASSUME NEW k \in H \ {i}
        PROVE  comentario[k].padre \in H
    <3>1. PICK j \in H : <<j, k>> \in respuestas
      BY <2>2
    <3>2. comentario[k].padre = j
      BY <2>2, <3>1 DEF Threads, OfComment
    <3> QED
      BY <3>1, <3>2
  <2>4. ASSUME NEW k \in vivos, comentario[k].padre \in H
        PROVE  k \in H
    <3>1. k \in ID /\ comentario[k].padre \in ID
      BY <2>2, <2>4 DEF Threads, ThreadsType
    <3>2. <<comentario[k].padre, k>> \in respuestas
      BY <3>1 DEF Threads, OfComment
    <3> QED
      BY <2>2, <2>4, <3>1, <3>2
  <2>5. \A k \in H : k # i => comentario[k].padre # 0
    BY <2>2, <2>3, CommentTypes
  <2>6. ThreadsType'
    BY <1>2, <2>1 DEF Threads, ThreadsType
  <2>7. OfUser'
    <3> SUFFICES ASSUME NEW n \in Nick, NEW k \in ID
                 PROVE  <<n, k>> \in deUsuario' <=> k \in vivos' /\ comentario[k].autor = n
      BY <1>2, <2>1 DEF OfUser
    <3>1. <<n, k>> \in deUsuario <=> k \in vivos /\ comentario[k].autor = n
      BY DEF Threads, OfUser
    <3>2. <<n, k>> \in {<<comentario[m].autor, m>> : m \in H} <=> k \in H /\ comentario[k].autor = n
      OBVIOUS
    <3> QED
      BY <1>2, <3>1, <3>2
  <2>8. OfProduct'
    <3> SUFFICES ASSUME NEW p \in Codigo, NEW k \in ID
                 PROVE  <<p, k>> \in deProducto' <=>
                          k \in vivos' /\ comentario[k].padre = 0 /\ comentario[k].prod = p
      BY <1>2, <2>1 DEF OfProduct
    <3>1. <<p, k>> \in deProducto <=> k \in vivos /\ comentario[k].padre = 0 /\ comentario[k].prod = p
      BY DEF Threads, OfProduct
    <3>2. CASE k = i
      BY <1>2, <2>2, <3>1, <3>2
    <3>3. CASE k # i
      <4>1. comentario[k].padre = 0 => k \notin H
        BY <2>5, <3>3
      <4>2. <<p, k>> \in deProducto' <=> <<p, k>> \in deProducto
        BY <1>2, <3>3
      <4> QED
        BY <1>2, <3>1, <4>1, <4>2
    <3> QED
      BY <3>2, <3>3
  <2>9. OfComment'
    <3> SUFFICES ASSUME NEW j \in ID, NEW k \in ID
                 PROVE  <<j, k>> \in respuestas' <=> k \in vivos' /\ comentario[k].padre = j
      BY <1>2, <2>1 DEF OfComment
    <3>1. <<j, k>> \in respuestas <=> k \in vivos /\ comentario[k].padre = j
      BY DEF Threads, OfComment
    <3>2. <<j, k>> \in respuestas' <=>
            <<j, k>> \in respuestas /\ j \notin H /\ <<j, k>> # <<padre, i>>
      BY <1>2
    <3>3. ASSUME k \in vivos, comentario[k].padre = j
          PROVE  k \in H <=> j \in H \/ k = i
      BY <2>2, <2>3, <2>4, <3>3
    <3> QED
      BY <1>2, <3>1, <3>2, <3>3
  <2>10. Answered'
    BY <1>2, <2>4 DEF Threads, Answered
  <2> QED
    BY <2>6, <2>7, <2>8, <2>9, <2>10 DEF Threads
<1>3. CASE i \in vivos
  <2>1. /\ vivos' = vivos \ H
        /\ deUsuario' = deUsuario \ {<<comentario[k].autor, k>> : k \in H}
        /\ respuestas' = {r \in respuestas : r[1] \notin H /\ r # <<padre, i>>}
        /\ deProducto' = IF padre = 0 THEN deProducto \ {<<comentario[i].prod, i>>}
                         ELSE deProducto
        /\ comentario' = comentario /\ goods' = goods
    BY <1>3 DEF EliminarComentario
  <2> HIDE DEF H, padre
  <2> QED
    BY <1>2, <1>3, <2>1 DEF goods
<1>4. CASE i \notin vivos
  BY <1>1, <1>4 DEF EliminarComentario, Muere, goods, comments
<1> QED
  BY <1>3, <1>4

\* no product is ever taken out
LEMMA CodesStay ==
  ASSUME IInv, [Next]_vars
  PROVE  Codigo \subseteq Codigo'
<1>1. productos \in Seq(Producto)
  BY DEF IInv, Keys, GoodsType
<1>2. ASSUME NEW n, NEW s, AltaProducto(n, s)
      PROVE  Codigo \subseteq Codigo'
  <2>1. PICK x : productos' = Append(productos, x)
    BY <1>2 DEF AltaProducto
  <2>2. DOMAIN productos' = 1 .. Len(productos) + 1 /\ DOMAIN productos = 1 .. Len(productos)
    BY <1>1, <2>1
  <2> QED
    BY <1>1, <2>2 DEF Codigo
<1>3. ASSUME NEW n, NEW name, NEW minimo, CrearPromocion(n, name, minimo)
      PROVE  Codigo \subseteq Codigo'
  BY <1>3 DEF CrearPromocion, Muere, goods, Codigo
<1>4. ASSUME NEW n, NEW p, NEW id, EnviarProducto(n, p, id)
      PROVE  Codigo \subseteq Codigo'
  BY <1>4 DEF EnviarProducto, Muere, goods, Codigo
<1>5. ASSUME NEW p, NEW n, AgregarProducto(p, n)
      PROVE  Codigo \subseteq Codigo'
  BY <1>5 DEF AgregarProducto, Muere, goods, Codigo
<1>6. UNCHANGED productos => Codigo \subseteq Codigo'
  BY DEF Codigo
<1> QED
  BY <1>2, <1>3, <1>4, <1>5, <1>6, Touch DEF GoodsTouched

LEMMA ThreadsKept ==
  ASSUME IInv, Threads, [Next]_vars
  PROVE  Threads'
<1>1. CASE UNCHANGED <<comentario, vivos, deProducto, deUsuario, respuestas>>
  BY <1>1, CodesStay, SameThreads
<1>2. ASSUME NEW u \in Nick, NEW p \in Codigo, CrearComentario(u, p)
      PROVE  Threads'
  <2>1. p \in Nat
    BY DEF IInv, Keys, GoodsType, Codigo
  <2>2. /\ Nuevo(u, p, 0) /\ deProducto' = deProducto \cup {<<p, NuevoID>>}
        /\ respuestas' = respuestas
    BY <1>2 DEF CrearComentario
  <2> QED
    BY <2>1, <2>2, NuevoThreads
<1>3. ASSUME NEW u \in Nick, NEW p \in Codigo, NEW i \in 1 .. NuevoID, CrearHijo(u, p, i)
      PROVE  Threads'
  <2>1. /\ Nuevo(u, 0, i) /\ deProducto' = deProducto
        /\ respuestas' = respuestas \cup {<<i, NuevoID>>}
        /\ <<p, i>> \in deProducto
    BY <1>3 DEF CrearHijo
  <2>2. i \in vivos /\ i \in ID /\ i \in Nat /\ i # 0
    BY <2>1 DEF Threads, ThreadsType, OfProduct, ID
  <2> QED
    BY <2>1, <2>2, NuevoThreads
<1>4. ASSUME NEW u \in Nick, NEW p \in Codigo, NEW i \in 1 .. NuevoID, RespuestaRechazada(u, p, i)
      PROVE  Threads'
  BY <1>1, <1>4 DEF RespuestaRechazada
<1> QED
  BY <1>1, <1>2, <1>3, <1>4, EliminarThreads, Touch DEF CommentsTouched, comments, IInv

LEMMA InitThreads == Init => Threads
<1> SUFFICES ASSUME Init PROVE Threads
  OBVIOUS
<1>1. comentario = <<>> /\ ID = {} /\ vivos = {} /\ deUsuario = {} /\ respuestas = {} /\ deProducto = {}
  BY DEF Init, ID
<1> QED
  BY <1>1 DEF Threads, ThreadsType, OfUser, OfProduct, OfComment, Answered

\* The places that point to a comment agree after any sequence of comments,
\* answers and deletions.
THEOREM PlacesAgree == Spec => []MapsAgree
<1>1. Init => IInv /\ Threads
  BY InitKeys, InitThreads DEF IInv, Desk, Init, SalesInit
<1>2. IInv /\ Threads /\ [Next]_vars => (IInv /\ Threads)'
  BY KeysKept, DeskKept, Stuttering, ThreadsKept DEF IInv
<1>3. IInv /\ Threads => MapsAgree
  BY DEF Threads, OfUser, OfProduct, OfComment, Answered, MapsAgree
<1> QED
  BY <1>1, <1>2, <1>3, PTL DEF Spec

-----------------------------------------------------------------------------
(***************************************************************************)
(* As long as every answer was among those on the screen, the only NULLs   *)
(* in the maps are those that answers to answers have left, and the only   *)
(* other ones are the clients of purchases that were not confirmed.        *)
(***************************************************************************)
Session ==
  /\ limit \in Sessions
  /\ pc \in {"menu", "comprando", "comentando"} \cup Ending
  /\ fuera \in BOOLEAN

OnlyAnswers ==
  \A e \in nulosProducto : \E p \in Codigo, i \in ID : e = <<p, i>> /\ comentario[i].padre # 0

Misses ==
  ~fuera =>
    /\ UsersListed /\ nulos = {} /\ nulosUsuario = {}
    /\ OnlyAnswers
    /\ pc = "null" => nulosProducto # {} \/ \E p \in Codigo : ListsUnconfirmed(p)

\* a step that leaves no new NULL and dereferences none
Calm ==
  /\ fuera' = fuera
  /\ UsersListed => UsersListed'
  /\ nulos' \subseteq nulos /\ nulosUsuario' \subseteq nulosUsuario
  /\ nulosProducto' \subseteq nulosProducto
  /\ pc' = "null" => pc = "null" /\ UNCHANGED <<nulosProducto, goods>>

\* a program that has ended takes no step
LEMMA Ended == Next => pc \notin Ending
<1>1. ASSUME SalesNext PROVE pc \in {"menu", "comprando"}
  <2>1. \A n : BuscaUsuario(n) \/ ConsultarNotificaciones(n) \/ Comprar(n) => AtMenu
    BY DEF BuscaUsuario, ConsultarNotificaciones, Comprar
  <2>2. \A n, x : AltaUsuario(n, x) \/ AltaProducto(n, x) => AtMenu
    BY DEF AltaUsuario, AltaProducto
  <2>3. \A n, v : Suscribirse(n, v) \/ EliminarSuscripcion(n, v) => AtMenu
    BY DEF Suscribirse, EliminarSuscripcion
  <2>4. \A n, name, minimo : CrearPromocion(n, name, minimo) => AtMenu
    BY DEF CrearPromocion
  <2>5. \A n, p : CaeAlListarCompras(n, p) => AtMenu
    BY DEF CaeAlListarCompras
  <2>6. \A n, p, id : EnviarProducto(n, p, id) => AtMenu
    BY DEF EnviarProducto
  <2>7. CaeAlListarUsuarios \/ CaeAlListarProductos \/ SinVendedores => AtMenu
    BY DEF CaeAlListarUsuarios, CaeAlListarProductos, SinVendedores
  <2>8. \A x : ConsultarProducto(x) \/ ConsultarPromocion(x) => AtMenu
    BY DEF ConsultarProducto, ConsultarPromocion
  <2>9. \A x : CodigoDesconocido(x) \/ TerminarCompra(x) => pc = "comprando"
    BY DEF CodigoDesconocido, TerminarCompra
  <2>10. \A p, n : AgregarProducto(p, n) => pc = "comprando"
    BY DEF AgregarProducto
  <2> QED
    BY <1>1, <2>1, <2>2, <2>3, <2>4, <2>5, <2>6, <2>7, <2>8, <2>9, <2>10 DEF SalesNext, AtMenu
<1>2. ASSUME CommentsNext PROVE pc \in {"menu", "comentando"}
  <2>1. \A u, p : Comentando(u, p) => pc \in {"menu", "comentando"}
    BY DEF Comentando, AtMenu
  <2>2. \A u, p : CrearComentario(u, p) \/ CaeAlListarComentarios(u, p) => Comentando(u, p)
    BY DEF CrearComentario, CaeAlListarComentarios
  <2>3. \A u, p, i : CrearHijo(u, p, i) \/ RespuestaRechazada(u, p, i) => Comentando(u, p)
    BY DEF CrearHijo, RespuestaRechazada
  <2>4. \A x : BuscaProducto(x) \/ CaeAlListarPropios(x) => pc = "menu"
    BY DEF BuscaProducto, CaeAlListarPropios, AtMenu
  <2>5. \A u, i : EliminarComentario(u, i) => pc = "menu"
    BY DEF EliminarComentario, AtMenu
  <2> QED
    BY <1>2, <2>1, <2>2, <2>3, <2>4, <2>5 DEF CommentsNext
<1> QED
  BY <1>1, <1>2 DEF Next, Ending

LEMMA SameListing ==
  ASSUME UNCHANGED goods, \E p \in Codigo : ListsUnconfirmed(p)
  PROVE  \E p \in Codigo' : ListsUnconfirmed(p)'
BY DEF goods, Codigo, ListsUnconfirmed, IdsCompras, Pendientes

\* no comment's place is taken again
LEMMA CommentsStay ==
  ASSUME IInv, Threads, [Next]_vars
  PROVE  \A i \in ID : i \in ID' /\ comentario'[i] = comentario[i]
<1>1. comentario \in Seq(Comentario)
  BY DEF Threads, ThreadsType
<1>2. CASE comentario' = comentario
  BY <1>2 DEF ID
<1>3. ASSUME NEW u \in Nick, NEW p \in Nat, NEW padre \in Nat, Nuevo(u, p, padre)
      PROVE  \A i \in ID : i \in ID' /\ comentario'[i] = comentario[i]
  <2> DEFINE x == [autor |-> u, prod |-> p, padre |-> padre]
  <2>1. comentario' = Append(comentario, x)
    BY <1>3 DEF Nuevo
  <2> HIDE DEF x
  <2> QED
    BY <1>1, <2>1 DEF ID
<1>4. ASSUME CommentsTouched
      PROVE  \/ comentario' = comentario
             \/ \E u \in Nick, p \in Nat, padre \in Nat : Nuevo(u, p, padre)
  <2>1. \A u, p : CrearComentario(u, p) => Nuevo(u, p, 0)
    BY DEF CrearComentario
  <2>2. \A u, p, i : CrearHijo(u, p, i) => Nuevo(u, 0, i)
    BY DEF CrearHijo
  <2>3. \A u, p, i : RespuestaRechazada(u, p, i) => comentario' = comentario
    BY DEF RespuestaRechazada
  <2>4. \A u, i : EliminarComentario(u, i) => comentario' = comentario
    BY DEF EliminarComentario, Muere, comments
  <2>5. Codigo \subseteq Nat /\ 1 .. NuevoID \subseteq Nat /\ 0 \in Nat
    BY DEF IInv, Keys, GoodsType, Codigo
  <2> QED
    BY <1>4, <2>1, <2>2, <2>3, <2>4, <2>5 DEF CommentsTouched
<1> QED
  BY <1>2, <1>3, <1>4, Touch DEF comments

LEMMA CalmSteps ==
  ASSUME IInv, Threads, Misses, [Next]_vars, Calm
  PROVE  Misses'
<1> SUFFICES ASSUME ~fuera
             PROVE  /\ UsersListed' /\ nulos' = {} /\ nulosUsuario' = {}
                    /\ OnlyAnswers'
                    /\ pc' = "null" =>
                         nulosProducto' # {} \/ \E p \in Codigo' : ListsUnconfirmed(p)'
  BY DEF Misses, Calm
<1>1. Misses!2
  BY DEF Misses
<1>2. OnlyAnswers'
  <2> SUFFICES ASSUME NEW e \in nulosProducto'
               PROVE  \E p \in Codigo', i \in ID' : e = <<p, i>> /\ comentario'[i].padre # 0
    BY DEF OnlyAnswers
  <2>1. e \in nulosProducto
    BY DEF Calm
  <2>2. PICK p \in Codigo, i \in ID : e = <<p, i>> /\ comentario[i].padre # 0
    BY <1>1, <2>1 DEF OnlyAnswers
  <2>3. p \in Codigo' /\ i \in ID' /\ comentario'[i] = comentario[i]
    BY CodesStay, CommentsStay
  <2> QED
    BY <2>2, <2>3
<1>3. ASSUME pc' = "null"
      PROVE  nulosProducto' # {} \/ \E p \in Codigo' : ListsUnconfirmed(p)'
  <2>1. pc = "null" /\ UNCHANGED <<nulosProducto, goods>>
    BY <1>3 DEF Calm
  <2> QED
    BY <1>1, <2>1, SameListing
<1> QED
  BY <1>1, <1>2, <1>3 DEF Calm

LEMMA SalesMisses ==
  ASSUME IInv, Stock, Threads, Session, Misses, SalesNext, UNCHANGED <<comments, tema>>
  PROVE  Session' /\ Misses'
<1>0. Next
  BY DEF Next
<1>1. nulosProducto' = nulosProducto /\ nulosUsuario' = nulosUsuario
  BY DEF comments
<1>2. Calm => Misses'
  BY <1>0, CalmSteps
<1>3. fuera' = TRUE => Misses'
  BY DEF Misses
<1>4. ASSUME fuera' = fuera, fuera
      PROVE  Misses'
  BY <1>4 DEF Misses
<1>5. ASSUME UNCHANGED <<limit, fuera, colUsuarios, nulos>>,
             pc' = pc \/ pc' \in {"menu", "comprando", "wild", "asks"}
      PROVE  Session' /\ Misses'
  <2>1. UsersListed' = UsersListed
    BY <1>5 DEF UsersListed
  <2>2. pc' # "null"
    BY <1>0, <1>5, Ended DEF Ending
  <2>3. Calm
    BY <1>1, <1>5, <2>1, <2>2 DEF Calm
  <2> QED
    BY <1>2, <1>5, <2>3 DEF Session, Ending
<1>6. ASSUME limit' = limit, fuera' = TRUE, pc' = pc \/ pc' \in {"null", "asks"}
      PROVE  Session' /\ Misses'
  BY <1>3, <1>6 DEF Session, Ending
<1>7. ASSUME NEW n \in Nick, NEW role \in {"cliente", "vendedor"}, AltaUsuario(n, role)
      PROVE  Session' /\ Misses'
  <2>1. /\ UNCHANGED <<limit, pc, fuera, nulos, goods>>
        /\ colUsuarios' = [colUsuarios EXCEPT ![n] = role]
    BY <1>7 DEF AltaUsuario, goods
  <2>2. UsersListed => UsersListed'
    BY <2>1 DEF UsersListed
  <2>3. Calm
    BY <1>1, <2>1, <2>2 DEF Calm
  <2> QED
    BY <1>2, <2>1, <2>3 DEF Session
<1>8. ASSUME NEW n, BuscaUsuario(n)
      PROVE  Session' /\ Misses'
  BY <1>6, <1>8 DEF BuscaUsuario
<1>9. ASSUME NEW n, ConsultarNotificaciones(n) \/ Comprar(n)
      PROVE  Session' /\ Misses'
  BY <1>5, <1>9 DEF ConsultarNotificaciones, Comprar, users, goods
<1>10. ASSUME NEW n, NEW s, AltaProducto(n, s)
       PROVE  Session' /\ Misses'
  <2>1. UNCHANGED <<limit, pc, fuera, users>> /\ nulos' \subseteq nulos
    BY <1>10 DEF AltaProducto
  <2>2. UsersListed' = UsersListed
    BY <2>1 DEF UsersListed, users
  <2>3. Calm
    BY <1>0, <1>1, <2>1, <2>2, Ended DEF Calm, Ending
  <2> QED
    BY <1>2, <2>1, <2>3 DEF Session
<1>11. ASSUME NEW n, NEW v, Suscribirse(n, v) \/ EliminarSuscripcion(n, v)
       PROVE  Session' /\ Misses'
  BY <1>5, <1>6, <1>11 DEF Suscribirse, EliminarSuscripcion, Muere, goods
<1>12. ASSUME NEW n, NEW name, NEW minimo, CrearPromocion(n, name, minimo)
       PROVE  Session' /\ Misses'
  BY <1>5, <1>6, <1>12 DEF CrearPromocion, Muere, users
<1>13. ASSUME NEW n, NEW p \in Codigo, CaeAlListarCompras(n, p)
       PROVE  Session' /\ Misses'
  <2>1. PICK how \in {"null", "wild"} : Muere(how)
    BY <1>13 DEF CaeAlListarCompras
  <2>2. /\ limit' = limit /\ fuera' = fuera /\ pc' = how
        /\ UNCHANGED <<users, goods>>
    BY <1>13, <2>1 DEF CaeAlListarCompras, Muere
  <2>3. \E q \in Codigo' : ListsUnconfirmed(q)'
    BY <1>13, <2>2, SameListing DEF CaeAlListarCompras, ListsUnconfirmed
  <2>4. UsersListed' = UsersListed /\ nulos' = nulos
    BY <2>2 DEF UsersListed, users, goods
  <2>5. OnlyAnswers' = OnlyAnswers
    BY <1>1, <2>2 DEF OnlyAnswers, comments, goods, ID, Codigo
  <2>6. Misses'
    BY <1>1, <2>2, <2>3, <2>4, <2>5 DEF Misses
  <2> QED
    BY <2>2, <2>6 DEF Session, Ending
<1>14. ASSUME NEW n, NEW p \in Codigo, NEW id, EnviarProducto(n, p, id)
       PROVE  Session' /\ Misses'
  <2>1. id \in DOMAIN productos[p].compraProd
    <3>1. id \in IdsCompras(p)
      BY <1>14 DEF EnviarProducto
    <3>2. PICK k \in DOMAIN productos[p].compraProd : id = productos[p].compraProd[k]
      BY <3>1 DEF IdsCompras, Pendientes
    <3> QED
      BY <3>2 DEF IInv, Keys, KeyedByPurchase, OwnCodeIsAlias
  <2> QED
    BY <1>5, <1>14, <2>1 DEF EnviarProducto, users
<1>15. CASE CaeAlListarUsuarios
  <2>1. limit' = limit /\ fuera' = fuera /\ pc' = "null" /\ ~UsersListed
    BY <1>15 DEF CaeAlListarUsuarios, Muere
  <2>2. fuera
    BY <2>1 DEF Misses
  <2> QED
    BY <1>4, <2>1, <2>2 DEF Session, Ending
<1>16. CASE CaeAlListarProductos
  <2>1. limit' = limit /\ fuera' = fuera /\ pc' = "null" /\ nulos # {}
    BY <1>16 DEF CaeAlListarProductos, Muere, ProductsListed
  <2>2. fuera
    BY <2>1 DEF Misses
  <2> QED
    BY <1>4, <2>1, <2>2 DEF Session, Ending
<1>17. ASSUME NEW p, ConsultarProducto(p) \/ CodigoDesconocido(p)
       PROVE  Session' /\ Misses'
  BY <1>6, <1>17 DEF ConsultarProducto, CodigoDesconocido
<1>18. ASSUME NEW name, ConsultarPromocion(name)
       PROVE  Session' /\ Misses'
  BY <1>6, <1>18 DEF ConsultarPromocion, Muere
<1>19. ASSUME NEW p \in Codigo, NEW n, AgregarProducto(p, n)
       PROVE  Session' /\ Misses'
  <2>1. PromoLoTiene(p)
    BY DEF Stock, PromosHaveThem
  <2> QED
    BY <1>5, <1>19, <2>1 DEF AgregarProducto, Muere, users, goods
<1>20. ASSUME NEW confirma, TerminarCompra(confirma)
       PROVE  Session' /\ Misses'
  BY <1>5, <1>20 DEF TerminarCompra, users
<1>21. CASE SinVendedores
  BY <1>5, <1>21 DEF SinVendedores, Muere, users, goods
<1> QED
  BY <1>7, <1>8, <1>9, <1>10, <1>11, <1>12, <1>13, <1>14, <1>15, <1>16, <1>17, <1>18, <1>19,
     <1>20, <1>21 DEF SalesNext

LEMMA CommentsMisses ==
  ASSUME IInv, Threads, Session, Misses, CommentsNext
  PROVE  Session' /\ Misses'
<1>0. Next
  BY DEF Next
<1>1. Calm => Misses'
  BY <1>0, CalmSteps
<1>2. fuera' = TRUE => Misses'
  BY DEF Misses
<1>3. fuera \in BOOLEAN
  BY DEF Session
<1>4. ASSUME NEW u, NEW p, NEW padre, Nuevo(u, p, padre), nulosProducto' \subseteq nulosProducto
      PROVE  Session' /\ Misses'
  <2>1. UsersListed' = UsersListed /\ nulos' = nulos
    BY <1>4 DEF Nuevo, UsersListed, users, goods
  <2>2. Calm
    BY <1>4, <2>1 DEF Calm, Nuevo, goods
  <2> QED
    BY <1>1, <1>4, <2>2 DEF Nuevo, Session
<1>5. ASSUME NEW u, NEW p, CrearComentario(u, p)
      PROVE  Session' /\ Misses'
  BY <1>4, <1>5 DEF CrearComentario
<1>6. ASSUME NEW u, NEW p, NEW i, CrearHijo(u, p, i)
      PROVE  Session' /\ Misses'
  BY <1>4, <1>6 DEF CrearHijo
<1>7. ASSUME NEW u, NEW p, CaeAlListarComentarios(u, p)
      PROVE  Session' /\ Misses'
  <2>1. /\ limit' = limit /\ fuera' = fuera /\ pc' = "null" /\ UNCHANGED <<comments, users, goods>>
        /\ nulosProducto # {}
    BY <1>7 DEF CaeAlListarComentarios, Muere
  <2>2. UsersListed' = UsersListed /\ nulos' = nulos /\ nulosUsuario' = nulosUsuario
    BY <2>1 DEF UsersListed, users, goods, comments
  <2>3. nulosProducto' = nulosProducto /\ OnlyAnswers' = OnlyAnswers
    BY <2>1 DEF OnlyAnswers, comments, goods, ID, Codigo
  <2> QED
    BY <2>1, <2>2, <2>3 DEF Misses, Session, Ending
<1>8. ASSUME NEW u, NEW p \in Codigo, NEW i, RespuestaRechazada(u, p, i)
      PROVE  Session' /\ Misses'
  <2>1. /\ limit' = limit /\ pc' = "comentando"
        /\ fuera' = (fuera \/ i \notin Mostrados(p))
        /\ nulosProducto' = nulosProducto \cup {<<p, i>>}
        /\ <<p, i>> \notin deProducto
        /\ UNCHANGED <<users, goods, comentario, nulosUsuario>>
    BY <1>8 DEF RespuestaRechazada
  <2>2. ASSUME ~fuera'
        PROVE  i \in ID /\ comentario[i].padre # 0
    <3>1. PICK r \in ID : <<p, r>> \in deProducto /\ i \in Hilo(r)
      BY <2>1, <2>2 DEF Mostrados
    <3>2. i # r
      BY <2>1, <3>1
    <3>3. i \in ID /\ \E j \in Hilo(r) : j \in ID /\ <<j, i>> \in respuestas
      BY <3>1, <3>2, CommentTypes, HiloIsClosed
    <3>4. PICK j \in ID : <<j, i>> \in respuestas
      BY <3>3
    <3>5. comentario[i].padre = j /\ j # 0
      BY <3>3, <3>4, CommentTypes DEF Threads, OfComment
    <3> QED
      BY <3>3, <3>5
  <2>3. UsersListed' = UsersListed /\ nulos' = nulos
    BY <2>1 DEF UsersListed, users, goods
  <2>4. ASSUME ~fuera', OnlyAnswers
        PROVE  OnlyAnswers'
    BY <2>1, <2>2, <2>4 DEF OnlyAnswers, ID, Codigo, goods
  <2>5. Misses'
    BY <2>1, <2>3, <2>4 DEF Misses
  <2>6. fuera' \in BOOLEAN
    BY <2>1
  <2> QED
    BY <2>1, <2>5, <2>6 DEF Session
<1>9. ASSUME NEW p, BuscaProducto(p)
      PROVE  Session' /\ Misses'
  BY <1>2, <1>9 DEF BuscaProducto, Session
<1>10. ASSUME NEW u, CaeAlListarPropios(u)
       PROVE  Session' /\ Misses'
  <2>1. limit' = limit /\ fuera' = fuera /\ pc' = "null" /\ nulosUsuario # {}
    BY <1>10 DEF CaeAlListarPropios, Muere
  <2>2. fuera
    BY <2>1 DEF Misses
  <2> QED
    BY <2>1, <2>2 DEF Misses, Session, Ending
<1>11. ASSUME NEW u \in Nick, NEW i, EliminarComentario(u, i)
       PROVE  Session' /\ Misses'
  <2>1. fuera' = (fuera \/ <<u, i>> \notin deUsuario) /\ fuera' \in BOOLEAN
    BY <1>11 DEF EliminarComentario
  <2>2. limit' = limit /\ (pc' = pc \/ pc' \in Ending)
    BY <1>11 DEF EliminarComentario, Muere, Ending
  <2>3. CASE <<u, i>> \notin deUsuario
    <3>1. fuera' = TRUE
      BY <2>1, <2>3
    <3> QED
      BY <1>2, <2>2, <3>1 DEF Session
  <2>4. CASE <<u, i>> \in deUsuario
    <3>1. i \in vivos
      BY <2>4 DEF Threads, ThreadsType, OfUser
    <3>2. fuera' = fuera
      BY <1>3, <2>1, <2>4
    <3>3. /\ pc' = pc /\ UNCHANGED <<users, goods, nulosProducto>>
          /\ nulosUsuario' = nulosUsuario
      BY <1>11, <2>4, <3>1 DEF EliminarComentario
    <3>4. UsersListed' = UsersListed /\ nulos' = nulos
      BY <3>3 DEF UsersListed, users, goods
    <3>5. Calm
      BY <3>2, <3>3, <3>4 DEF Calm, goods
    <3> QED
      BY <1>1, <2>1, <2>2, <3>5 DEF Session
  <2> QED
    BY <2>3, <2>4
<1> QED
  BY <1>5, <1>6, <1>7, <1>8, <1>9, <1>10, <1>11 DEF CommentsNext

All == IInv /\ Subscribers /\ Stock /\ Threads /\ Session /\ Misses

LEMMA InitAll == Init => All
<1> SUFFICES ASSUME Init PROVE All
  OBVIOUS
<1>1. Session
  BY DEF Init, SalesInit, Session
<1>2. Misses
  BY DEF Init, SalesInit, Misses, OnlyAnswers, UsersListed
<1>3. IInv
  BY InitKeys DEF IInv, Desk, Init, SalesInit
<1> QED
  BY <1>1, <1>2, <1>3, InitSubscribers, InitStock, InitThreads DEF All

LEMMA AllKept ==
  ASSUME All, [Next]_vars
  PROVE  All'
<1>1. IInv' /\ Subscribers' /\ Stock' /\ Threads'
  BY KeysKept, DeskKept, Stuttering, SubscribersKept, StockKept, ThreadsKept DEF All, IInv
<1>2. CASE UNCHANGED vars
  <2>1. UNCHANGED <<limit, pc, fuera, nulos, nulosUsuario, nulosProducto, colUsuarios, goods>>
    BY <1>2 DEF vars, sales, users, goods, comments
  <2>2. UsersListed' = UsersListed
    BY <2>1 DEF UsersListed
  <2>3. Calm
    BY <2>1, <2>2 DEF Calm
  <2>4. Misses'
    BY <2>3, CalmSteps DEF All
  <2> QED
    BY <1>1, <2>1, <2>4 DEF All, Session
<1>3. CASE Next
  BY <1>1, <1>3, SalesMisses, CommentsMisses DEF All, Next
<1> QED
  BY <1>2, <1>3

\* Everything above holds in every session.
THEOREM AllInvariance == Spec => []All
  BY InitAll, AllKept, PTL DEF Spec

\* The singletons' maps hold what they should, under keys of the right kind.
THEOREM Typing == Spec => []TypeOK
<1>1. All => TypeOK
  <2> SUFFICES ASSUME All PROVE TypeOK
    OBVIOUS
  <2>1. ASSUME NEW p \in Codigo
        PROVE  /\ productos[p].vend \in Nick
               /\ productos[p].alta \in Nat /\ productos[p].stock \in Nat
               /\ productos[p].promo \in DOMAIN promociones \cup {0}
               /\ DOMAIN productos[p].compraProd \subseteq Nat
               /\ \A k \in DOMAIN productos[p].compraProd : productos[p].compraProd[k] \in Compra
    <3>1. productos[p] \in Producto
      BY DEF All, IInv, Keys, GoodsType, Codigo
    <3>2. /\ productos[p].vend \in Nick
          /\ productos[p].alta \in Nat /\ productos[p].stock \in Nat
          /\ DOMAIN productos[p].compraProd \subseteq Nat
      BY <3>1 DEF Producto
    <3>3. \A k \in DOMAIN productos[p].compraProd : productos[p].compraProd[k] \in Compra
      BY DEF All, IInv, Keys, GoodsType, EntriesExist
    <3>4. productos[p].promo \in DOMAIN promociones \cup {0}
      BY DEF All, Stock, StockType
    <3> QED
      BY <3>2, <3>3, <3>4
  <2>2. limit \in Sessions /\ pc \in {"menu", "comprando", "comentando"} \cup Ending /\ fuera \in BOOLEAN
    BY DEF All, Session
  <2>3. actor \in Nick \cup {NOBODY}
    BY DEF All, IInv, Desk
  <2>4. compras \in Seq(Nick \cup {NOBODY}) /\ DOMAIN item \subseteq Codigo \X Compra
    BY DEF All, IInv, Keys, GoodsType
  <2>5. \A i \in DOMAIN item : item[i] \in [cantidad : Nat, enviado : BOOLEAN]
    BY DEF All, Stock, StockType
  <2>6. UsersType
    BY DEF All, Subscribers
  <2>7. /\ vivos \subseteq ID /\ deUsuario \subseteq Nick \X ID
        /\ respuestas \subseteq ID \X ID /\ deProducto \subseteq Codigo \X ID
    BY DEF All, Threads, ThreadsType
  <2> QED
    BY <2>1, <2>2, <2>3, <2>4, <2>5, <2>6, <2>7 DEF TypeOK, UsersType
<1> QED
  BY <1>1, AllInvariance, PTL

\* A NULL is dereferenced only after some answer was not among those on the screen,
\* someone answered an answer, or a purchase was left unconfirmed with products in it.
THEOREM NullsNeedMisses == Spec => []NullNeedsAMiss
<1>1. All => NullNeedsAMiss
  <2> SUFFICES ASSUME All, pc = "null", ~fuera, nulosProducto # {}
               PROVE  \E i \in ID :
                        comentario[i].padre # 0 /\ \E p \in Codigo : <<p, i>> \in nulosProducto
    BY DEF NullNeedsAMiss, All, Misses
  <2>1. OnlyAnswers
    BY DEF All, Misses
  <2>2. PICK e \in nulosProducto : TRUE
    OBVIOUS
  <2>3. PICK p \in Codigo, i \in ID : e = <<p, i>> /\ comentario[i].padre # 0
    BY <2>1 DEF OnlyAnswers
  <2> QED
    BY <2>3
<1> QED
  BY <1>1, AllInvariance, PTL
=============================================================================
