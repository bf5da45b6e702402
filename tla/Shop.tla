-------------------------------- MODULE Shop --------------------------------
(***************************************************************************)
(* MERCADO FING as a whole: the sales side and the comments on products.   *)
(* A comment is pointed to from four places (its product or the comment it *)
(* answers, its author, and ContUsuario::colComentario, which is never     *)
(* cleaned), and estaComen asks with operator[], which inserts a NULL.     *)
(***************************************************************************)
EXTENDS ShopSales

VARIABLES
  comentario,     \* every comment ever made, by ID: what colComentario points to
  vivos,          \* the IDs of those that have not been deleted
  deProducto,     \* <<p, i>>: comentarios of product p maps i to a comment
  nulosProducto,  \* <<p, i>>: it maps i to NULL
  deUsuario,      \* <<n, i>>: comentarios of user n maps i to a comment
  nulosUsuario,   \* <<n, i>>: it maps i to NULL
  respuestas,     \* <<j, i>>: respuestas of comment j maps i to a comment
  tema            \* the product a longer menu option is about

comments == <<comentario, vivos, deProducto, nulosProducto, deUsuario, nulosUsuario, respuestas>>
vars     == <<sales, comments, tema>>

ID      == DOMAIN comentario
NuevoID == Len(comentario) + 1

\* Fault: the answers are not walked.
SinRespuestas(i) == {i}

\* a comment and the answers below it, as imprimirComenYHijos and
\* EliminoComentarioYHijos walk them
Hilo(i) ==
  LET hilo[j \in ID] == {j} \cup UNION {hilo[k] : k \in {k \in ID : <<j, k>> \in respuestas}}
  IN  hilo[i]

Init ==
  /\ SalesInit
  /\ comentario = <<>> /\ vivos = {} /\ tema = 0
  /\ deProducto = {} /\ nulosProducto = {}
  /\ deUsuario = {} /\ nulosUsuario = {}
  /\ respuestas = {}

-----------------------------------------------------------------------------
(* Leaving a comment: (menu h) *)

\* the menu option for user u and product p, from the start or in its loop
Comentando(u, p) ==
  \/ /\ AtMenu /\ UsersListed /\ u \in Existe
     /\ ProductsListed /\ p \in Codigo
  \/ pc = "comentando" /\ actor = u /\ tema = p

Nuevo(u, p, padre) ==
  /\ Len(comentario) < limit.comments
  /\ comentario' = Append(comentario, [autor |-> u, prod |-> p, padre |-> padre])
  /\ vivos' = vivos \cup {NuevoID}
  /\ deUsuario' = deUsuario \cup {<<u, NuevoID>>}
  /\ nulosUsuario' = nulosUsuario \ {<<u, NuevoID>>}
  /\ pc' = "menu" /\ actor' = NOBODY /\ tema' = 0
  /\ UNCHANGED <<limit, fuera, users, goods>>

\* a new comment; it may take the place of a NULL under its ID
CrearComentario(u, p) ==
  /\ Comentando(u, p)
  /\ Nuevo(u, p, 0)
  /\ deProducto' = deProducto \cup {<<p, NuevoID>>}
  /\ nulosProducto' = nulosProducto \ {<<p, NuevoID>>}
  /\ UNCHANGED respuestas

\* imprimirComDeProd dereferences every entry of the product
CaeAlListarComentarios(u, p) ==
  /\ Comentando(u, p)
  /\ \E i \in 1 .. NuevoID : <<p, i>> \in nulosProducto
  /\ Muere("null") /\ UNCHANGED <<fuera, comments, tema>>

SeListan(p) == \A i \in 1 .. NuevoID : <<p, i>> \notin nulosProducto

\* the answer has no product of its own: ProdPadre stays NULL
CrearHijo(u, p, i) ==
  /\ Comentando(u, p) /\ SeListan(p)
  /\ <<p, i>> \in deProducto
  /\ Nuevo(u, 0, i)
  /\ respuestas' = respuestas \cup {<<i, NuevoID>>}
  /\ UNCHANGED <<deProducto, nulosProducto>>

\* the IDs that imprimirComDeProd shows
Mostrados(p) == UNION {Hilo(i) : i \in {i \in ID : <<p, i>> \in deProducto}}

\* estaComen knows only the comments of the first level; the loop goes on
RespuestaRechazada(u, p, i) ==
  /\ Comentando(u, p) /\ SeListan(p)
  /\ <<p, i>> \notin deProducto
  /\ nulosProducto' = nulosProducto \cup {<<p, i>>}
  /\ fuera' = (fuera \/ i \notin Mostrados(p))
  /\ pc' = "comentando" /\ actor' = u /\ tema' = p
  /\ UNCHANGED <<limit, users, goods, comentario, vivos, deProducto, deUsuario,
                 nulosUsuario, respuestas>>

\* a code that is not there is refused, but its lookup stays
BuscaProducto(p) ==
  /\ AtMenu /\ UsersListed /\ Existe # {} /\ ProductsListed /\ p \notin Codigo
  /\ nulos' = nulos \cup {p}
  /\ fuera' = TRUE
  /\ UNCHANGED <<limit, pc, actor, users, productos, promociones, compras, item, comments, tema>>

-----------------------------------------------------------------------------
(* Deleting one: (menu i) *)

\* imprimirComentarios dereferences every entry of the user
CaeAlListarPropios(u) ==
  /\ AtMenu /\ UsersListed /\ u \in Existe
  /\ \E i \in 1 .. NuevoID : <<u, i>> \in nulosUsuario
  /\ Muere("null") /\ UNCHANGED <<fuera, comments, tema>>

\* an ID that is not one of u's is reported as an error, its lookup leaves a
\* NULL, and the option goes on with whatever colComentario has for it
EliminarComentario(u, i) ==
  /\ AtMenu /\ UsersListed /\ u \in Existe
  /\ \A k \in 1 .. NuevoID : <<u, k>> \notin nulosUsuario
  /\ fuera' = (fuera \/ <<u, i>> \notin deUsuario)
  /\ IF i \in vivos
     THEN LET hilo  == Hilo(i)
              padre == comentario[i].padre
          IN  /\ vivos' = vivos \ hilo
              /\ deUsuario' = deUsuario \ {<<comentario[k].autor, k>> : k \in hilo}
              /\ nulosUsuario' = IF <<u, i>> \in deUsuario THEN nulosUsuario
                                 ELSE nulosUsuario \cup {<<u, i>>}
              /\ respuestas' = {r \in respuestas : r[1] \notin hilo /\ r # <<padre, i>>}
              /\ deProducto' = IF padre = 0 THEN deProducto \ {<<comentario[i].prod, i>>}
                               ELSE deProducto
              /\ UNCHANGED <<limit, pc, actor, users, goods, comentario, nulosProducto, tema>>
     ELSE /\ Muere(IF i \in ID THEN "wild" ELSE "null")
          /\ UNCHANGED <<comments, tema>>

CommentsNext ==
  \/ \E u \in Nick, p \in Codigo :
       \/ CrearComentario(u, p)
       \/ CaeAlListarComentarios(u, p)
       \/ \E i \in 1 .. NuevoID : CrearHijo(u, p, i) \/ RespuestaRechazada(u, p, i)
  \/ \E p \in Typed : BuscaProducto(p)
  \/ \E u \in Nick :
       CaeAlListarPropios(u) \/ \E i \in 1 .. NuevoID : EliminarComentario(u, i)

Next == (SalesNext /\ UNCHANGED <<comments, tema>>) \/ CommentsNext

Spec == Init /\ [][Next]_vars

-----------------------------------------------------------------------------
(* Properties *)

Ending == {"null", "wild", "asks"}

\* Type correctness: the singletons' maps hold users, products, promotions,
\* purchases and comments, under keys of the right kind.
TypeOK ==
  /\ limit \in Sessions
  /\ pc \in {"menu", "comprando", "comentando"} \cup Ending
  /\ actor \in Nick \cup {NOBODY}
  /\ fuera \in BOOLEAN
  /\ colUsuarios \in [Nick -> {"none", "null", "cliente", "vendedor"}]
  /\ colSuscripciones \in [Nick -> SUBSET Nick]
  /\ suscriptores \in [Nick -> SUBSET Nick]
  /\ notificaciones \in [Nick -> Seq(DOMAIN promociones)]
  /\ leidas \in [Nick -> Seq(DOMAIN promociones)]
  /\ \A p \in Codigo : /\ productos[p].vend \in Nick
                       /\ productos[p].alta \in Nat /\ productos[p].stock \in Nat
                       /\ productos[p].promo \in DOMAIN promociones \cup {0}
                       /\ DOMAIN productos[p].compraProd \subseteq Nat
                       /\ \A k \in DOMAIN productos[p].compraProd :
                            productos[p].compraProd[k] \in Compra
  /\ compras \in Seq(Nick \cup {NOBODY})
  /\ DOMAIN item \subseteq Codigo \X Compra
  /\ \A i \in DOMAIN item : item[i] \in [cantidad : Nat, enviado : BOOLEAN]
  /\ vivos \subseteq ID
  /\ deUsuario \subseteq Nick \X ID
  /\ respuestas \subseteq ID \X ID
  /\ deProducto \subseteq Codigo \X ID

\* What has left the stock of a product (setStock in the loop of menu g) is
\* what its CompraProds hold, whatever was typed and whether or not the
\* purchases were confirmed.
StockIsConserved ==
  \A p \in Codigo :
    productos[p].alta =
      productos[p].stock + MapThenSumSet(LAMBDA i : item[i].cantidad,
                                         {i \in DOMAIN item : i[1] = p})

\* Menu j lists the numbers of purchases and marks findCompraProd(number): the
\* CompraProd it marks is the one of the purchase that was listed, and it had
\* not been sent, although the map has entries under two kinds of key.
ListedIsMarked ==
  \A p \in Codigo : \A id \in IdsCompras(p) :
    /\ id \in DOMAIN productos[p].compraProd
    /\ productos[p].compraProd[id] = id
    /\ ~item[<<p, id>>].enviado

\* A CompraProd that can no longer be found under its purchase's number (and so
\* never be sent) was the one of the purchase whose number is the code of the
\* product: no other collision of keys loses one.
OnlyOwnCodeCollides ==
  \A i \in DOMAIN item :
    LET p == i[1]  b == i[2]
    IN  b \notin DOMAIN productos[p].compraProd \/ productos[p].compraProd[b] # b
          => b = p

\* The summary shown before confirming (imprimirCompraCompleto) reads each
\* product's entry under its code: it is the one of this purchase.
SummaryIsOwn == pc = "comprando" => Resumen \subseteq {Len(compras)}

\* A promotion is delivered once to each client who had subscribed to the vendor
\* by then (as the client's own side has it), and to nobody else, read or not.
SubscribersAreNotified ==
  \A c \in Nick, q \in DOMAIN promociones :
    LET got == leidas[c] \o notificaciones[c]
    IN  Cardinality({k \in DOMAIN got : got[k] = q})
          = IF c \in promociones[q].audience THEN 1 ELSE 0

\* The four places that point to a comment agree after any sequence of comments,
\* answers and deletions, also of other people's: none of the maps that are
\* walked keeps a deleted comment or forgets one, and no answer outlives the
\* comment it answers.
MapsAgree ==
  pc \notin Ending =>
    /\ \A n \in Nick, i \in ID :
         <<n, i>> \in deUsuario <=> i \in vivos /\ comentario[i].autor = n
    /\ \A p \in Codigo, i \in ID :
         <<p, i>> \in deProducto <=>
           i \in vivos /\ comentario[i].padre = 0 /\ comentario[i].prod = p
    /\ \A j, i \in ID :
         <<j, i>> \in respuestas <=> i \in vivos /\ comentario[i].padre = j
    /\ \A i \in vivos : comentario[i].padre # 0 => comentario[i].padre \in vivos

\* A purchase that was not confirmed is among those that menu j would list for p.
ListsUnconfirmed(p) == \E b \in IdsCompras(p) : compras[b] = NOBODY

\* The program dereferences NULL only if some answer was not among those on the
\* screen, someone answered an answer (RespuestaRechazada), or a purchase that was
\* not confirmed left its products waiting to be sent (CaeAlListarCompras).
NullNeedsAMiss ==
  pc = "null" /\ ~fuera =>
    \/ \E i \in ID : comentario[i].padre # 0 /\ \E p \in Codigo : <<p, i>> \in nulosProducto
    \/ \E p \in Codigo : ListsUnconfirmed(p)

\* Every comment that menu h shows can be answered. The test data say so: they
\* answer the answer with ID 2.
ShownCanBeAnswered ==
  \A p \in Codigo : \A i \in Mostrados(p) : <<p, i>> \in deProducto
=============================================================================
