-------------------------- MODULE RamMarketTheorems --------------------------
(***************************************************************************)
(* The RAM market, for any sizes, rates and amounts: bytes and tokens add  *)
(* up, no conversion is worth more than its price, selling can never want  *)
(* more tokens than were staked, and limits cover what was bought.  Then   *)
(* celes.unregd over it: what was promised is in the table or granted, and *)
(* registrations make or lose no token.                                    *)
(***************************************************************************)
EXTENDS Unregd, AccountSumsTheorems

Market == [base : Nat \ {0}, quote : Nat \ {0}]
State == [max_ram : Nat, reserved : Nat, stake : Nat]
DbType == [liquid : [Accounts -> Nat], held : Nat, fees : Nat, market : Market,
           gstate : State, behind : Nat, rows : SUBSET Accounts,
           ram_bytes : [Accounts -> Nat], limit : [Accounts -> Int], leaked : Nat]

Product(d) == d.market.base * d.market.quote

(* What every step of an action on the market preserves.  The last part is *)
(* the strengthening that makes sales covered: the market is worth at      *)
(* least its first quote for every byte there is.                          *)
Totals(d) ==
  /\ d.gstate.reserved = AccountTotal(d.ram_bytes, N)
  /\ d.market.base + d.gstate.reserved = d.gstate.max_ram + d.leaked
  /\ d.market.quote = Quote + d.gstate.stake
  /\ d.held = d.gstate.stake
  /\ \A a \in Accounts \ d.rows : d.ram_bytes[a] = 0

Worth(d) == Product(d) >= Quote * (d.market.base + d.gstate.reserved)

Sound(d) == d \in DbType /\ Totals(d) /\ Worth(d)

LEMMA RamConstants ==
  /\ N \in Nat /\ Self \in Accounts /\ Existing \subseteq Accounts /\ Self \notin Existing
  /\ Tokens \in Nat /\ RamSize \in Nat \ {0} /\ Quote \in Nat \ {0} /\ GiftBytes \in Nat
  /\ Rates \subseteq Nat /\ Limits \subseteq Int /\ SupplyWrap \in Nat \ {0}
  /\ MaxRam \in Nat /\ MaxBehind \in Nat /\ MaxDecay \in Nat
BY RamAssumption DEF RamAssumption, Accounts

-----------------------------------------------------------------------------
(* Conversions.                                                            *)
LEMMA Growing ==
  ASSUME NEW x \in Int, NEW y \in Int, NEW z \in Nat, x <= y
  PROVE  x * z <= y * z
OBVIOUS

LEMMA Cancelling ==
  ASSUME NEW x \in Int, NEW y \in Int, NEW z \in Nat \ {0}, x * z >= y * z
  PROVE  x >= y
OBVIOUS

(* A conversion never empties the other connector, nor pays more than it   *)
(* takes at the new price.                                                 *)
LEMMA BancorOutputBounds ==
  ASSUME NEW i \in Nat \ {0}, NEW o \in Nat \ {0}, NEW x \in Nat
  PROVE  /\ BancorOutput(i, o, x) \in Nat
         /\ BancorOutput(i, o, x) < o
         /\ (i + x) * BancorOutput(i, o, x) <= x * o
<1> DEFINE out == (x * o) \div (i + x)
<1>1. x * o \in Nat /\ i + x \in Nat \ {0}
  OBVIOUS
<1>2. \A p \in Nat, q \in Nat \ {0} : p \div q \in Nat /\ q * (p \div q) <= p
  OBVIOUS
<1>3. out \in Nat /\ (i + x) * out <= x * o
  BY <1>1, <1>2
<1>4. x * o < (i + x) * o
  OBVIOUS
<1>5. out < o
  <2>1. SUFFICES ASSUME out >= o PROVE FALSE
    BY <1>3
  <2>2. o * (i + x) <= out * (i + x)
    BY <1>1, <1>3, <2>1, Growing
  <2>3. QED  BY <1>1, <1>3, <1>4, <2>2
<1>6. QED  BY <1>3, <1>5 DEF BancorOutput

(* Putting some of one into a connector for at most that much of the other *)
(* leaves the product no smaller.                                          *)
LEMMA ConversionKeepsProduct ==
  ASSUME NEW i \in Nat \ {0}, NEW o \in Nat \ {0}, NEW x \in Nat, NEW out \in Nat,
         out <= BancorOutput(i, o, x)
  PROVE  out < o /\ (i + x) * (o - out) >= i * o
<1> DEFINE most == BancorOutput(i, o, x)
<1>1. most \in Nat /\ most < o /\ (i + x) * most <= x * o /\ out <= most
  BY BancorOutputBounds
<1> HIDE DEF most
<1>2. (i + x) * out <= (i + x) * most
  <2>1. out * (i + x) <= most * (i + x)
    BY <1>1, Growing
  <2>2. QED  BY <1>1, <2>1
<1>3. (i + x) * (o - out) = i * o + x * o - (i + x) * out
  OBVIOUS
<1>4. QED  BY <1>1, <1>2, <1>3

(* A market worth its first quote for every byte pays for bytes there are  *)
(* with tokens that were staked.                                           *)
LEMMA SaleIsCovered ==
  ASSUME NEW base \in Nat \ {0}, NEW quote \in Nat \ {0}, NEW reserved \in Nat,
         NEW q \in Nat, base * quote >= q * (base + reserved),
         NEW bytes \in 0..reserved, NEW out \in Nat, out <= BancorOutput(base, quote, bytes)
  PROVE  quote - out >= q
<1>1. out < quote /\ (base + bytes) * (quote - out) >= base * quote
  BY ConversionKeepsProduct
<1>2. (base + bytes) * q <= (base + reserved) * q
  BY Growing
<1>3. (quote - out) * (base + bytes) >= q * (base + bytes)
  BY <1>1, <1>2
<1>4. QED  BY <1>3, <1>1, Cancelling

LEMMA FeeBounds ==
  ASSUME NEW amount \in Nat
  PROVE  Fee(amount) \in Nat /\ (amount > 0 => Fee(amount) > 0 /\ Fee(amount) <= amount)
BY DEF Fee

-----------------------------------------------------------------------------
(* How a change of the market keeps what must hold of it.                  *)
LEMMA DbParts ==
  ASSUME NEW d \in DbType
  PROVE  /\ d.market.base \in Nat \ {0} /\ d.market.quote \in Nat \ {0}
         /\ d.gstate.max_ram \in Nat /\ d.gstate.reserved \in Nat /\ d.gstate.stake \in Nat
         /\ d.held \in Nat /\ d.fees \in Nat /\ d.leaked \in Nat /\ d.behind \in Nat
         /\ d.ram_bytes \in [Accounts -> Nat] /\ d.limit \in [Accounts -> Int]
         /\ d.liquid \in [Accounts -> Nat] /\ d.rows \subseteq Accounts
         /\ Product(d) \in Nat /\ Quote * (d.market.base + d.gstate.reserved) \in Nat
BY RamConstants DEF DbType, Market, State, Product

LEMMA RamTotalChange ==
  ASSUME NEW f \in [Accounts -> Nat], NEW a \in Accounts, NEW v \in Nat
  PROVE  /\ [f EXCEPT ![a] = v] \in [Accounts -> Nat]
         /\ AccountTotal([f EXCEPT ![a] = v], N) = AccountTotal(f, N) - f[a] + v
         /\ AccountTotal(f, N) \in Nat /\ f[a] <= AccountTotal(f, N)
<1> DEFINE g == [f EXCEPT ![a] = v]
<1>1. /\ \A i \in 1..N : f[i] \in Nat /\ g[i] \in Nat /\ f[i] \in Int /\ g[i] \in Int
      /\ \A i \in 1..N : i # a => g[i] = f[i]
      /\ a \in 1..N /\ g[a] = v /\ N \in Nat /\ g \in [Accounts -> Nat]
  BY RamConstants DEF Accounts
<1> HIDE DEF g
<1>2. AccountTotal(g, N) = AccountTotal(f, N) - f[a] + v
  BY <1>1, AccountTotalChange
<1>3. AccountTotal(f, N) \in Nat /\ f[a] <= AccountTotal(f, N)
  BY <1>1, AccountTotalNat
<1>4. QED  BY <1>1, <1>2, <1>3 DEF g

(* Bytes that are added to those for sale.                                 *)
LEMMA AddedKeepsWorth ==
  ASSUME NEW d, Sound(d), NEW e \in DbType, NEW n \in Nat,
         e.market.base = d.market.base + n, e.market.quote = d.market.quote,
         e.gstate.reserved = d.gstate.reserved
  PROVE  Worth(e) /\ Product(e) >= Product(d)
<1>1. d \in DbType /\ d.market.quote >= Quote /\ Quote \in Nat
  BY DbParts, RamConstants DEF Sound, Totals
<1> USE <1>1, DbParts
<1>2. Product(e) = Product(d) + n * d.market.quote
  BY DEF Product
<1>3. n * d.market.quote \in Nat /\ Quote * n \in Nat /\ Quote * n <= n * d.market.quote
  BY Growing
<1>4. Quote * (e.market.base + e.gstate.reserved)
        = Quote * (d.market.base + d.gstate.reserved) + Quote * n
  OBVIOUS
<1>5. QED  BY <1>2, <1>3, <1>4 DEF Worth, Sound

(* A conversion between the bytes for sale and those reserved.             *)
LEMMA ConvertedKeepsWorth ==
  ASSUME NEW d, Sound(d), NEW e \in DbType, Product(e) >= Product(d),
         e.market.base + e.gstate.reserved = d.market.base + d.gstate.reserved
  PROVE  Worth(e)
BY DbParts DEF Worth, Sound

-----------------------------------------------------------------------------
(* Supply and attenuation.                                                 *)
LEMMA SuppliedSound ==
  ASSUME NEW d, Sound(d), rate \in Nat
  PROVE  /\ Sound(Supplied(d)) /\ Product(Supplied(d)) >= Product(d)
         /\ Supplied(d).rows = d.rows /\ Supplied(d).liquid = d.liquid
         /\ Supplied(d).behind = 0
<1> DEFINE new == (d.behind * rate) % SupplyWrap
           e == Supplied(d)
           m == [d.market EXCEPT !.base = @ + new]
           g == [d.gstate EXCEPT !.max_ram = @ + new]
<1>1. d \in DbType /\ new \in Nat
  BY RamConstants DEF Sound, DbType
<1>2. m \in Market /\ g \in State
  BY <1>1 DEF DbType, Market, State
<1>3. e = [d EXCEPT !.market = m, !.gstate = g, !.behind = 0]
  BY <1>1 DEF Supplied, DbType
<1>4. /\ m.base = d.market.base + new /\ m.quote = d.market.quote
      /\ g.max_ram = d.gstate.max_ram + new /\ g.reserved = d.gstate.reserved
      /\ g.stake = d.gstate.stake
  BY <1>1 DEF DbType, Market, State
<1> HIDE DEF new, e, m, g
<1>5. /\ e \in DbType /\ e.market = m /\ e.gstate = g /\ e.behind = 0
      /\ e.ram_bytes = d.ram_bytes /\ e.rows = d.rows /\ e.leaked = d.leaked /\ e.held = d.held
      /\ e.liquid = d.liquid
  BY <1>1, <1>2, <1>3 DEF DbType
<1>6. Totals(e)
  BY <1>1, <1>4, <1>5, DbParts DEF Totals, Sound
<1>7. Worth(e) /\ Product(e) >= Product(d)
  BY <1>1, <1>4, <1>5, AddedKeepsWorth
<1>8. QED  BY <1>5, <1>6, <1>7 DEF Sound, e

(* What bytes of the market sell for, up to all that are reserved.         *)
LEMMA SoldIsCovered ==
  ASSUME NEW d, Sound(d), NEW bytes \in 0..d.gstate.reserved, NEW out \in Nat,
         out <= TokensOut(d, bytes)
  PROVE  /\ out < d.market.quote /\ out <= d.gstate.stake /\ out <= d.held
         /\ (d.market.base + bytes) * (d.market.quote - out) >= Product(d)
<1>1. d \in DbType /\ bytes \in Nat /\ Quote \in Nat
  BY DbParts, RamConstants DEF Sound
<1> DEFINE b == d.market.base
           q == d.market.quote
<1>2. /\ b \in Nat \ {0} /\ q \in Nat \ {0} /\ out <= BancorOutput(b, q, bytes)
      /\ b * q >= Quote * (b + d.gstate.reserved) /\ d.gstate.reserved \in Nat
  BY <1>1, DbParts DEF TokensOut, Sound, Worth, Product
<1> HIDE DEF b, q
<1>3. out < q /\ (b + bytes) * (q - out) >= b * q
  BY <1>1, <1>2, ConversionKeepsProduct
<1>4. q - out >= Quote
  BY <1>1, <1>2, SaleIsCovered
<1>5. QED  BY <1>1, <1>3, <1>4, DbParts DEF b, q, Product, Sound, Totals

LEMMA AttenuatedSound ==
  ASSUME NEW d, Sound(d), NEW bytes \in Nat, NEW e \in Attenuated(d, bytes)
  PROVE  /\ Sound(e) /\ Product(e) >= Product(d)
         /\ e.rows = d.rows /\ e.liquid = d.liquid /\ e.behind = d.behind
<1>1. d \in DbType /\ Self \in Accounts
  BY RamConstants DEF Sound
<1>2. CASE NotAttenuated(d, bytes)
  BY <1>1, <1>2, DbParts DEF Attenuated
<1>3. CASE ~NotAttenuated(d, bytes)
  <2>1. Self \in d.rows /\ bytes > 0 /\ d.ram_bytes[Self] - bytes > 0
    BY <1>1, <1>3, DbParts DEF NotAttenuated
  <2>2. PICK out \in Nat :
          /\ out <= TokensOut(d, bytes)
          /\ e = IF out = 0
                 THEN [d EXCEPT !.market.base = @ + bytes, !.leaked = @ + bytes]
                 ELSE [d EXCEPT !.market.base = @ + bytes,
                                !.market.quote = @ - out,
                                !.gstate.reserved = @ - bytes,
                                !.gstate.stake = @ - out,
                                !.ram_bytes[Self] = @ - bytes,
                                !.held = @ - out,
                                !.fees = @ + out,
                                !.limit[Self] = d.ram_bytes[Self] - bytes]
    <3>1. TokensOut(d, bytes) \in Nat
      BY <1>1, DbParts, BancorOutputBounds DEF TokensOut
    <3>2. \A out \in Converted(d.market, bytes) : out \in Nat /\ out <= TokensOut(d, bytes)
      BY <3>1 DEF Converted, TokensOut
    <3>3. QED  BY <1>3, <3>2 DEF Attenuated
  <2>3. CASE out = 0
    <3> DEFINE m == [d.market EXCEPT !.base = @ + bytes]
               k == d.leaked + bytes
    <3>0. k \in Nat
      BY <1>1, DbParts
    <3>1. m \in Market /\ m.base = d.market.base + bytes /\ m.quote = d.market.quote
      BY <1>1 DEF DbType, Market
    <3>2. e = [d EXCEPT !.market = m, !.leaked = k]
      BY <1>1, <2>2, <2>3 DEF DbType
    <3> HIDE DEF m, k
    <3>3. /\ e \in DbType /\ e.market = m /\ e.gstate = d.gstate /\ e.behind = d.behind
          /\ e.ram_bytes = d.ram_bytes /\ e.rows = d.rows /\ e.leaked = k
          /\ e.held = d.held /\ e.liquid = d.liquid
      BY <1>1, <3>0, <3>1, <3>2 DEF DbType
    <3>4. Totals(e)
      BY <1>1, <3>1, <3>3, DbParts DEF Totals, Sound, k
    <3>5. Worth(e) /\ Product(e) >= Product(d)
      BY <1>1, <3>1, <3>3, AddedKeepsWorth
    <3>6. QED  BY <3>3, <3>4, <3>5 DEF Sound
  <2>4. CASE out # 0
    <3> DEFINE m == [d.market EXCEPT !.base = @ + bytes, !.quote = @ - out]
               g == [d.gstate EXCEPT !.reserved = @ - bytes, !.stake = @ - out]
               r == [d.ram_bytes EXCEPT ![Self] = d.ram_bytes[Self] - bytes]
               l == [d.limit EXCEPT ![Self] = d.ram_bytes[Self] - bytes]
    <3>1. d.ram_bytes[Self] \in Nat /\ d.gstate.reserved = AccountTotal(d.ram_bytes, N)
      BY <1>1, DbParts DEF Sound, Totals
    <3>2. /\ r \in [Accounts -> Nat] /\ bytes <= d.gstate.reserved
          /\ AccountTotal(r, N) = AccountTotal(d.ram_bytes, N) - bytes
      <4> DEFINE v == d.ram_bytes[Self] - bytes
      <4>1. v \in Nat /\ d.ram_bytes \in [Accounts -> Nat]
        BY <1>1, <2>1, <3>1, DbParts
      <4> HIDE DEF v
      <4>2. /\ [d.ram_bytes EXCEPT ![Self] = v] \in [Accounts -> Nat]
            /\ AccountTotal([d.ram_bytes EXCEPT ![Self] = v], N)
                 = AccountTotal(d.ram_bytes, N) - d.ram_bytes[Self] + v
            /\ AccountTotal(d.ram_bytes, N) \in Nat
            /\ d.ram_bytes[Self] <= AccountTotal(d.ram_bytes, N)
        BY <1>1, <4>1, RamTotalChange
      <4>3. QED  BY <2>1, <3>1, <4>1, <4>2 DEF v
    <3>3. /\ out < d.market.quote /\ out <= d.gstate.stake /\ out <= d.held
          /\ (d.market.base + bytes) * (d.market.quote - out) >= Product(d)
      BY <1>1, <2>2, <3>2, DbParts, SoldIsCovered
    <3>4. /\ m \in Market /\ m.base = d.market.base + bytes /\ m.quote = d.market.quote - out
          /\ g \in State /\ g.reserved = d.gstate.reserved - bytes
          /\ g.stake = d.gstate.stake - out /\ g.max_ram = d.gstate.max_ram
      <4>1. /\ d.market.base + bytes \in Nat \ {0} /\ d.market.quote - out \in Nat \ {0}
            /\ d.gstate.reserved - bytes \in Nat /\ d.gstate.stake - out \in Nat
        BY <1>1, <3>2, <3>3, DbParts
      <4>2. d.market \in Market /\ d.gstate \in State
        BY <1>1 DEF DbType
      <4>3. QED  BY <4>1, <4>2 DEF Market, State
    <3>5. l \in [Accounts -> Int] /\ d.held - out \in Nat /\ d.fees + out \in Nat
      BY <1>1, <3>1, <3>3, DbParts
    <3>6. e = [d EXCEPT !.market = m, !.gstate = g, !.ram_bytes = r, !.held = d.held - out,
                        !.fees = d.fees + out, !.limit = l]
      BY <1>1, <2>2, <2>4 DEF DbType
    <3>7. \A a \in Accounts \ d.rows : r[a] = 0
      BY <1>1, <2>1, DbParts DEF Sound, Totals
    <3> HIDE DEF m, g, r, l
    <3>8. /\ e \in DbType /\ e.market = m /\ e.gstate = g /\ e.behind = d.behind
          /\ e.ram_bytes = r /\ e.rows = d.rows /\ e.leaked = d.leaked
          /\ e.held = d.held - out /\ e.liquid = d.liquid
      BY <1>1, <3>2, <3>4, <3>5, <3>6 DEF DbType
    <3>9. Totals(e)
      <4>1. \A a \in Accounts \ e.rows : e.ram_bytes[a] = 0
        BY <3>7, <3>8
      <4>2. /\ e.gstate.reserved = AccountTotal(e.ram_bytes, N)
            /\ e.market.base + e.gstate.reserved = e.gstate.max_ram + e.leaked
            /\ e.market.quote = Quote + e.gstate.stake /\ e.held = e.gstate.stake
        BY <1>1, <3>1, <3>2, <3>4, <3>8, DbParts, RamConstants DEF Totals, Sound
      <4>3. QED  BY <4>1, <4>2 DEF Totals
    <3>10. Product(e) >= Product(d)
      BY <3>3, <3>4, <3>8 DEF Product
    <3>11. Worth(e)
      <4>1. m.base + g.reserved = d.market.base + d.gstate.reserved
        BY <1>1, <3>4, DbParts
      <4>2. QED  BY <3>8, <3>10, <4>1, ConvertedKeepsWorth
    <3>12. QED  BY <3>8, <3>9, <3>10, <3>11 DEF Sound
  <2>5. QED  BY <2>3, <2>4
<1>4. QED  BY <1>2, <1>3

-----------------------------------------------------------------------------
(* What does not touch the market.                                         *)
SameMarket(d, e) ==
  /\ e \in DbType
  /\ e.market = d.market /\ e.gstate = d.gstate /\ e.ram_bytes = d.ram_bytes
  /\ e.held = d.held /\ e.leaked = d.leaked
  /\ \A a \in Accounts \ e.rows : d.ram_bytes[a] = 0

LEMMA SameMarketSound ==
  ASSUME NEW d, Sound(d), NEW e, SameMarket(d, e)
  PROVE  Sound(e) /\ Product(e) = Product(d)
BY DEF SameMarket, Sound, Totals, Worth, Product

LEMMA LimitSet ==
  ASSUME NEW d \in DbType, NEW a \in Accounts, NEW v \in Int
  PROVE  LET e == [d EXCEPT !.limit[a] = v]
         IN /\ e \in DbType
            /\ e.market = d.market /\ e.gstate = d.gstate /\ e.ram_bytes = d.ram_bytes
            /\ e.held = d.held /\ e.leaked = d.leaked /\ e.rows = d.rows
            /\ e.liquid = d.liquid /\ e.behind = d.behind
<1> DEFINE l == [d.limit EXCEPT ![a] = v]
           e == [d EXCEPT !.limit[a] = v]
<1>1. l \in [Accounts -> Int] /\ e = [d EXCEPT !.limit = l]
  BY DEF DbType
<1> HIDE DEF l, e
<1>2. /\ e \in DbType
      /\ e.market = d.market /\ e.gstate = d.gstate /\ e.ram_bytes = d.ram_bytes
      /\ e.held = d.held /\ e.leaked = d.leaked /\ e.rows = d.rows
      /\ e.liquid = d.liquid /\ e.behind = d.behind
  BY <1>1 DEF DbType
<1>3. QED  BY <1>2 DEF e

LEMMA LimitedSound ==
  ASSUME NEW d, Sound(d), NEW a \in Accounts
  PROVE  /\ Sound(Limited(d, a)) /\ Product(Limited(d, a)) = Product(d)
         /\ Limited(d, a).rows = d.rows /\ Limited(d, a).liquid = d.liquid
         /\ Limited(d, a).behind = d.behind
<1>1. d \in DbType /\ d.ram_bytes[a] + GiftBytes \in Int /\ Product(d) \in Nat
  BY RamConstants, DbParts DEF Sound
<1>2. CASE a \in managed
  BY <1>1, <1>2 DEF Limited
<1>3. CASE a \notin managed
  <2> DEFINE v == d.ram_bytes[a] + GiftBytes
             e == [d EXCEPT !.limit[a] = v]
  <2>1. Limited(d, a) = e
    BY <1>3 DEF Limited
  <2> HIDE DEF v
  <2>2. /\ e \in DbType
        /\ e.market = d.market /\ e.gstate = d.gstate /\ e.ram_bytes = d.ram_bytes
        /\ e.held = d.held /\ e.leaked = d.leaked /\ e.rows = d.rows
        /\ e.liquid = d.liquid /\ e.behind = d.behind
    BY <1>1, LimitSet DEF v
  <2> HIDE DEF e
  <2>3. SameMarket(d, e)
    BY <2>2 DEF SameMarket, Sound, Totals
  <2>4. QED  BY <2>1, <2>2, <2>3, SameMarketSound
<1>4. QED  BY <1>2, <1>3

-----------------------------------------------------------------------------
(* Buying and selling.                                                     *)
LEMMA BoughtSound ==
  ASSUME NEW d, Sound(d), NEW payer \in Accounts, NEW receiver \in Accounts, NEW quant \in Nat,
         MayBuy(d, payer, quant)
  PROVE  LET e == [Bought(d, receiver, quant) EXCEPT !.liquid[payer] = @ - quant]
         IN /\ Sound(e) /\ Product(e) >= Product(d)
            /\ e.rows = d.rows \cup {receiver} /\ e.behind = d.behind
<1> DEFINE after == quant - Fee(quant)
           bytes == BytesOut(d, quant)
           m == [d.market EXCEPT !.quote = @ + after, !.base = @ - bytes]
           g == [d.gstate EXCEPT !.reserved = @ + bytes, !.stake = @ + after]
           r == [d.ram_bytes EXCEPT ![receiver] = @ + bytes]
           b == [d EXCEPT !.held = @ + after,
                          !.fees = @ + Fee(quant),
                          !.market.quote = @ + after,
                          !.market.base = @ - bytes,
                          !.gstate.reserved = @ + bytes,
                          !.gstate.stake = @ + after,
                          !.ram_bytes[receiver] = @ + bytes,
                          !.rows = @ \cup {receiver}]
           h == d.held + after
           f == d.fees + Fee(quant)
           w == d.rows \cup {receiver}
<1>1. /\ d \in DbType /\ after \in Nat /\ Fee(quant) \in Nat
      /\ quant <= d.liquid[payer] /\ d.liquid \in [Accounts -> Nat]
  BY FeeBounds, DbParts DEF Sound, MayBuy
<1>2. /\ bytes \in Nat /\ bytes < d.market.base
      /\ (d.market.quote + after) * (d.market.base - bytes) >= d.market.quote * d.market.base
  <2>1. d.market.quote \in Nat \ {0} /\ d.market.base \in Nat \ {0}
    BY <1>1, DbParts
  <2> HIDE DEF after
  <2>2. BancorOutput(d.market.quote, d.market.base, after) \in Nat
    BY <1>1, <2>1, BancorOutputBounds
  <2>3. bytes = BancorOutput(d.market.quote, d.market.base, after)
    BY DEF BytesOut, after
  <2> HIDE DEF bytes
  <2>4. bytes \in Nat /\ bytes <= BancorOutput(d.market.quote, d.market.base, after)
    BY <2>2, <2>3
  <2>5. QED  BY <1>1, <2>1, <2>4, ConversionKeepsProduct
<1> HIDE DEF after, bytes
<1>3. /\ m \in Market /\ m.base = d.market.base - bytes /\ m.quote = d.market.quote + after
      /\ g \in State /\ g.reserved = d.gstate.reserved + bytes
      /\ g.stake = d.gstate.stake + after /\ g.max_ram = d.gstate.max_ram
  <2>1. /\ d.market.base - bytes \in Nat \ {0} /\ d.market.quote + after \in Nat \ {0}
        /\ d.gstate.reserved + bytes \in Nat /\ d.gstate.stake + after \in Nat
    BY <1>1, <1>2, DbParts
  <2>2. d.market \in Market /\ d.gstate \in State
    BY <1>1 DEF DbType
  <2>3. QED  BY <2>1, <2>2 DEF Market, State
<1>4. /\ r \in [Accounts -> Nat]
      /\ AccountTotal(r, N) = AccountTotal(d.ram_bytes, N) + bytes
      /\ AccountTotal(d.ram_bytes, N) \in Nat
  <2> DEFINE v == d.ram_bytes[receiver] + bytes
  <2>1. v \in Nat /\ d.ram_bytes[receiver] \in Nat /\ d.ram_bytes \in [Accounts -> Nat]
    BY <1>1, <1>2, DbParts
  <2>2. r = [d.ram_bytes EXCEPT ![receiver] = v]
    OBVIOUS
  <2> HIDE DEF v, r
  <2>3. /\ r \in [Accounts -> Nat] /\ AccountTotal(d.ram_bytes, N) \in Nat
        /\ AccountTotal(r, N) = AccountTotal(d.ram_bytes, N) - d.ram_bytes[receiver] + v
    BY <2>1, <2>2, RamTotalChange
  <2>4. QED  BY <1>2, <2>1, <2>3 DEF v
<1>5. h \in Nat /\ f \in Nat /\ w \subseteq Accounts
  BY <1>1, DbParts
<1>6. b = [d EXCEPT !.market = m, !.gstate = g, !.ram_bytes = r, !.held = h, !.fees = f,
                    !.rows = w]
  BY <1>1 DEF DbType
<1>7. \A a \in Accounts \ w : r[a] = 0
  BY <1>1, DbParts DEF Sound, Totals
<1>8. h = g.stake /\ g.reserved = AccountTotal(r, N) /\ m.quote = Quote + g.stake
  BY <1>1, <1>2, <1>3, <1>4, DbParts, RamConstants DEF Sound, Totals
<1>9. m.base + g.reserved = g.max_ram + d.leaked
  BY <1>1, <1>2, <1>3, DbParts DEF Sound, Totals
<1>10. m.base + g.reserved = d.market.base + d.gstate.reserved
  BY <1>1, <1>2, <1>3, DbParts
<1>11. Bought(d, receiver, quant) = Limited(b, receiver)
  BY DEF Bought, after, bytes
<1> HIDE DEF m, g, r, b, h, f, w
<1>12. /\ b \in DbType /\ b.market = m /\ b.gstate = g /\ b.behind = d.behind
       /\ b.ram_bytes = r /\ b.rows = w /\ b.leaked = d.leaked
       /\ b.held = h /\ b.liquid = d.liquid
  BY <1>1, <1>3, <1>4, <1>5, <1>6 DEF DbType
<1>13. Sound(b) /\ Product(b) >= Product(d)
  <2>1. Totals(b)
    BY <1>7, <1>8, <1>9, <1>12 DEF Totals
  <2>2. Product(b) >= Product(d)
    <3>1. /\ m.quote \in Nat /\ m.base \in Nat /\ d.market.quote \in Nat /\ d.market.base \in Nat
          /\ m.quote * m.base >= d.market.quote * d.market.base
      BY <1>1, <1>2, <1>3, <1>12, DbParts
    <3>2. QED  BY <1>12, <3>1 DEF Product
  <2>3. Worth(b)
    BY <1>10, <1>12, <2>2, ConvertedKeepsWorth
  <2>4. QED  BY <1>12, <2>1, <2>2, <2>3 DEF Sound
<1> DEFINE c == Limited(b, receiver)
           l == [c.liquid EXCEPT ![payer] = @ - quant]
           e == [c EXCEPT !.liquid[payer] = @ - quant]
<1>14. Sound(c) /\ Product(c) = Product(b) /\ c.rows = w /\ c.liquid = d.liquid /\ c.behind = d.behind
  BY <1>12, <1>13, LimitedSound
<1> HIDE DEF c
<1>15. c \in DbType /\ l \in [Accounts -> Nat] /\ e = [c EXCEPT !.liquid = l]
  BY <1>1, <1>14 DEF Sound, DbType
<1> HIDE DEF l, e
<1>16. /\ e \in DbType /\ e.market = c.market /\ e.gstate = c.gstate /\ e.ram_bytes = c.ram_bytes
       /\ e.held = c.held /\ e.leaked = c.leaked /\ e.rows = c.rows /\ e.behind = c.behind
  BY <1>15 DEF DbType
<1>17. SameMarket(c, e)
  BY <1>14, <1>16 DEF SameMarket, Sound, Totals
<1>18. Sound(e) /\ Product(e) = Product(c)
  BY <1>14, <1>17, SameMarketSound
<1>19. QED  BY <1>11, <1>13, <1>14, <1>16, <1>18 DEF e, c, w

LEMMA SoldSound ==
  ASSUME NEW d, Sound(d), NEW a \in Accounts, NEW bytes \in Nat, MaySell(d, a, bytes)
  PROVE  /\ Sound(Sold(d, a, bytes)) /\ Product(Sold(d, a, bytes)) >= Product(d)
         /\ Sold(d, a, bytes).rows = d.rows /\ Sold(d, a, bytes).behind = d.behind
<1> DEFINE out == TokensOut(d, bytes)
           m == [d.market EXCEPT !.base = @ + bytes, !.quote = @ - out]
           g == [d.gstate EXCEPT !.reserved = @ - bytes, !.stake = @ - out]
           r == [d.ram_bytes EXCEPT ![a] = @ - bytes]
           l == [d.liquid EXCEPT ![a] = @ + out - Fee(out)]
           h == d.held - out
           f == d.fees + Fee(out)
           s == [d EXCEPT !.market.base = @ + bytes,
                          !.market.quote = @ - out,
                          !.gstate.reserved = @ - bytes,
                          !.gstate.stake = @ - out,
                          !.ram_bytes[a] = @ - bytes,
                          !.held = @ - out,
                          !.liquid[a] = @ + out - Fee(out),
                          !.fees = @ + Fee(out)]
<1>1. /\ d \in DbType /\ a \in d.rows /\ bytes <= d.ram_bytes[a] /\ d.ram_bytes[a] \in Nat
      /\ d.gstate.reserved = AccountTotal(d.ram_bytes, N)
  BY DbParts DEF Sound, Totals, MaySell
<1>2. out \in Nat /\ out > 1
  <2>1. out \in Nat
    BY <1>1, DbParts, BancorOutputBounds DEF TokensOut
  <2>2. QED  BY <2>1 DEF MaySell
<1>3. /\ r \in [Accounts -> Nat] /\ bytes <= d.gstate.reserved
      /\ AccountTotal(r, N) = AccountTotal(d.ram_bytes, N) - bytes
  <2> DEFINE v == d.ram_bytes[a] - bytes
  <2>1. v \in Nat /\ d.ram_bytes \in [Accounts -> Nat] /\ r = [d.ram_bytes EXCEPT ![a] = v]
    BY <1>1, DbParts
  <2> HIDE DEF v, r
  <2>2. /\ r \in [Accounts -> Nat] /\ AccountTotal(d.ram_bytes, N) \in Nat
        /\ AccountTotal(r, N) = AccountTotal(d.ram_bytes, N) - d.ram_bytes[a] + v
        /\ d.ram_bytes[a] <= AccountTotal(d.ram_bytes, N)
    BY <2>1, RamTotalChange
  <2>3. QED  BY <1>1, <2>2 DEF v
<1>4. /\ out < d.market.quote /\ out <= d.gstate.stake /\ out <= d.held
      /\ (d.market.base + bytes) * (d.market.quote - out) >= Product(d)
  <2>1. bytes \in 0..d.gstate.reserved
    BY <1>1, <1>3, DbParts
  <2> HIDE DEF out
  <2>2. out <= TokensOut(d, bytes)
    BY <1>2 DEF out
  <2>3. QED  BY <1>2, <2>1, <2>2, SoldIsCovered
<1> HIDE DEF out
<1>5. /\ m \in Market /\ m.base = d.market.base + bytes /\ m.quote = d.market.quote - out
      /\ g \in State /\ g.reserved = d.gstate.reserved - bytes
      /\ g.stake = d.gstate.stake - out /\ g.max_ram = d.gstate.max_ram
  <2>1. /\ d.market.base + bytes \in Nat \ {0} /\ d.market.quote - out \in Nat \ {0}
        /\ d.gstate.reserved - bytes \in Nat /\ d.gstate.stake - out \in Nat
    BY <1>1, <1>2, <1>3, <1>4, DbParts
  <2>2. d.market \in Market /\ d.gstate \in State
    BY <1>1 DEF DbType
  <2>3. QED  BY <2>1, <2>2 DEF Market, State
<1>6. h \in Nat /\ f \in Nat /\ l \in [Accounts -> Nat]
  BY <1>1, <1>2, <1>4, FeeBounds, DbParts
<1>7. s = [d EXCEPT !.market = m, !.gstate = g, !.ram_bytes = r, !.held = h, !.liquid = l,
                    !.fees = f]
  BY <1>1 DEF DbType
<1>8. \A x \in Accounts \ d.rows : r[x] = 0
  BY <1>1, DbParts DEF Sound, Totals
<1>9. /\ h = g.stake /\ g.reserved = AccountTotal(r, N) /\ m.quote = Quote + g.stake
      /\ m.base + g.reserved = g.max_ram + d.leaked
      /\ m.base + g.reserved = d.market.base + d.gstate.reserved
  BY <1>1, <1>2, <1>3, <1>5, DbParts, RamConstants DEF Sound, Totals
<1>10. Sold(d, a, bytes) = Limited(s, a)
  BY DEF Sold, out
<1> HIDE DEF m, g, r, l, h, f, s
<1>11. /\ s \in DbType /\ s.market = m /\ s.gstate = g /\ s.behind = d.behind
       /\ s.ram_bytes = r /\ s.rows = d.rows /\ s.leaked = d.leaked /\ s.held = h
  BY <1>1, <1>3, <1>5, <1>6, <1>7 DEF DbType
<1>12. Totals(s)
  BY <1>8, <1>9, <1>11 DEF Totals
<1>13. Product(s) >= Product(d)
  BY <1>4, <1>5, <1>11 DEF Product
<1>14. Sound(s)
  BY <1>9, <1>11, <1>12, <1>13, ConvertedKeepsWorth DEF Sound
<1>15. QED  BY <1>10, <1>11, <1>13, <1>14, LimitedSound

LEMMA PurchasesSound ==
  ASSUME NEW d, Sound(d), NEW payer \in Accounts, NEW receiver \in Accounts, NEW quant \in Nat,
         NEW e \in Purchases(d, payer, receiver, quant), rate \in Nat
  PROVE  /\ Sound(e) /\ Product(e) >= Product(d)
         /\ e.rows = d.rows \cup {receiver} /\ e.behind = 0
<1>0. PICK bytes \in Decays : \E c \in Attenuated(Supplied(d), bytes) :
        /\ MayBuy(c, payer, quant)
        /\ e = [Bought(c, receiver, quant) EXCEPT !.liquid[payer] = @ - quant]
  BY DEF Purchases
<1>1. PICK c \in Attenuated(Supplied(d), bytes) :
        /\ MayBuy(c, payer, quant)
        /\ e = [Bought(c, receiver, quant) EXCEPT !.liquid[payer] = @ - quant]
  BY <1>0
<1>2. /\ Sound(Supplied(d)) /\ Product(Supplied(d)) >= Product(d)
      /\ Supplied(d).rows = d.rows /\ Supplied(d).behind = 0 /\ bytes \in Nat
  BY SuppliedSound, RamConstants DEF Decays
<1>3. /\ Sound(c) /\ Product(c) >= Product(Supplied(d)) /\ c.rows = d.rows /\ c.behind = 0
  BY <1>2, AttenuatedSound
<1>4. /\ Sound(e) /\ Product(e) >= Product(c) /\ e.rows = c.rows \cup {receiver}
      /\ e.behind = c.behind
  BY <1>1, <1>3, BoughtSound
<1>5. QED  BY <1>2, <1>3, <1>4, DbParts DEF Sound

-----------------------------------------------------------------------------
(* The invariant, and what every step comes to: one change of the market,  *)
(* which Commit writes.                                                    *)
Frame ==
  /\ exists \subseteq Accounts /\ rows \subseteq exists /\ managed \subseteq exists
  /\ rate \in Rates \cup {0} /\ behind \in 0..MaxBehind

RamInv == Sound(Db) /\ Frame

Change(d) ==
  /\ Sound(d) /\ Product(d) >= Product(Db) /\ Commit(d)
  /\ exists \subseteq exists' /\ exists' \subseteq Accounts
  /\ d.rows \subseteq exists' /\ managed' \subseteq exists'
  /\ rate' \in Rates \cup {0} /\ d.behind \in 0..MaxBehind

LEMMA DbFields ==
  /\ Db.market = market /\ Db.gstate = gstate /\ Db.ram_bytes = ram_bytes /\ Db.held = held
  /\ Db.rows = rows /\ Db.behind = behind /\ Db.leaked = leaked /\ Db.limit = limit
  /\ Db.liquid = liquid /\ Db.fees = fees
BY DEF Db

LEMMA LimitChange ==
  ASSUME NEW a \in Accounts, NEW v \in Int, RamInv
  PROVE  LET e == [Db EXCEPT !.limit[a] = v]
         IN Sound(e) /\ Product(e) >= Product(Db) /\ e.rows = rows /\ e.behind = behind
<1> DEFINE e == [Db EXCEPT !.limit[a] = v]
<1>1. Sound(Db) /\ Db \in DbType /\ Product(Db) \in Nat
  BY DbParts DEF RamInv, Sound
<1>2. /\ e \in DbType
      /\ e.market = Db.market /\ e.gstate = Db.gstate /\ e.ram_bytes = Db.ram_bytes
      /\ e.held = Db.held /\ e.leaked = Db.leaked /\ e.rows = Db.rows
      /\ e.liquid = Db.liquid /\ e.behind = Db.behind
  BY <1>1, LimitSet
<1> HIDE DEF e
<1>3. SameMarket(Db, e)
  BY <1>1, <1>2 DEF SameMarket, Sound, Totals
<1>4. Sound(e) /\ Product(e) = Product(Db)
  BY <1>1, <1>3, SameMarketSound
<1>5. QED  BY <1>1, <1>2, <1>4, DbFields DEF e

(* A row that comes, or goes with no RAM in it.                            *)
LEMMA RowsChange ==
  ASSUME NEW d, Sound(d), NEW w \in SUBSET Accounts, \A a \in Accounts \ w : d.ram_bytes[a] = 0
  PROVE  LET e == [d EXCEPT !.rows = w]
         IN Sound(e) /\ Product(e) = Product(d) /\ e.rows = w /\ e.behind = d.behind
<1> DEFINE e == [d EXCEPT !.rows = w]
<1>1. /\ e \in DbType /\ e.rows = w /\ e.behind = d.behind
      /\ e.market = d.market /\ e.gstate = d.gstate /\ e.ram_bytes = d.ram_bytes
      /\ e.held = d.held /\ e.leaked = d.leaked
  BY DEF Sound, DbType
<1> HIDE DEF e
<1>2. SameMarket(d, e)
  BY <1>1 DEF SameMarket
<1>3. QED  BY <1>1, <1>2, SameMarketSound DEF e

-----------------------------------------------------------------------------
(* One lemma per action.                                                   *)
LEMMA OnBlockChanges ==
  ASSUME RamInv, behind < MaxBehind, OnBlock
  PROVE  \E d : Change(d)
<1> DEFINE b == [Db EXCEPT !.behind = @ + 1]
<1>1. PICK bytes \in Decays : \E d \in Attenuated(b, bytes) : Commit(d)
  BY DEF OnBlock
<1>2. PICK d \in Attenuated(b, bytes) : Commit(d)
  BY <1>1
<1>3. Sound(Db) /\ Db \in DbType /\ Product(Db) \in Nat /\ bytes \in Nat /\ behind \in Nat
  BY RamConstants, DbParts, DbFields DEF RamInv, Sound, Decays
<1>4. /\ b \in DbType /\ b.market = Db.market /\ b.gstate = Db.gstate /\ b.rows = Db.rows
      /\ b.ram_bytes = Db.ram_bytes /\ b.held = Db.held /\ b.leaked = Db.leaked
      /\ b.behind = behind + 1
  BY <1>3, DbFields DEF DbType
<1> HIDE DEF b
<1>5. SameMarket(Db, b)
  BY <1>3, <1>4 DEF SameMarket, Sound, Totals
<1>6. Sound(b) /\ Product(b) = Product(Db)
  BY <1>3, <1>5, SameMarketSound
<1>7. Sound(d) /\ Product(d) >= Product(b) /\ d.rows = b.rows /\ d.behind = b.behind
  BY <1>3, <1>6, AttenuatedSound
<1>8. /\ UNCHANGED <<exists, rate, managed>> /\ d.rows = rows /\ d.behind \in 0..MaxBehind
      /\ Product(d) >= Product(Db)
  BY <1>3, <1>4, <1>6, <1>7, RamConstants, DbFields DEF OnBlock, RamInv, Frame
<1>9. QED  BY <1>2, <1>7, <1>8 DEF Change, RamInv, Frame

LEMMA BuyRamChanges ==
  ASSUME RamInv, NEW payer \in Accounts, NEW receiver \in Accounts, NEW quant \in Nat,
         BuyRam(payer, receiver, quant)
  PROVE  \E d : Change(d)
<1>1. PICK d \in Purchases(Db, payer, receiver, quant) : Commit(d)
  BY DEF BuyRam
<1>2. Sound(Db) /\ rate \in Nat
  BY RamConstants DEF RamInv, Frame
<1>3. Sound(d) /\ Product(d) >= Product(Db) /\ d.rows = rows \cup {receiver} /\ d.behind = 0
  BY <1>2, PurchasesSound, DbFields
<1>4. receiver \in exists /\ UNCHANGED <<exists, rate, managed>>
  BY DEF BuyRam
<1>5. QED  BY <1>1, <1>3, <1>4, RamConstants DEF Change, RamInv, Frame

LEMMA SellRamChanges ==
  ASSUME RamInv, NEW a \in Accounts, NEW bytes \in Nat, SellRam(a, bytes)
  PROVE  \E d : Change(d)
<1>1. PICK decay \in Decays : \E d \in Attenuated(Supplied(Db), decay) :
        MaySell(d, a, bytes) /\ Commit(Sold(d, a, bytes))
  BY DEF SellRam
<1>2. PICK d \in Attenuated(Supplied(Db), decay) : MaySell(d, a, bytes) /\ Commit(Sold(d, a, bytes))
  BY <1>1
<1>3. Sound(Db) /\ rate \in Nat /\ decay \in Nat
  BY RamConstants DEF RamInv, Frame, Decays
<1> DEFINE u == Supplied(Db)
           e == Sold(d, a, bytes)
<1>4. Sound(u) /\ Product(u) >= Product(Db) /\ u.rows = rows /\ u.behind = 0
  BY <1>3, SuppliedSound, DbFields
<1>5. Sound(d) /\ Product(d) >= Product(u) /\ d.rows = u.rows /\ d.behind = u.behind
  BY <1>3, <1>4, AttenuatedSound
<1>6. Sound(e) /\ Product(e) >= Product(d) /\ e.rows = d.rows /\ e.behind = d.behind
  BY <1>2, <1>5, SoldSound
<1>7. UNCHANGED <<exists, rate, managed>>
  BY DEF SellRam
<1>8. Product(Db) \in Nat /\ Product(u) \in Nat /\ Product(d) \in Nat /\ Product(e) \in Nat
  BY <1>3, <1>4, <1>5, <1>6, DbParts DEF Sound
<1> HIDE DEF u, e
<1>9. Product(e) >= Product(Db) /\ e.rows = rows /\ e.behind = 0
  BY <1>4, <1>5, <1>6, <1>8
<1>10. Commit(e)
  BY <1>2 DEF e
<1>11. QED  BY <1>6, <1>7, <1>9, <1>10, RamConstants DEF Change, RamInv, Frame

LEMMA SetRamChanges ==
  ASSUME RamInv, NEW max \in Nat, SetRam(max)
  PROVE  \E d : Change(d)
<1> DEFINE n == max - gstate.max_ram
           d == [Db EXCEPT !.market.base = @ + max - gstate.max_ram, !.gstate.max_ram = max]
           m == [Db.market EXCEPT !.base = @ + n]
           g == [Db.gstate EXCEPT !.max_ram = max]
<1>1. Sound(Db) /\ Db \in DbType /\ n \in Nat /\ gstate.max_ram \in Nat
  BY DbParts, DbFields DEF RamInv, Sound, SetRam
<1>2. /\ m \in Market /\ m.base = Db.market.base + n /\ m.quote = Db.market.quote
      /\ g \in State /\ g.max_ram = Db.gstate.max_ram + n
      /\ g.reserved = Db.gstate.reserved /\ g.stake = Db.gstate.stake
  BY <1>1, DbFields DEF DbType, Market, State
<1>3. d = [Db EXCEPT !.market = m, !.gstate = g]
  <2>1. \A x \in Int : x + max - gstate.max_ram = x + n
    BY <1>1
  <2>2. Db.market.base \in Int
    BY <1>1, DbParts
  <2>3. Db.market.base + max - gstate.max_ram = Db.market.base + n
    BY <2>1, <2>2
  <2>4. QED  BY <1>1, <2>3 DEF DbType
<1>4. Commit(d) /\ UNCHANGED <<exists, rate, managed>>
  BY DEF SetRam
<1> HIDE DEF n, d, m, g
<1>5. /\ d \in DbType /\ d.market = m /\ d.gstate = g /\ d.ram_bytes = Db.ram_bytes
      /\ d.held = Db.held /\ d.leaked = Db.leaked /\ d.rows = Db.rows /\ d.behind = Db.behind
  BY <1>1, <1>2, <1>3 DEF DbType
<1>6. Totals(d)
  BY <1>1, <1>2, <1>5, DbParts DEF Totals, Sound
<1>7. Worth(d) /\ Product(d) >= Product(Db)
  BY <1>1, <1>2, <1>5, AddedKeepsWorth
<1>8. QED  BY <1>4, <1>5, <1>6, <1>7, DbFields DEF Change, RamInv, Frame, Sound

LEMMA SetRamRateChanges ==
  ASSUME RamInv, NEW r \in Rates, SetRamRate(r)
  PROVE  \E d : Change(d)
<1>1. Sound(Db) /\ rate \in Nat
  BY RamConstants DEF RamInv, Frame
<1>2. /\ Sound(Supplied(Db)) /\ Product(Supplied(Db)) >= Product(Db)
      /\ Supplied(Db).rows = rows /\ Supplied(Db).behind = 0
  BY <1>1, SuppliedSound, DbFields
<1>3. Commit(Supplied(Db)) /\ rate' \in Rates /\ UNCHANGED <<exists, managed>>
  BY DEF SetRamRate
<1>4. QED  BY <1>2, <1>3, RamConstants DEF Change, RamInv, Frame

LEMMA NewAccountChanges ==
  ASSUME RamInv, NEW a \in Accounts, NewAccount(a)
  PROVE  \E d : Change(d)
<1> DEFINE c == [Db EXCEPT !.limit[a] = 0]
           w == rows \cup {a}
           d == [c EXCEPT !.rows = w]
<1>1. Sound(c) /\ Product(c) >= Product(Db) /\ c.rows = rows /\ c.behind = behind
  BY LimitChange
<1>2. c \in DbType /\ Created(Db, a) = d
  BY <1>1, DbFields DEF Created, Sound, DbType, RamInv
<1>3. w \subseteq Accounts /\ \A x \in Accounts \ w : c.ram_bytes[x] = 0
  BY <1>1 DEF Sound, Totals, RamInv, Frame
<1> HIDE DEF c, w
<1>4. Sound(d) /\ Product(d) = Product(c) /\ d.rows = w /\ d.behind = behind
  BY <1>1, <1>3, RowsChange
<1>5. Commit(d) /\ exists' = exists \cup {a} /\ UNCHANGED <<rate, managed>>
  BY <1>2 DEF NewAccount
<1>6. QED  BY <1>1, <1>4, <1>5 DEF Change, RamInv, Frame, w

LEMMA ChangeBwChanges ==
  ASSUME RamInv, NEW a \in Accounts, ChangeBw(a)
  PROVE  \E d : Change(d)
<1>1. PICK c \in {Db, Staked(Db, a)} :
        \/ Commit([c EXCEPT !.rows = @ \cup {a}])
        \/ a \in rows /\ ram_bytes[a] = 0 /\ Commit([c EXCEPT !.rows = @ \ {a}])
  BY DEF ChangeBw
<1>2. Sound(Db) /\ Db \in DbType /\ Product(Db) \in Nat
  BY DbParts DEF RamInv, Sound
<1>3. /\ Sound(c) /\ Product(c) >= Product(Db) /\ c.rows = rows /\ c.behind = behind
      /\ c.ram_bytes = ram_bytes
  <2>1. CASE c = Db
    BY <1>2, <2>1, DbFields
  <2>2. CASE c = Staked(Db, a) /\ a \notin managed
    <3> DEFINE v == IF Db.ram_bytes[a] + GiftBytes > Db.limit[a]
                    THEN Db.ram_bytes[a] + GiftBytes ELSE Db.limit[a]
    <3>1. v \in Int
      BY <1>2, DbParts, RamConstants
    <3>2. c = [Db EXCEPT !.limit[a] = v]
      BY <1>2, <2>2 DEF Staked, DbType
    <3> HIDE DEF v
    <3>3. c.ram_bytes = ram_bytes
      BY <1>2, <3>2, DbFields DEF DbType
    <3>4. QED  BY <3>1, <3>2, <3>3, LimitChange
  <2>3. QED  BY <1>1, <2>1, <2>2 DEF Staked
<1>4. a \in exists /\ UNCHANGED <<exists, rate, managed>> /\ rows \subseteq Accounts
  BY DEF ChangeBw, RamInv, Frame
<1>5. \A x \in Accounts \ rows : ram_bytes[x] = 0
  BY <1>3 DEF Sound, Totals
<1>6. CASE Commit([c EXCEPT !.rows = @ \cup {a}])
  <2> DEFINE w == rows \cup {a}
             d == [c EXCEPT !.rows = w]
  <2>1. Commit(d)
    BY <1>3, <1>6
  <2>2. w \in SUBSET Accounts /\ \A x \in Accounts \ w : c.ram_bytes[x] = 0
    BY <1>3, <1>4, <1>5
  <2> HIDE DEF w
  <2>3. Sound(d) /\ Product(d) = Product(c) /\ d.rows = w /\ d.behind = behind
    BY <1>3, <2>2, RowsChange
  <2>4. QED  BY <1>3, <1>4, <2>1, <2>3 DEF Change, RamInv, Frame, w
<1>7. CASE ram_bytes[a] = 0 /\ Commit([c EXCEPT !.rows = @ \ {a}])
  <2> DEFINE w == rows \ {a}
             d == [c EXCEPT !.rows = w]
  <2>1. Commit(d)
    BY <1>3, <1>7
  <2>2. w \in SUBSET Accounts /\ \A x \in Accounts \ w : c.ram_bytes[x] = 0
    BY <1>3, <1>4, <1>5, <1>7
  <2> HIDE DEF w
  <2>3. Sound(d) /\ Product(d) = Product(c) /\ d.rows = w /\ d.behind = behind
    BY <1>3, <2>2, RowsChange
  <2>4. QED  BY <1>3, <1>4, <2>1, <2>3 DEF Change, RamInv, Frame, w
<1>8. QED  BY <1>1, <1>6, <1>7

LEMMA LimitActionsChange ==
  ASSUME RamInv, NEW a \in Accounts,
         UnmanageRam(a) \/ \E ram \in Limits : SetALimits(a, ram) \/ ManageRam(a, ram)
  PROVE  \E d : Change(d)
<1>1. Limits \subseteq Int /\ GiftBytes + ram_bytes[a] \in Int
  <2>1. Db \in DbType
    BY DEF RamInv, Sound
  <2>2. Db.ram_bytes \in [Accounts -> Nat]
    BY <2>1, DbParts
  <2>3. QED  BY <2>2, RamConstants, DbFields
<1>2. PICK v \in Int : /\ Commit([Db EXCEPT !.limit[a] = v])
                       /\ managed' \subseteq managed \cup exists /\ UNCHANGED <<exists, rate>>
  <2>1. CASE UnmanageRam(a)
    BY <1>1, <2>1 DEF UnmanageRam
  <2>2. CASE \E ram \in Limits : SetALimits(a, ram)
    BY <1>1, <2>2 DEF SetALimits
  <2>3. CASE \E ram \in Limits : ManageRam(a, ram)
    BY <1>1, <2>3 DEF ManageRam
  <2>4. QED  BY <2>1, <2>2, <2>3
<1> DEFINE d == [Db EXCEPT !.limit[a] = v]
<1>3. Sound(d) /\ Product(d) >= Product(Db) /\ d.rows = rows /\ d.behind = behind
  BY LimitChange
<1>4. Commit(d)
  BY <1>2
<1> HIDE DEF d
<1>5. QED  BY <1>2, <1>3, <1>4 DEF Change, RamInv, Frame

LEMMA CostIsNat ==
  ASSUME RamInv, NEW bytes \in 1..market.base + 1, bytes # market.base
  PROVE  CostPlusFee(bytes) \in Nat
<1>1. market.base \in Nat \ {0} /\ market.quote \in Nat \ {0} /\ bytes \in Nat
  BY DbParts, DbFields DEF RamInv, Sound
<1>2. \A p \in Nat, q \in Nat \ {0} : p \div q \in Nat
  OBVIOUS
<1>3. BancorInput(market.base, market.quote, bytes) \in Nat
  <2>1. CASE bytes > market.base
    BY <2>1 DEF BancorInput
  <2>2. CASE bytes < market.base
    <3>1. market.quote * bytes \in Nat /\ market.base - bytes \in Nat \ {0}
      BY <1>1, <2>2
    <3>2. (market.quote * bytes) \div (market.base - bytes) \in Nat
      BY <1>2, <3>1
    <3>3. QED  BY <1>1, <2>2, <3>2 DEF BancorInput
  <2>3. QED  BY <1>1, <2>1, <2>2
<1>4. QED  BY <1>2, <1>3 DEF CostPlusFee

LEMMA BuyRamBytesChanges ==
  ASSUME RamInv, NEW payer \in Accounts, NEW receiver \in Accounts,
         NEW bytes \in 1..market.base + 1, BuyRamBytes(payer, receiver, bytes)
  PROVE  \E d : Change(d)
BY CostIsNat, BuyRamChanges DEF BuyRamBytes

LEMMA RamNextChanges ==
  ASSUME RamInv, RamNext
  PROVE  \E d : Change(d)
<1>1. Rates \subseteq Nat /\ 0..MaxRam \subseteq Nat
  BY RamConstants
<1>2. CASE behind < MaxBehind /\ OnBlock
  BY <1>2, OnBlockChanges
<1>3. CASE \E max \in 0..MaxRam : SetRam(max)
  BY <1>1, <1>3, SetRamChanges
<1>4. CASE \E r \in Rates : SetRamRate(r)
  BY <1>4, SetRamRateChanges
<1>5. CASE \E a \in Accounts : NewAccount(a)
  BY <1>5, NewAccountChanges
<1>6. CASE \E a \in Accounts : ChangeBw(a)
  BY <1>6, ChangeBwChanges
<1>7. CASE \E a \in Accounts :
              UnmanageRam(a) \/ \E ram \in Limits : SetALimits(a, ram) \/ ManageRam(a, ram)
  BY <1>7, LimitActionsChange
<1>8. CASE \E a \in Accounts : Trade(a)
  <2>1. PICK a \in Accounts : Trade(a)
    BY <1>8
  <2>2. CASE \E bytes \in 1..ram_bytes[a] : SellRam(a, bytes)
    <3>1. PICK bytes \in 1..ram_bytes[a] : SellRam(a, bytes)
      BY <2>2
    <3>2. bytes \in Nat
      OBVIOUS
    <3>3. QED  BY <3>1, <3>2, SellRamChanges
  <2>3. CASE \E b \in Accounts, quant \in 1..liquid[a] : BuyRam(a, b, quant)
    <3>1. PICK b \in Accounts, quant \in 1..liquid[a] : BuyRam(a, b, quant)
      BY <2>3
    <3>2. quant \in Nat
      OBVIOUS
    <3>3. QED  BY <3>1, <3>2, BuyRamChanges
  <2>4. CASE \E b \in Accounts, bytes \in 1..market.base + 1 : BuyRamBytes(a, b, bytes)
    BY <2>4, BuyRamBytesChanges
  <2>5. QED  BY <2>1, <2>2, <2>3, <2>4 DEF Trade
<1>9. QED  BY <1>2, <1>3, <1>4, <1>5, <1>6, <1>7, <1>8 DEF RamNext

(* A change leaves the invariant true of what it wrote.                    *)
LEMMA ChangeKeepsInv ==
  ASSUME RamInv, NEW d, Change(d)
  PROVE  RamInv' /\ market'.base * market'.quote >= market.base * market.quote
<1>1. /\ market' = d.market /\ gstate' = d.gstate /\ ram_bytes' = d.ram_bytes /\ held' = d.held
      /\ rows' = d.rows /\ behind' = d.behind /\ leaked' = d.leaked /\ limit' = d.limit
      /\ liquid' = d.liquid /\ fees' = d.fees
  BY DEF Change, Commit
<1>2. /\ Sound(d) /\ Product(d) >= Product(Db)
      /\ exists \subseteq exists' /\ exists' \subseteq Accounts
      /\ d.rows \subseteq exists' /\ managed' \subseteq exists'
      /\ rate' \in Rates \cup {0} /\ d.behind \in 0..MaxBehind
  BY DEF Change
<1>3. (Db \in DbType)'
  BY <1>1, <1>2, DbParts DEF Db, DbType, Sound
<1>4. Totals(Db)' /\ Worth(Db)'
  BY <1>1, <1>2 DEF Db, Totals, Worth, Product, Sound
<1>5. Frame'
  BY <1>1, <1>2 DEF Frame
<1>6. QED  BY <1>1, <1>2, <1>3, <1>4, <1>5, DbFields DEF RamInv, Sound, Product

LEMMA RamInvInit ==
  ASSUME RamInit
  PROVE  RamInv
<1>1. Db \in DbType
  BY RamConstants DEF RamInit, Db, DbType, Market, State
<1>2. AccountTotal(ram_bytes, N) = 0
  <2>1. N \in Nat /\ \A i \in 1..N : ram_bytes[i] = 0
    BY RamConstants DEF RamInit, Accounts
  <2>2. QED  BY <2>1, AccountTotalZero
<1>3. Totals(Db)
  BY <1>2, RamConstants, DbFields DEF RamInit, Totals
<1>4. Worth(Db)
  <2>1. RamSize * Quote = Quote * (RamSize + 0) /\ RamSize * Quote \in Nat
    BY RamConstants
  <2>2. QED  BY <2>1, DbFields DEF RamInit, Worth, Product
<1>5. Frame
  BY RamConstants DEF RamInit, Frame
<1>6. QED  BY <1>1, <1>3, <1>4, <1>5 DEF RamInv, Sound

-----------------------------------------------------------------------------
(* The invariant, which the market's strength rests on: it is always worth *)
(* its first quote for every byte for sale or sold.                        *)
THEOREM RamInvHolds == RamSpec => []RamInv
<1>1. RamInit => RamInv
  BY RamInvInit
<1>2. RamInv /\ [RamNext]_ramVars => RamInv'
  <2>1. SUFFICES ASSUME RamInv, [RamNext]_ramVars PROVE RamInv'
    OBVIOUS
  <2>2. CASE RamNext
    BY <2>1, <2>2, RamNextChanges, ChangeKeepsInv
  <2>3. CASE UNCHANGED ramVars
    BY <2>1, <2>3 DEF ramVars, RamInv, Sound, Totals, Worth, Product, Frame, Db
  <2>4. QED  BY <2>1, <2>2, <2>3
<1>3. QED  BY <1>1, <1>2, PTL DEF RamSpec

LEMMA RamInvImplies ==
  ASSUME RamInv
  PROVE  RamTypeOK /\ RamAddsUp /\ SalesAreCovered
<1>1. Sound(Db) /\ Db \in DbType /\ Frame
  BY DEF RamInv, Sound
<1>2. RamTypeOK
  <2>1. market \in Market /\ gstate \in State
    BY <1>1, DbFields DEF DbType
  <2>2. /\ held \in Nat /\ fees \in Nat /\ leaked \in Nat
        /\ ram_bytes \in [Accounts -> Nat] /\ limit \in [Accounts -> Int]
        /\ liquid \in [Accounts -> Nat]
    BY <1>1, DbParts, DbFields
  <2>3. \A a \in Accounts \ rows : ram_bytes[a] = 0
    BY <1>1, DbFields DEF Sound, Totals
  <2>4. QED  BY <1>1, <2>1, <2>2, <2>3 DEF RamTypeOK, Frame, Market, State
<1>3. RamAddsUp
  BY <1>1, DbFields DEF RamAddsUp, Sound, Totals
<1>4. SalesAreCovered
  <2>1. SUFFICES ASSUME NEW bytes \in 1..gstate.reserved
                 PROVE  TokensOut(Db, bytes) <= gstate.stake
    BY DEF SalesAreCovered
  <2>2. bytes \in 0..Db.gstate.reserved /\ bytes \in Nat
    BY DbFields
  <2>3. TokensOut(Db, bytes) \in Nat
    BY <1>1, <2>2, DbParts, BancorOutputBounds DEF TokensOut
  <2>4. TokensOut(Db, bytes) <= TokensOut(Db, bytes)
    BY <2>3
  <2>5. QED  BY <1>1, <2>2, <2>3, <2>4, SoldIsCovered, DbFields
<1>5. QED  BY <1>2, <1>3, <1>4

(* Nothing is sold that is not there, and neither a connector nor a total  *)
(* of delegate_bandwidth.cpp goes below what its type allows.              *)
THEOREM RamTypeCorrect == RamSpec => []RamTypeOK
<1>1. RamInv => RamTypeOK
  BY RamInvImplies
<1>2. QED  BY <1>1, RamInvHolds, PTL

(* Bytes and tokens add up in every reachable state.                       *)
THEOREM RamAddsUpHolds == RamSpec => []RamAddsUp
<1>1. RamInv => RamAddsUp
  BY RamInvImplies
<1>2. QED  BY <1>1, RamInvHolds, PTL

(* The checks of sellram that "shouldn't happen" to fail never do, whatever*)
(* was traded, added and attenuated before.                                *)
THEOREM SalesCovered == RamSpec => []SalesAreCovered
<1>1. RamInv => SalesAreCovered
  BY RamInvImplies
<1>2. QED  BY <1>1, RamInvHolds, PTL

(* The product of the connectors never falls.                              *)
THEOREM ProductHolds == RamSpec => ProductNeverFalls
<1>1. RamInv /\ [RamNext]_ramVars
        => [market'.base * market'.quote >= market.base * market.quote]_market
  <2>1. SUFFICES ASSUME RamInv, [RamNext]_ramVars, market' # market
                 PROVE  market'.base * market'.quote >= market.base * market.quote
    OBVIOUS
  <2>2. RamNext
    BY <2>1 DEF ramVars
  <2>3. QED  BY <2>1, <2>2, RamNextChanges, ChangeKeepsInv
<1>2. QED  BY <1>1, RamInvHolds, PTL DEF RamSpec, ProductNeverFalls
-----------------------------------------------------------------------------
(* What attenuating, buying and selling write, field by field: what the    *)
(* limits and the tokens of all accounts come down to.                     *)
AttenuatedTo(d, e, bytes) ==
  /\ e.liquid = d.liquid
  /\ \/ /\ e.ram_bytes = d.ram_bytes /\ e.limit = d.limit
        /\ e.held = d.held /\ e.fees = d.fees
     \/ /\ e.ram_bytes = [d.ram_bytes EXCEPT ![Self] = @ - bytes]
        /\ e.limit = [d.limit EXCEPT ![Self] = d.ram_bytes[Self] - bytes]
        /\ \E out \in Nat : e.held = d.held - out /\ e.fees = d.fees + out

BoughtTo(d, e, payer, receiver, quant) ==
  /\ e.liquid = [d.liquid EXCEPT ![payer] = @ - quant]
  /\ e.held = d.held + (quant - Fee(quant)) /\ e.fees = d.fees + Fee(quant)
  /\ \E more \in Nat :
       /\ e.ram_bytes = [d.ram_bytes EXCEPT ![receiver] = @ + more]
       /\ e.limit = IF receiver \in managed THEN d.limit
                    ELSE [d.limit EXCEPT ![receiver] = e.ram_bytes[receiver] + GiftBytes]

SoldTo(d, e, a, bytes) ==
  LET out == TokensOut(d, bytes)
  IN /\ e.liquid = [d.liquid EXCEPT ![a] = @ + out - Fee(out)]
     /\ e.held = d.held - out /\ e.fees = d.fees + Fee(out)
     /\ e.ram_bytes = [d.ram_bytes EXCEPT ![a] = @ - bytes]
     /\ e.limit = IF a \in managed THEN d.limit
                  ELSE [d.limit EXCEPT ![a] = e.ram_bytes[a] + GiftBytes]

LEMMA AttenuatedFields ==
  ASSUME NEW d \in DbType, NEW bytes \in Nat, NEW e \in Attenuated(d, bytes)
  PROVE  AttenuatedTo(d, e, bytes)
<1>1. CASE NotAttenuated(d, bytes)
  BY <1>1 DEF Attenuated, AttenuatedTo
<1>2. CASE ~NotAttenuated(d, bytes)
  <2>1. PICK out \in Nat : e = IF out = 0
          THEN [d EXCEPT !.market.base = @ + bytes, !.leaked = @ + bytes]
          ELSE [d EXCEPT !.market.base = @ + bytes,
                         !.market.quote = @ - out,
                         !.gstate.reserved = @ - bytes,
                         !.gstate.stake = @ - out,
                         !.ram_bytes[Self] = @ - bytes,
                         !.held = @ - out,
                         !.fees = @ + out,
                         !.limit[Self] = d.ram_bytes[Self] - bytes]
    <3>1. BancorOutput(d.market.base, d.market.quote, bytes) \in Nat
      BY DbParts, BancorOutputBounds
    <3>2. \A out \in Converted(d.market, bytes) : out \in Nat
      BY <3>1 DEF Converted
    <3>3. QED  BY <1>2, <3>2 DEF Attenuated
  <2>2. CASE out = 0
    BY <2>1, <2>2 DEF DbType, AttenuatedTo
  <2>3. CASE out # 0
    BY <2>1, <2>3 DEF DbType, AttenuatedTo
  <2>4. QED  BY <2>2, <2>3
<1>3. QED  BY <1>1, <1>2

LEMMA LimitedFields ==
  ASSUME NEW d, {"ram_bytes", "limit", "liquid", "held", "fees"} \subseteq DOMAIN d,
         NEW a \in Accounts
  PROVE  LET e == Limited(d, a)
         IN /\ DOMAIN e = DOMAIN d
            /\ e.ram_bytes = d.ram_bytes /\ e.liquid = d.liquid
            /\ e.held = d.held /\ e.fees = d.fees
            /\ e.limit = IF a \in managed THEN d.limit
                         ELSE [d.limit EXCEPT ![a] = d.ram_bytes[a] + GiftBytes]
<1>1. CASE a \in managed
  BY <1>1 DEF Limited
<1>2. CASE a \notin managed
  BY <1>2 DEF Limited
<1>3. QED  BY <1>1, <1>2

LEMMA BoughtFields ==
  ASSUME NEW d \in DbType, NEW payer \in Accounts, NEW receiver \in Accounts,
         NEW quant \in Nat, MayBuy(d, payer, quant),
         NEW e, e = [Bought(d, receiver, quant) EXCEPT !.liquid[payer] = @ - quant]
  PROVE  BoughtTo(d, e, payer, receiver, quant)
<1> DEFINE after == quant - Fee(quant)
           more == BytesOut(d, quant)
           b == [d EXCEPT !.held = @ + after,
                          !.fees = @ + Fee(quant),
                          !.market.quote = @ + after,
                          !.market.base = @ - more,
                          !.gstate.reserved = @ + more,
                          !.gstate.stake = @ + after,
                          !.ram_bytes[receiver] = @ + more,
                          !.rows = @ \cup {receiver}]
           c == Limited(b, receiver)
<1>1. after \in Nat
  BY FeeBounds DEF MayBuy
<1>2. more \in Nat
  BY <1>1, DbParts, BancorOutputBounds DEF BytesOut
<1>3. c = Bought(d, receiver, quant)
  BY DEF Bought
<1> HIDE DEF after, more
<1>4. /\ {"ram_bytes", "limit", "liquid", "held", "fees"} \subseteq DOMAIN b
      /\ b.ram_bytes = [d.ram_bytes EXCEPT ![receiver] = @ + more] /\ b.limit = d.limit
      /\ b.held = d.held + after /\ b.fees = d.fees + Fee(quant) /\ b.liquid = d.liquid
  BY DEF DbType
<1> HIDE DEF b
<1>5. /\ {"ram_bytes", "limit", "liquid", "held", "fees"} \subseteq DOMAIN c
      /\ c.ram_bytes = b.ram_bytes /\ c.liquid = b.liquid
      /\ c.held = b.held /\ c.fees = b.fees
      /\ c.limit = IF receiver \in managed THEN b.limit
                   ELSE [b.limit EXCEPT ![receiver] = b.ram_bytes[receiver] + GiftBytes]
  BY <1>4, LimitedFields
<1> HIDE DEF c
<1>6. /\ e.ram_bytes = c.ram_bytes /\ e.limit = c.limit /\ e.held = c.held /\ e.fees = c.fees
      /\ e.liquid = [c.liquid EXCEPT ![payer] = @ - quant]
  BY <1>3, <1>5
<1>7. QED  BY <1>2, <1>4, <1>5, <1>6 DEF after, BoughtTo

LEMMA SoldFields ==
  ASSUME NEW d \in DbType, NEW a \in Accounts, NEW bytes \in Nat
  PROVE  SoldTo(d, Sold(d, a, bytes), a, bytes)
<1> DEFINE out == TokensOut(d, bytes)
           s == [d EXCEPT !.market.base = @ + bytes,
                          !.market.quote = @ - out,
                          !.gstate.reserved = @ - bytes,
                          !.gstate.stake = @ - out,
                          !.ram_bytes[a] = @ - bytes,
                          !.held = @ - out,
                          !.liquid[a] = @ + out - Fee(out),
                          !.fees = @ + Fee(out)]
           e == Limited(s, a)
<1>1. e = Sold(d, a, bytes)
  BY DEF Sold
<1> HIDE DEF out
<1>2. /\ {"ram_bytes", "limit", "liquid", "held", "fees"} \subseteq DOMAIN s
      /\ s.ram_bytes = [d.ram_bytes EXCEPT ![a] = @ - bytes] /\ s.limit = d.limit
      /\ s.liquid = [d.liquid EXCEPT ![a] = @ + out - Fee(out)]
      /\ s.held = d.held - out /\ s.fees = d.fees + Fee(out)
  BY DEF DbType
<1> HIDE DEF s
<1>3. /\ e.ram_bytes = s.ram_bytes /\ e.liquid = s.liquid
      /\ e.held = s.held /\ e.fees = s.fees
      /\ e.limit = IF a \in managed THEN s.limit
                   ELSE [s.limit EXCEPT ![a] = s.ram_bytes[a] + GiftBytes]
  BY <1>2, LimitedFields
<1> HIDE DEF e
<1>4. QED  BY <1>1, <1>2, <1>3 DEF out, SoldTo

-----------------------------------------------------------------------------
(* The limits of the accounts that are not managed.  Whatever ends in      *)
(* set_resource_limits for an account sets it from what the account has,   *)
(* and an attenuation sets that of the one account it charges.             *)
Quota(d, a) ==
  d.ram_bytes[a] > 0 =>
    \/ d.limit[a] = d.ram_bytes[a] + GiftBytes
    \/ a = Self /\ d.limit[a] = d.ram_bytes[a]

Covers(d, S) == \A a \in S : Quota(d, a)

Unmanaged(S) == S \subseteq Accounts /\ S \cap managed = {}

LEMMA LimitsAreCovers == LimitsCoverQuota <=> Covers(Db, exists \ managed)
BY DbFields DEF LimitsCoverQuota, Covers, Quota

LEMMA CommittedCovers ==
  ASSUME NEW d, NEW S, Covers(d, S), Commit(d), exists' \ managed' \subseteq S
  PROVE  LimitsCoverQuota'
BY DEF Covers, Quota, Commit, LimitsCoverQuota

LEMMA SuppliedCovers ==
  ASSUME NEW d \in DbType, NEW S, Covers(d, S)
  PROVE  Covers(Supplied(d), S)
<1>1. Supplied(d).ram_bytes = d.ram_bytes /\ Supplied(d).limit = d.limit
  BY DEF Supplied, DbType
<1>2. QED  BY <1>1 DEF Covers, Quota

LEMMA AttenuatedCovers ==
  ASSUME NEW d \in DbType, NEW S, S \subseteq Accounts, Covers(d, S),
         NEW bytes \in Nat, NEW e \in Attenuated(d, bytes)
  PROVE  Covers(e, S)
<1>1. Self \in Accounts
  BY RamConstants
<1>2. d.ram_bytes \in [Accounts -> Nat] /\ d.limit \in [Accounts -> Int]
  BY DbParts
<1>3. \/ e.ram_bytes = d.ram_bytes /\ e.limit = d.limit
      \/ /\ e.ram_bytes = [d.ram_bytes EXCEPT ![Self] = @ - bytes]
         /\ e.limit = [d.limit EXCEPT ![Self] = d.ram_bytes[Self] - bytes]
  BY AttenuatedFields DEF AttenuatedTo
<1>4. QED  BY <1>1, <1>2, <1>3 DEF Covers, Quota

LEMMA ReadyCovers ==
  ASSUME NEW d, Sound(d), rate \in Nat, NEW S, S \subseteq Accounts, Covers(d, S),
         NEW bytes \in Decays, NEW e \in Attenuated(Supplied(d), bytes)
  PROVE  Sound(e) /\ Covers(e, S)
<1>1. Sound(Supplied(d)) /\ Covers(Supplied(d), S) /\ bytes \in Nat
  BY SuppliedSound, SuppliedCovers, RamConstants DEF Sound, Decays
<1>2. QED  BY <1>1, AttenuatedSound, AttenuatedCovers DEF Sound

LEMMA PurchasesCover ==
  ASSUME NEW d, Sound(d), rate \in Nat, NEW S, Unmanaged(S), Covers(d, S),
         NEW payer \in Accounts, NEW receiver \in Accounts, NEW quant \in Nat,
         NEW e \in Purchases(d, payer, receiver, quant)
  PROVE  Covers(e, S)
<1>1. PICK bytes \in Decays : \E c \in Attenuated(Supplied(d), bytes) :
        /\ MayBuy(c, payer, quant)
        /\ e = [Bought(c, receiver, quant) EXCEPT !.liquid[payer] = @ - quant]
  BY DEF Purchases
<1>2. PICK c \in Attenuated(Supplied(d), bytes) :
        /\ MayBuy(c, payer, quant)
        /\ e = [Bought(c, receiver, quant) EXCEPT !.liquid[payer] = @ - quant]
  BY <1>1
<1>3. c \in DbType /\ Covers(c, S)
  BY ReadyCovers DEF Sound, Unmanaged
<1>4. BoughtTo(c, e, payer, receiver, quant)
  BY <1>2, <1>3, BoughtFields
<1>5. PICK more \in Nat :
        /\ e.ram_bytes = [c.ram_bytes EXCEPT ![receiver] = @ + more]
        /\ e.limit = IF receiver \in managed THEN c.limit
                     ELSE [c.limit EXCEPT ![receiver] = e.ram_bytes[receiver] + GiftBytes]
  BY <1>4 DEF BoughtTo
<1>6. c.ram_bytes \in [Accounts -> Nat] /\ c.limit \in [Accounts -> Int]
  BY <1>3, DbParts
<1>7. QED  BY <1>3, <1>5, <1>6 DEF Covers, Quota, Unmanaged

LEMMA SoldCovers ==
  ASSUME NEW d \in DbType, NEW S, Unmanaged(S), Covers(d, S),
         NEW a \in Accounts, NEW bytes \in Nat
  PROVE  Covers(Sold(d, a, bytes), S)
<1> DEFINE e == Sold(d, a, bytes)
<1>0. SoldTo(d, e, a, bytes)
  BY SoldFields
<1> HIDE DEF e
<1>1. /\ e.ram_bytes = [d.ram_bytes EXCEPT ![a] = @ - bytes]
      /\ e.limit = IF a \in managed THEN d.limit
                   ELSE [d.limit EXCEPT ![a] = e.ram_bytes[a] + GiftBytes]
  BY <1>0 DEF SoldTo
<1>2. d.ram_bytes \in [Accounts -> Nat] /\ d.limit \in [Accounts -> Int]
  BY DbParts
<1>3. Covers(e, S)
  BY <1>1, <1>2 DEF Covers, Quota, Unmanaged
<1>4. QED  BY <1>3 DEF e

LEMMA BuyRamCovers ==
  ASSUME RamInv, LimitsCoverQuota, NEW payer \in Accounts, NEW receiver \in Accounts,
         NEW quant \in Nat, BuyRam(payer, receiver, quant)
  PROVE  LimitsCoverQuota'
<1>1. PICK e \in Purchases(Db, payer, receiver, quant) : Commit(e)
  BY DEF BuyRam
<1> DEFINE S == exists \ managed
<1>2. Sound(Db) /\ rate \in Nat /\ Unmanaged(S) /\ Covers(Db, S)
  BY LimitsAreCovers, RamConstants DEF RamInv, Frame, Unmanaged
<1>3. exists' \ managed' = S
  BY DEF BuyRam
<1> HIDE DEF S
<1>4. Covers(e, S)
  BY <1>2, PurchasesCover
<1>5. QED  BY <1>1, <1>3, <1>4, CommittedCovers

LEMMA SellRamCovers ==
  ASSUME RamInv, LimitsCoverQuota, NEW a \in Accounts, NEW bytes \in Nat, SellRam(a, bytes)
  PROVE  LimitsCoverQuota'
<1>1. PICK decay \in Decays : \E d \in Attenuated(Supplied(Db), decay) :
        MaySell(d, a, bytes) /\ Commit(Sold(d, a, bytes))
  BY DEF SellRam
<1>2. PICK d \in Attenuated(Supplied(Db), decay) : Commit(Sold(d, a, bytes))
  BY <1>1
<1> DEFINE S == exists \ managed
<1>3. /\ Sound(Db) /\ rate \in Nat /\ Unmanaged(S) /\ S \subseteq Accounts
      /\ Covers(Db, S)
  BY LimitsAreCovers, RamConstants DEF RamInv, Frame, Unmanaged
<1>4. exists' \ managed' = S
  BY DEF SellRam
<1> HIDE DEF S
<1>5. d \in DbType /\ Covers(d, S)
  BY <1>3, ReadyCovers DEF Sound
<1>6. Covers(Sold(d, a, bytes), S)
  BY <1>3, <1>5, SoldCovers
<1>7. QED  BY <1>2, <1>4, <1>6, CommittedCovers

(* The actions that set a limit, or leave both alone.                      *)
LEMMA LimitActionsCover ==
  ASSUME RamInv, LimitsCoverQuota, NEW a \in Accounts,
         \/ NewAccount(a) \/ ChangeBw(a) \/ UnmanageRam(a)
         \/ \E ram \in Limits : SetALimits(a, ram) \/ ManageRam(a, ram)
  PROVE  LimitsCoverQuota'
<1>1. /\ ram_bytes \in [Accounts -> Nat] /\ limit \in [Accounts -> Int]
      /\ exists \subseteq Accounts /\ rows \subseteq exists
      /\ \A x \in Accounts \ rows : ram_bytes[x] = 0
  BY DbParts, DbFields DEF RamInv, Sound, Totals, Frame
<1>2. CASE NewAccount(a)
  <2>1. /\ ram_bytes' = ram_bytes /\ limit' = [limit EXCEPT ![a] = 0]
        /\ exists' = exists \cup {a} /\ managed' = managed /\ a \notin exists
    BY <1>2 DEF NewAccount, Created, Commit, Db
  <2>2. QED  BY <1>1, <2>1 DEF LimitsCoverQuota
<1>3. CASE ChangeBw(a)
  <2>1. /\ ram_bytes' = ram_bytes /\ exists' = exists /\ managed' = managed
        /\ \/ limit' = limit
           \/ /\ a \notin managed
              /\ limit' = [limit EXCEPT ![a] = IF ram_bytes[a] + GiftBytes > limit[a]
                                             THEN ram_bytes[a] + GiftBytes ELSE limit[a]]
    BY <1>3 DEF ChangeBw, Staked, Commit, Db
  <2>2. GiftBytes \in Nat
    BY RamConstants
  <2>3. QED  BY <1>1, <2>1, <2>2 DEF LimitsCoverQuota
<1>4. CASE UnmanageRam(a)
  <2>1. /\ ram_bytes' = ram_bytes /\ limit' = [limit EXCEPT ![a] = GiftBytes + ram_bytes[a]]
        /\ exists' = exists /\ managed' = managed \ {a}
    BY <1>4 DEF UnmanageRam, Commit, Db
  <2>2. GiftBytes \in Nat
    BY RamConstants
  <2>3. QED  BY <1>1, <2>1, <2>2 DEF LimitsCoverQuota
<1>5. CASE \E ram \in Limits : SetALimits(a, ram)
  <2>1. PICK ram \in Limits : SetALimits(a, ram)
    BY <1>5
  <2>2. /\ ram_bytes' = ram_bytes /\ limit' = [limit EXCEPT ![a] = ram]
        /\ exists' = exists /\ managed' = managed /\ a \notin rows
    BY <2>1 DEF SetALimits, Commit, Db
  <2>3. QED  BY <1>1, <2>2 DEF LimitsCoverQuota
<1>6. CASE \E ram \in Limits : ManageRam(a, ram)
  <2>1. PICK ram \in Limits : ManageRam(a, ram)
    BY <1>6
  <2>2. /\ ram_bytes' = ram_bytes /\ limit' = [limit EXCEPT ![a] = ram]
        /\ exists' = exists /\ managed' = managed \cup {a}
    BY <2>1 DEF ManageRam, Commit, Db
  <2>3. QED  BY <1>1, <2>2 DEF LimitsCoverQuota
<1>7. QED  BY <1>2, <1>3, <1>4, <1>5, <1>6

LEMMA SupplyActionsCover ==
  ASSUME RamInv, LimitsCoverQuota,
         OnBlock \/ (\E max \in 0..MaxRam : SetRam(max)) \/ (\E r \in Rates : SetRamRate(r))
  PROVE  LimitsCoverQuota'
<1> DEFINE S == exists \ managed
<1>1. Db \in DbType /\ Covers(Db, S) /\ S \subseteq Accounts
  BY LimitsAreCovers DEF RamInv, Sound, Frame
<1>2. exists' \ managed' = S
  BY DEF OnBlock, SetRam, SetRamRate
<1> HIDE DEF S
<1>3. CASE OnBlock
  <2> DEFINE b == [Db EXCEPT !.behind = @ + 1]
  <2>1. PICK bytes \in Decays : \E d \in Attenuated(b, bytes) : Commit(d)
    BY <1>3 DEF OnBlock
  <2>2. PICK d \in Attenuated(b, bytes) : Commit(d)
    BY <2>1
  <2>3. b \in DbType /\ b.ram_bytes = Db.ram_bytes /\ b.limit = Db.limit
    <3>1. Db.behind + 1 \in Nat
      BY <1>1, DbParts
    <3>2. QED  BY <1>1, <3>1 DEF DbType
  <2> HIDE DEF b
  <2>4. Covers(b, S) /\ bytes \in Nat
    BY <1>1, <2>3, RamConstants DEF Covers, Quota, Decays
  <2>5. Covers(d, S)
    BY <1>1, <2>3, <2>4, AttenuatedCovers
  <2>6. QED  BY <1>2, <2>2, <2>5, CommittedCovers
<1>4. CASE \E max \in 0..MaxRam : SetRam(max)
  <2>1. PICK max \in 0..MaxRam : SetRam(max)
    BY <1>4
  <2>2. ram_bytes' = ram_bytes /\ limit' = limit /\ exists' = exists /\ managed' = managed
    BY <2>1 DEF SetRam, Commit, Db
  <2>3. QED  BY <2>2 DEF LimitsCoverQuota
<1>5. CASE \E r \in Rates : SetRamRate(r)
  <2>1. Commit(Supplied(Db))
    BY <1>5 DEF SetRamRate
  <2>2. Covers(Supplied(Db), S)
    BY <1>1, SuppliedCovers
  <2>3. QED  BY <1>2, <2>1, <2>2, CommittedCovers
<1>6. QED  BY <1>3, <1>4, <1>5

LEMMA RamNextCovers ==
  ASSUME RamInv, LimitsCoverQuota, RamNext
  PROVE  LimitsCoverQuota'
<1>1. CASE OnBlock \/ (\E max \in 0..MaxRam : SetRam(max)) \/ (\E r \in Rates : SetRamRate(r))
  BY <1>1, SupplyActionsCover
<1>2. CASE \E a \in Accounts :
             \/ NewAccount(a) \/ ChangeBw(a) \/ UnmanageRam(a)
             \/ \E ram \in Limits : SetALimits(a, ram) \/ ManageRam(a, ram)
  BY <1>2, LimitActionsCover
<1>3. CASE \E a \in Accounts : Trade(a)
  <2>1. PICK a \in Accounts : Trade(a)
    BY <1>3
  <2>2. CASE \E bytes \in 1..ram_bytes[a] : SellRam(a, bytes)
    <3>1. PICK bytes \in 1..ram_bytes[a] : SellRam(a, bytes)
      BY <2>2
    <3>2. bytes \in Nat
      OBVIOUS
    <3>3. QED  BY <3>1, <3>2, SellRamCovers
  <2>3. CASE \E b \in Accounts, quant \in 1..liquid[a] : BuyRam(a, b, quant)
    <3>1. PICK b \in Accounts, quant \in 1..liquid[a] : BuyRam(a, b, quant)
      BY <2>3
    <3>2. quant \in Nat
      OBVIOUS
    <3>3. QED  BY <3>1, <3>2, BuyRamCovers
  <2>4. CASE \E b \in Accounts, bytes \in 1..market.base + 1 : BuyRamBytes(a, b, bytes)
    <3>1. PICK b \in Accounts, bytes \in 1..market.base + 1 : BuyRamBytes(a, b, bytes)
      BY <2>4
    <3>2. CostPlusFee(bytes) \in Nat
      BY <3>1, CostIsNat DEF BuyRamBytes
    <3>3. QED  BY <3>1, <3>2, BuyRamCovers DEF BuyRamBytes
  <2>5. QED  BY <2>1, <2>2, <2>3, <2>4 DEF Trade
<1>4. QED  BY <1>1, <1>2, <1>3 DEF RamNext

(* An account that is not managed may use the RAM it bought, whatever was  *)
(* bought, sold, attenuated, staked, managed and handed back before.       *)
THEOREM LimitsCoverHolds == RamSpec => []LimitsCoverQuota
<1>1. RamInit => LimitsCoverQuota
  BY RamConstants DEF RamInit, LimitsCoverQuota, Accounts
<1>2. RamInv /\ LimitsCoverQuota /\ [RamNext]_ramVars => LimitsCoverQuota'
  <2>1. SUFFICES ASSUME RamInv, LimitsCoverQuota, [RamNext]_ramVars PROVE LimitsCoverQuota'
    OBVIOUS
  <2>2. CASE UNCHANGED ramVars
    BY <2>1, <2>2 DEF ramVars, LimitsCoverQuota
  <2>3. QED  BY <2>1, <2>2, RamNextCovers
<1>3. QED  BY <1>1, <1>2, RamInvHolds, PTL DEF RamSpec
-----------------------------------------------------------------------------
(* Tokens: what accounts, celes.ram and celes.ramfee have together is      *)
(* touched by no step of the market.                                       *)
Money(d) == AccountTotal(d.liquid, N) + d.held + d.fees

LEMMA MoneyEqual ==
  ASSUME NEW d, NEW e, e.liquid = d.liquid, e.held = d.held, e.fees = d.fees
  PROVE  Money(e) = Money(d)
BY DEF Money

LEMMA LiquidTotal ==
  ASSUME NEW f \in [Accounts -> Nat]
  PROVE  AccountTotal(f, N) \in Int
<1>1. N \in Nat /\ \A i \in 1..N : f[i] \in Int
  BY RamConstants DEF Accounts
<1>2. QED  BY <1>1, AccountTotalType

LEMMA LiquidChange ==
  ASSUME NEW f \in [Accounts -> Nat], NEW a \in Accounts, NEW v \in Nat, NEW g,
         g = [f EXCEPT ![a] = v]
  PROVE  /\ g \in [Accounts -> Nat] /\ AccountTotal(f, N) \in Nat
         /\ AccountTotal(g, N) = AccountTotal(f, N) - f[a] + v
BY RamTotalChange

LEMMA MoneyIsInt ==
  ASSUME NEW d \in DbType
  PROVE  Money(d) \in Int
<1>1. d.liquid \in [Accounts -> Nat] /\ d.held \in Int /\ d.fees \in Int
  BY DbParts
<1>2. QED  BY <1>1, LiquidTotal DEF Money

LEMMA AttenuatedMoney ==
  ASSUME NEW d \in DbType, NEW bytes \in Nat, NEW e \in Attenuated(d, bytes)
  PROVE  Money(e) = Money(d)
<1>1. AttenuatedTo(d, e, bytes)
  BY AttenuatedFields
<1>2. CASE e.held = d.held /\ e.fees = d.fees
  BY <1>1, <1>2, MoneyEqual DEF AttenuatedTo
<1>3. CASE \E out \in Nat : e.held = d.held - out /\ e.fees = d.fees + out
  <2>1. PICK out \in Nat : e.held = d.held - out /\ e.fees = d.fees + out
    BY <1>3
  <2>2. d.liquid \in [Accounts -> Nat] /\ d.held \in Nat /\ d.fees \in Nat
    BY DbParts
  <2>3. AccountTotal(d.liquid, N) \in Int
    BY <2>2, LiquidTotal
  <2>4. e.liquid = d.liquid
    BY <1>1 DEF AttenuatedTo
  <2>5. QED  BY <2>1, <2>2, <2>3, <2>4 DEF Money
<1>4. QED  BY <1>1, <1>2, <1>3 DEF AttenuatedTo

LEMMA SuppliedMoney ==
  ASSUME NEW d \in DbType
  PROVE  Money(Supplied(d)) = Money(d)
<1>1. /\ Supplied(d).liquid = d.liquid /\ Supplied(d).held = d.held
      /\ Supplied(d).fees = d.fees
  BY DEF Supplied, DbType
<1>2. QED  BY <1>1, MoneyEqual

LEMMA ReadyMoney ==
  ASSUME NEW d, Sound(d), rate \in Nat, NEW bytes \in Decays,
         NEW e \in Attenuated(Supplied(d), bytes)
  PROVE  Sound(e) /\ Money(e) = Money(d)
<1>1. Sound(Supplied(d)) /\ bytes \in Nat
  BY SuppliedSound, RamConstants DEF Decays
<1>2. Supplied(d) \in DbType /\ Money(Supplied(d)) = Money(d)
  BY <1>1, SuppliedMoney DEF Sound
<1>3. QED  BY <1>1, <1>2, AttenuatedSound, AttenuatedMoney

LEMMA PurchasesMoney ==
  ASSUME NEW d, Sound(d), rate \in Nat, NEW payer \in Accounts, NEW receiver \in Accounts,
         NEW quant \in Nat, NEW e \in Purchases(d, payer, receiver, quant)
  PROVE  Money(e) = Money(d)
<1>1. PICK bytes \in Decays : \E c \in Attenuated(Supplied(d), bytes) :
        /\ MayBuy(c, payer, quant)
        /\ e = [Bought(c, receiver, quant) EXCEPT !.liquid[payer] = @ - quant]
  BY DEF Purchases
<1>2. PICK c \in Attenuated(Supplied(d), bytes) :
        /\ MayBuy(c, payer, quant)
        /\ e = [Bought(c, receiver, quant) EXCEPT !.liquid[payer] = @ - quant]
  BY <1>1
<1>3. Sound(c) /\ c \in DbType /\ Money(c) = Money(d)
  BY ReadyMoney DEF Sound
<1>4. BoughtTo(c, e, payer, receiver, quant)
  BY <1>2, <1>3, BoughtFields
<1> DEFINE v == c.liquid[payer] - quant
<1>5. /\ c.liquid \in [Accounts -> Nat] /\ c.liquid[payer] \in Nat /\ v \in Nat
      /\ c.held \in Nat /\ c.fees \in Nat /\ Fee(quant) \in Nat
  BY <1>2, <1>3, DbParts, FeeBounds DEF MayBuy
<1>6. /\ e.liquid = [c.liquid EXCEPT ![payer] = v]
      /\ e.held = c.held + (quant - Fee(quant)) /\ e.fees = c.fees + Fee(quant)
  BY <1>4 DEF BoughtTo
<1>7. v = c.liquid[payer] - quant
  OBVIOUS
<1> HIDE DEF v
<1>8. /\ AccountTotal(c.liquid, N) \in Nat
      /\ AccountTotal(e.liquid, N) = AccountTotal(c.liquid, N) - c.liquid[payer] + v
  BY <1>5, <1>6, LiquidChange
<1>9. Money(e) = Money(c)
  BY <1>5, <1>6, <1>7, <1>8 DEF Money
<1>10. QED  BY <1>3, <1>9

LEMMA SoldMoney ==
  ASSUME NEW d, Sound(d), NEW a \in Accounts, NEW bytes \in Nat, MaySell(d, a, bytes)
  PROVE  Money(Sold(d, a, bytes)) = Money(d)
<1> DEFINE e == Sold(d, a, bytes)
           out == TokensOut(d, bytes)
           v == d.liquid[a] + out - Fee(out)
<1>1. d \in DbType /\ SoldTo(d, e, a, bytes)
  BY SoldFields DEF Sound
<1>2. out \in Nat /\ out > 1
  <2>1. out \in Nat
    BY <1>1, DbParts, BancorOutputBounds DEF TokensOut
  <2>2. QED  BY <2>1 DEF MaySell
<1> HIDE DEF e
<1>3. /\ e.liquid = [d.liquid EXCEPT ![a] = v]
      /\ e.held = d.held - out /\ e.fees = d.fees + Fee(out)
  BY <1>1 DEF SoldTo
<1> HIDE DEF out
<1>4. Fee(out) \in Nat /\ Fee(out) <= out
  BY <1>2, FeeBounds
<1>5. /\ d.liquid \in [Accounts -> Nat] /\ d.liquid[a] \in Nat /\ v \in Nat
      /\ d.held \in Nat /\ d.fees \in Nat
  BY <1>1, <1>2, <1>4, DbParts
<1>6. v = d.liquid[a] + out - Fee(out)
  OBVIOUS
<1> HIDE DEF v
<1>7. /\ AccountTotal(d.liquid, N) \in Nat
      /\ AccountTotal(e.liquid, N) = AccountTotal(d.liquid, N) - d.liquid[a] + v
  BY <1>3, <1>5, LiquidChange
<1>8. Money(e) = Money(d)
  BY <1>2, <1>3, <1>4, <1>5, <1>6, <1>7 DEF Money
<1>9. QED  BY <1>8 DEF e

LEMMA CommittedMoney ==
  ASSUME NEW d, Commit(d)
  PROVE  Money(Db)' = Money(d)
BY DEF Commit, Money, Db

LEMMA RamNextMoney ==
  ASSUME RamInv, RamNext
  PROVE  Money(Db)' = Money(Db)
<1>1. Sound(Db) /\ Db \in DbType /\ rate \in Nat
  BY RamConstants DEF RamInv, Frame, Sound
<1>2. CASE OnBlock
  <2> DEFINE b == [Db EXCEPT !.behind = @ + 1]
  <2>1. PICK bytes \in Decays : \E d \in Attenuated(b, bytes) : Commit(d)
    BY <1>2 DEF OnBlock
  <2>2. PICK d \in Attenuated(b, bytes) : Commit(d)
    BY <2>1
  <2>3. /\ b \in DbType /\ b.liquid = Db.liquid /\ b.held = Db.held /\ b.fees = Db.fees
        /\ bytes \in Nat
    <3>1. Db.behind + 1 \in Nat
      BY <1>1, DbParts
    <3>2. QED  BY <1>1, <3>1, RamConstants DEF DbType, Decays
  <2> HIDE DEF b
  <2>4. Money(b) = Money(Db) /\ Money(d) = Money(b)
    BY <2>3, MoneyEqual, AttenuatedMoney
  <2>5. QED  BY <2>2, <2>4, CommittedMoney
<1>3. CASE \E max \in 0..MaxRam : SetRam(max)
  <2>1. liquid' = liquid /\ held' = held /\ fees' = fees
    BY <1>3 DEF SetRam, Commit, Db
  <2>2. QED  BY <2>1 DEF Money, Db
<1>4. CASE \E r \in Rates : SetRamRate(r)
  <2>1. Commit(Supplied(Db))
    BY <1>4 DEF SetRamRate
  <2>2. QED  BY <1>1, <2>1, SuppliedMoney, CommittedMoney
<1>5. CASE \E a \in Accounts :
             \/ NewAccount(a) \/ ChangeBw(a) \/ UnmanageRam(a)
             \/ \E ram \in Limits : SetALimits(a, ram) \/ ManageRam(a, ram)
  <2>1. liquid' = liquid /\ held' = held /\ fees' = fees
    BY <1>5 DEF NewAccount, Created, ChangeBw, Staked, UnmanageRam, SetALimits, ManageRam,
                Commit, Db
  <2>2. QED  BY <2>1 DEF Money, Db
<1>6. ASSUME NEW a \in Accounts, NEW b \in Accounts, NEW quant \in Nat, BuyRam(a, b, quant)
      PROVE  Money(Db)' = Money(Db)
  <2>1. PICK e \in Purchases(Db, a, b, quant) : Commit(e)
    BY <1>6 DEF BuyRam
  <2>2. Money(e) = Money(Db)
    BY <1>1, <2>1, PurchasesMoney
  <2>3. QED  BY <2>1, <2>2, CommittedMoney
<1>7. CASE \E a \in Accounts : Trade(a)
  <2>1. PICK a \in Accounts : Trade(a)
    BY <1>7
  <2>2. CASE \E bytes \in 1..ram_bytes[a] : SellRam(a, bytes)
    <3>1. PICK bytes \in 1..ram_bytes[a] : SellRam(a, bytes)
      BY <2>2
    <3>2. PICK decay \in Decays : \E d \in Attenuated(Supplied(Db), decay) :
            MaySell(d, a, bytes) /\ Commit(Sold(d, a, bytes))
      BY <3>1 DEF SellRam
    <3>3. PICK d \in Attenuated(Supplied(Db), decay) :
            MaySell(d, a, bytes) /\ Commit(Sold(d, a, bytes))
      BY <3>2
    <3>4. Sound(d) /\ Money(d) = Money(Db) /\ bytes \in Nat
      BY <1>1, ReadyMoney
    <3>5. Money(Sold(d, a, bytes)) = Money(Db)
      BY <3>3, <3>4, SoldMoney
    <3>6. QED  BY <3>3, <3>5, CommittedMoney
  <2>3. CASE \E b \in Accounts, quant \in 1..liquid[a] : BuyRam(a, b, quant)
    <3>1. PICK b \in Accounts, quant \in 1..liquid[a] : BuyRam(a, b, quant)
      BY <2>3
    <3>2. quant \in Nat
      OBVIOUS
    <3>3. QED  BY <1>6, <3>1, <3>2
  <2>4. CASE \E b \in Accounts, bytes \in 1..market.base + 1 : BuyRamBytes(a, b, bytes)
    <3>1. PICK b \in Accounts, bytes \in 1..market.base + 1 : BuyRamBytes(a, b, bytes)
      BY <2>4
    <3>2. CostPlusFee(bytes) \in Nat
      BY <3>1, CostIsNat DEF BuyRamBytes
    <3>3. QED  BY <1>6, <3>1, <3>2 DEF BuyRamBytes
  <2>5. QED  BY <2>1, <2>2, <2>3, <2>4 DEF Trade
<1>8. QED  BY <1>2, <1>3, <1>4, <1>5, <1>7 DEF RamNext

-----------------------------------------------------------------------------
(* The rows of celes.unregd, as a sequence of amounts.                     *)
Row == [ethaddress : Addresses, balance : Amounts]

RowTotal(s) == AccountTotal([i \in DOMAIN s |-> s[i].balance], Len(s))

LEMMA AmountsAreNat == Amounts \subseteq Nat /\ Unreg \in Existing
BY UnregdAssumption DEF UnregdAssumption

LEMMA RowBalance ==
  ASSUME NEW r \in Row
  PROVE  r.balance \in Int
<1>1. r.balance \in Amounts
  BY DEF Row
<1>2. r.balance \in Nat
  BY <1>1, AmountsAreNat, Zenon
<1>3. QED  BY <1>2

LEMMA RowTotalType ==
  ASSUME NEW s \in Seq(Row)
  PROVE  RowTotal(s) \in Int
<1> DEFINE f == [i \in DOMAIN s |-> s[i].balance]
<1>1. Len(s) \in Nat /\ \A i \in 1..Len(s) : s[i] \in Row /\ f[i] = s[i].balance
  OBVIOUS
<1>2. \A i \in 1..Len(s) : f[i] \in Int
  BY <1>1, RowBalance
<1> HIDE DEF f
<1>3. AccountTotal(f, Len(s)) \in Int
  BY <1>1, <1>2, AccountTotalType
<1>4. QED  BY <1>3 DEF RowTotal, f

LEMMA RowAppended ==
  ASSUME NEW s \in Seq(Row), NEW r \in Row
  PROVE  /\ Append(s, r) \in Seq(Row)
         /\ RowTotal(Append(s, r)) = RowTotal(s) + r.balance /\ RowTotal(s) \in Int
<1> DEFINE n == Len(s) + 1
           w == Append(s, r)
           f == [i \in DOMAIN w |-> w[i].balance]
           g == [i \in DOMAIN s |-> s[i].balance]
<1>1. /\ n \in Nat /\ n \in 1..n /\ n-1 = Len(s) /\ w \in Seq(Row) /\ Len(w) = n
      /\ \A i \in 1..n : w[i] = IF i < n THEN s[i] ELSE r
  OBVIOUS
<1>2. \A i \in 1..n : w[i] \in Row /\ f[i] = w[i].balance
  BY <1>1
<1>3. \A i \in 1..n : f[i] \in Int
  BY <1>2, RowBalance
<1>4. \A i \in 1..(n-1) : g[i] = IF i < n THEN f[i] ELSE f[i+1]
  BY <1>1, <1>2
<1>5. f[n] = r.balance
  BY <1>1, <1>2
<1>6. RowTotal(w) = AccountTotal(f, n) /\ RowTotal(s) = AccountTotal(g, n-1)
  BY <1>1 DEF RowTotal
<1>7. \A i \in 1..(n-1) : g[i] \in Int
  BY <1>3, <1>4
<1> HIDE DEF n, f, g, w
<1>8. AccountTotal(g, n-1) = AccountTotal(f, n) - f[n]
  BY <1>1, <1>3, <1>4, AccountTotalRemoved
<1>9. AccountTotal(f, n) \in Int /\ f[n] \in Int
  BY <1>1, <1>3, AccountTotalType
<1>10. QED  BY <1>1, <1>5, <1>6, <1>8, <1>9 DEF w

LEMMA RowChanged ==
  ASSUME NEW s \in Seq(Row), NEW k \in DOMAIN s, NEW v \in Amounts
  PROVE  LET w == [s EXCEPT ![k].balance = v]
         IN w \in Seq(Row) /\ RowTotal(w) = RowTotal(s) - s[k].balance + v
<1> DEFINE n == Len(s)
           w == [s EXCEPT ![k].balance = v]
           f == [i \in DOMAIN w |-> w[i].balance]
           g == [i \in DOMAIN s |-> s[i].balance]
<1>1. n \in Nat /\ DOMAIN s = 1..n /\ k \in 1..n /\ \A i \in 1..n : s[i] \in Row
  OBVIOUS
<1>2. /\ \A i \in 1..n : w[i] = IF i = k THEN [s[k] EXCEPT !.balance = v] ELSE s[i]
      /\ DOMAIN w = 1..n
  BY <1>1
<1>3. \A i \in 1..n : w[i] \in Row /\ w[i].balance = IF i = k THEN v ELSE s[i].balance
  BY <1>1, <1>2 DEF Row
<1>4. w \in [1..n -> Row]
  BY <1>1, <1>3
<1>5. w \in Seq(Row) /\ Len(w) = n
  BY <1>1, <1>4
<1>6. /\ \A i \in 1..n : f[i] = w[i].balance /\ g[i] = s[i].balance
      /\ \A i \in 1..n : s[i].balance \in Int /\ w[i].balance \in Int
  BY <1>1, <1>2, <1>3, RowBalance
<1>7. RowTotal(w) = AccountTotal(f, n) /\ RowTotal(s) = AccountTotal(g, n)
  BY <1>5 DEF RowTotal
<1> HIDE DEF n, f, g, w
<1>8. AccountTotal(f, n) = AccountTotal(g, n) - g[k] + v
  <2>1. g \in [1..n -> Int] /\ f = [g EXCEPT ![k] = v] /\ v \in Int /\ n \in Nat /\ k \in 1..n
    BY <1>1, <1>2, <1>3, <1>6, AmountsAreNat DEF f, g
  <2>2. QED  BY <2>1, AccountTotalExcept
<1>9. QED  BY <1>1, <1>3, <1>5, <1>6, <1>7, <1>8 DEF w

LEMMA RowRenamed ==
  ASSUME NEW s \in Seq(Row), NEW k \in DOMAIN s, NEW addr \in Addresses
  PROVE  LET w == [s EXCEPT ![k].ethaddress = addr]
         IN w \in Seq(Row) /\ RowTotal(w) = RowTotal(s)
<1> DEFINE n == Len(s)
           w == [s EXCEPT ![k].ethaddress = addr]
           f == [i \in DOMAIN w |-> w[i].balance]
           g == [i \in DOMAIN s |-> s[i].balance]
<1>1. n \in Nat /\ DOMAIN s = 1..n /\ k \in 1..n /\ \A i \in 1..n : s[i] \in Row
  OBVIOUS
<1>2. /\ \A i \in 1..n : w[i] = IF i = k THEN [s[k] EXCEPT !.ethaddress = addr] ELSE s[i]
      /\ DOMAIN w = 1..n
  BY <1>1
<1>3. \A i \in 1..n : w[i] \in Row /\ w[i].balance = s[i].balance
  BY <1>1, <1>2 DEF Row
<1>4. w \in [1..n -> Row]
  BY <1>1, <1>3
<1>5. w \in Seq(Row) /\ Len(w) = n
  BY <1>1, <1>4
<1>6. f = g
  BY <1>1, <1>2, <1>3
<1>7. QED  BY <1>5, <1>6 DEF RowTotal

LEMMA RowErased ==
  ASSUME NEW s \in Seq(Row), NEW k \in DOMAIN s
  PROVE  RemoveAt(s, k) \in Seq(Row) /\ RowTotal(RemoveAt(s, k)) = RowTotal(s) - s[k].balance
<1> DEFINE n == Len(s)
           w == RemoveAt(s, k)
           f == [i \in DOMAIN s |-> s[i].balance]
           g == [i \in DOMAIN w |-> w[i].balance]
           p == SubSeq(s, 1, k-1)
           q == SubSeq(s, k+1, n)
<1>1. n \in Nat /\ k \in 1..n /\ DOMAIN s = 1..n /\ \A i \in 1..n : s[i] \in Row
  OBVIOUS
<1>2. /\ p \in Seq(Row) /\ Len(p) = k-1 /\ \A i \in 1..(k-1) : p[i] = s[i]
      /\ q \in Seq(Row) /\ Len(q) = n-k /\ \A i \in 1..(n-k) : q[i] = s[k+i]
  BY <1>1
<1>3. w = p \o q
  BY DEF RemoveAt
<1> HIDE DEF n, p, q, w
<1>4. /\ w \in Seq(Row) /\ Len(w) = n-1 /\ DOMAIN w = 1..(n-1)
      /\ \A i \in 1..(n-1) : w[i] = IF i < k THEN s[i] ELSE s[i+1]
  <2>1. w \in Seq(Row) /\ Len(w) = Len(p) + Len(q) /\ DOMAIN w = 1..Len(w)
    <3>1. p \in Seq(Row) /\ q \in Seq(Row)
      BY <1>2
    <3>2. w \in Seq(Row) /\ Len(w) = Len(p) + Len(q)
      BY <1>3, <3>1
    <3>3. QED  BY <3>2
  <2>2. \A i \in 1..Len(w) : w[i] = IF i <= Len(p) THEN p[i] ELSE q[i - Len(p)]
    BY <1>2, <1>3, <2>1
  <2>3. Len(w) = n-1
    BY <1>1, <1>2, <2>1
  <2>4. ASSUME NEW i \in 1..(n-1) PROVE w[i] = IF i < k THEN s[i] ELSE s[i+1]
    <3>1. w[i] = IF i <= k-1 THEN p[i] ELSE q[i - (k-1)]
      BY <1>2, <2>2, <2>3
    <3>2. CASE i < k
      <4>1. i \in 1..(k-1) /\ i <= k-1
        BY <1>1, <3>2
      <4>2. QED  BY <1>2, <3>1, <3>2, <4>1
    <3>3. CASE ~(i < k)
      <4>1. i - (k-1) \in 1..(n-k) /\ ~(i <= k-1) /\ k + (i - (k-1)) = i+1
        BY <1>1, <3>3
      <4>2. q[i - (k-1)] = s[k + (i - (k-1))]
        BY <1>2, <4>1
      <4>3. QED  BY <3>1, <3>3, <4>1, <4>2
    <3>4. QED  BY <3>2, <3>3
  <2>5. QED  BY <2>1, <2>3, <2>4
<1>5. \A i \in 1..n : f[i] = s[i].balance /\ f[i] \in Int
  <2>1. \A i \in 1..n : f[i] = s[i].balance
    BY <1>1
  <2>2. QED  BY <1>1, <2>1, RowBalance
<1>6. \A i \in 1..(n-1) : g[i] = IF i < k THEN f[i] ELSE f[i+1]
  BY <1>1, <1>4, <1>5
<1>7. RowTotal(w) = AccountTotal(g, n-1) /\ RowTotal(s) = AccountTotal(f, n)
  BY <1>4 DEF RowTotal, n
<1> HIDE DEF f, g
<1>8. AccountTotal(g, n-1) = AccountTotal(f, n) - f[k]
  BY <1>1, <1>5, <1>6, AccountTotalRemoved
<1>9. QED  BY <1>1, <1>4, <1>5, <1>7, <1>8 DEF w

(* The first row of an address is one of its rows.                         *)
LEMMA FindFinds ==
  ASSUME NEW addr, addresses \in Seq(Row), RowsOf(addr) # {}
  PROVE  Find(addr) \in DOMAIN addresses
<1> DEFINE R == RowsOf(addr)
<1>1. R \subseteq Nat /\ R \subseteq DOMAIN addresses /\ R # {}
  BY DEF RowsOf
<1> HIDE DEF R
<1>2. PICK i \in R : \A j \in R : ~ (<<j, i>> \in OpToRel(<, Nat))
  BY <1>1, NatLessThanWellFounded, WFMin, Zenon
<1>3. ASSUME NEW j \in R PROVE i <= j
  <2>1. i \in Nat /\ j \in Nat
    BY <1>1
  <2>2. j < i => <<j, i>> \in OpToRel(<, Nat)
    BY <2>1 DEF OpToRel
  <2>3. ~ (j < i)
    BY <1>2, <2>2, Zenon
  <2>4. QED  BY <2>1, <2>3
<1>4. Find(addr) \in R
  BY <1>3 DEF Find, R
<1>5. QED  BY <1>1, <1>4

-----------------------------------------------------------------------------
(* A registration is one change of the market more: the account and its    *)
(* row, the RAM it is bought, what it is staked and sent.                  *)
LEMMA CreatedSound ==
  ASSUME RamInv, NEW a \in Accounts
  PROVE  LET d == Created(Db, a)
         IN /\ Sound(d) /\ Product(d) >= Product(Db)
            /\ d.rows = rows \cup {a} /\ d.behind = behind
            /\ d.ram_bytes = ram_bytes /\ d.limit = [limit EXCEPT ![a] = 0]
            /\ d.liquid = liquid /\ d.held = held /\ d.fees = fees
<1> DEFINE c == [Db EXCEPT !.limit[a] = 0]
           w == rows \cup {a}
           d == [c EXCEPT !.rows = w]
<1>1. Sound(c) /\ Product(c) >= Product(Db) /\ c.rows = rows /\ c.behind = behind
  BY LimitChange
<1>2. c \in DbType /\ Created(Db, a) = d
  BY <1>1, DbFields DEF Created, Sound, DbType, RamInv
<1>3. w \subseteq Accounts /\ \A x \in Accounts \ w : c.ram_bytes[x] = 0
  BY <1>1 DEF Sound, Totals, RamInv, Frame
<1>4. /\ d.ram_bytes = ram_bytes /\ d.limit = [limit EXCEPT ![a] = 0]
      /\ d.liquid = liquid /\ d.held = held /\ d.fees = fees
  BY DEF Db
<1> HIDE DEF c, w
<1>5. Sound(d) /\ Product(d) = Product(c) /\ d.rows = w /\ d.behind = behind
  BY <1>1, <1>3, RowsChange
<1> HIDE DEF d
<1>6. QED  BY <1>1, <1>2, <1>4, <1>5 DEF w

LEMMA LiquidTouched ==
  ASSUME NEW f \in [Accounts -> Nat], NEW a \in Accounts, NEW g \in [Accounts -> Nat],
         \A x \in Accounts : x # a => g[x] = f[x]
  PROVE  /\ AccountTotal(f, N) \in Nat
         /\ AccountTotal(g, N) = AccountTotal(f, N) - f[a] + g[a]
<1>1. /\ N \in Nat /\ a \in 1..N /\ \A i \in 1..N : i # a => g[i] = f[i]
      /\ \A i \in 1..N : f[i] \in Nat /\ f[i] \in Int /\ g[i] \in Int
  BY RamConstants DEF Accounts
<1>2. AccountTotal(g, N) = AccountTotal(f, N) - f[a] + g[a]
  BY <1>1, AccountTotalChange
<1>3. AccountTotal(f, N) \in Nat
  BY <1>1, AccountTotalNat
<1>4. QED  BY <1>2, <1>3

LEMMA LiquidMoved ==
  ASSUME NEW f \in [Accounts -> Nat], NEW a \in Accounts, NEW b \in Accounts, a # b,
         NEW h \in [Accounts -> Nat],
         \A x \in Accounts : x # a /\ x # b => h[x] = f[x]
  PROVE  /\ AccountTotal(f, N) \in Nat
         /\ AccountTotal(h, N) = AccountTotal(f, N) - f[b] + h[b] - f[a] + h[a]
<1> DEFINE g == [x \in Accounts |-> IF x = b THEN h[b] ELSE f[x]]
<1>1. g \in [Accounts -> Nat] /\ g[b] = h[b] /\ g[a] = f[a]
  OBVIOUS
<1>2. /\ \A x \in Accounts : x # b => g[x] = f[x]
      /\ \A x \in Accounts : x # a => h[x] = g[x]
  OBVIOUS
<1> HIDE DEF g
<1>3. /\ AccountTotal(f, N) \in Nat
      /\ AccountTotal(g, N) = AccountTotal(f, N) - f[b] + g[b]
  BY <1>1, <1>2, LiquidTouched
<1>4. AccountTotal(h, N) = AccountTotal(g, N) - g[a] + h[a]
  BY <1>1, <1>2, LiquidTouched
<1>5. QED  BY <1>1, <1>3, <1>4

PaidFrom(e, b, a, out, back) == [e EXCEPT !.liquid[b] = @ - out, !.liquid[a] = @ + back]

LEMMA PaidOut ==
  ASSUME NEW e, Sound(e), NEW a \in Accounts, NEW b \in Accounts, NEW out \in Nat, NEW back \in Nat,
         a # b, out <= e.liquid[b],
         NEW f, f = PaidFrom(e, b, a, out, back)
  PROVE  /\ Sound(f) /\ Product(f) = Product(e)
         /\ f.rows = e.rows /\ f.behind = e.behind
         /\ f.ram_bytes = e.ram_bytes /\ f.limit = e.limit
         /\ Money(f) = Money(e) - out + back
<1> DEFINE v == e.liquid[b] - out
           l == [e.liquid EXCEPT ![b] = v]
           u == l[a] + back
           k == [l EXCEPT ![a] = u]
<1>1. e \in DbType /\ e.liquid \in [Accounts -> Nat] /\ v \in Nat /\ e.liquid[b] \in Nat
  BY DbParts DEF Sound
<1>2. l \in [Accounts -> Nat] /\ u \in Nat /\ k \in [Accounts -> Nat] /\ l[a] \in Nat
  BY <1>1
<1>3. f = [e EXCEPT !.liquid = k]
  <2> USE DEF PaidFrom
  <2>1. DOMAIN f = DOMAIN e /\ "liquid" \in DOMAIN e
    BY <1>1 DEF DbType
  <2>2. f.liquid = k
    BY <2>1
  <2>3. \A x \in DOMAIN e : x # "liquid" => f[x] = e[x]
    BY <2>1
  <2>4. f = [x \in DOMAIN f |-> f[x]]
    OBVIOUS
  <2> HIDE DEF k
  <2>5. QED  BY <2>1, <2>2, <2>3, <2>4
<1>4. v = e.liquid[b] - out /\ u = l[a] + back /\ l = [e.liquid EXCEPT ![b] = v] /\ k = [l EXCEPT ![a] = u]
  OBVIOUS
<1> HIDE DEF v, l, u, k
<1>5. /\ f \in DbType /\ f.liquid = k /\ f.rows = e.rows /\ f.behind = e.behind
      /\ f.market = e.market /\ f.gstate = e.gstate /\ f.ram_bytes = e.ram_bytes
      /\ f.held = e.held /\ f.leaked = e.leaked /\ f.limit = e.limit /\ f.fees = e.fees
  BY <1>1, <1>2, <1>3 DEF DbType
<1>6. SameMarket(e, f)
  BY <1>5 DEF SameMarket, Sound, Totals
<1>7. Sound(f) /\ Product(f) = Product(e)
  BY <1>6, SameMarketSound
<1>8. /\ AccountTotal(e.liquid, N) \in Nat /\ k[b] = v /\ k[a] = u
      /\ AccountTotal(k, N)
           = AccountTotal(e.liquid, N) - e.liquid[b] + k[b] - e.liquid[a] + k[a]
  <2>1. /\ \A x \in Accounts : x # a /\ x # b => k[x] = e.liquid[x]
        /\ k[b] = v /\ k[a] = u
    BY <1>1, <1>2, <1>4
  <2>2. QED  BY <1>1, <1>2, <2>1, LiquidMoved
<1>9. e.held \in Nat /\ e.fees \in Nat
  BY <1>1, DbParts
<1>10. AccountTotal(k, N) = AccountTotal(e.liquid, N) - out + back
  <2>1. l[a] = e.liquid[a] /\ e.liquid[a] \in Nat
    BY <1>1, <1>4
  <2>2. QED  BY <1>1, <1>2, <1>4, <1>8, <2>1
<1>11. Money(f) = Money(e) - out + back
  BY <1>5, <1>8, <1>9, <1>10 DEF Money
<1>12. QED  BY <1>5, <1>7, <1>11

LEMMA StakedSound ==
  ASSUME NEW d, Sound(d), NEW a \in Accounts, NEW S, Unmanaged(S), Covers(d, S)
  PROVE  /\ Sound(Staked(d, a)) /\ Product(Staked(d, a)) = Product(d)
         /\ Staked(d, a).rows = d.rows /\ Staked(d, a).behind = d.behind
         /\ Covers(Staked(d, a), S) /\ Money(Staked(d, a)) = Money(d)
<1>1. d \in DbType /\ Product(d) \in Nat
  BY DbParts DEF Sound
<1>2. CASE a \in managed
  BY <1>1, <1>2 DEF Staked
<1>3. CASE a \notin managed
  <2> DEFINE v == IF d.ram_bytes[a] + GiftBytes > d.limit[a]
                  THEN d.ram_bytes[a] + GiftBytes ELSE d.limit[a]
             e == [d EXCEPT !.limit[a] = v]
  <2>1. v \in Int /\ d.limit \in [Accounts -> Int] /\ d.ram_bytes \in [Accounts -> Nat] /\ GiftBytes \in Nat
    BY <1>1, DbParts, RamConstants
  <2>2. Staked(d, a) = e
    BY <1>1, <1>3 DEF Staked, DbType
  <2>3. e.limit = [d.limit EXCEPT ![a] = v] /\ e.liquid = d.liquid /\ e.held = d.held /\ e.fees = d.fees
    BY <1>1 DEF DbType
  <2>4. v = IF d.ram_bytes[a] + GiftBytes > d.limit[a]
            THEN d.ram_bytes[a] + GiftBytes ELSE d.limit[a]
    OBVIOUS
  <2> HIDE DEF v
  <2>5. /\ e \in DbType
        /\ e.market = d.market /\ e.gstate = d.gstate /\ e.ram_bytes = d.ram_bytes
        /\ e.held = d.held /\ e.leaked = d.leaked /\ e.rows = d.rows
        /\ e.liquid = d.liquid /\ e.behind = d.behind
    BY <1>1, <2>1, LimitSet
  <2> HIDE DEF e
  <2>6. SameMarket(d, e)
    BY <2>5 DEF SameMarket, Sound, Totals
  <2>7. Sound(e) /\ Product(e) = Product(d)
    BY <2>6, SameMarketSound
  <2>8. Covers(e, S)
    BY <2>1, <2>3, <2>4, <2>5 DEF Covers, Quota, Unmanaged
  <2>9. Money(e) = Money(d)
    BY <2>3, MoneyEqual
  <2>10. QED  BY <2>2, <2>5, <2>7, <2>8, <2>9
<1>4. QED  BY <1>2, <1>3

LEMMA FloatingIsNat ==
  ASSUME NEW balance \in Nat
  PROVE  Floating(balance) \in Nat
BY UnregdAssumption DEF UnregdAssumption, Floating

LEMMA PriceIsNat ==
  ASSUME RamInv, NEW price \in SalePrice(Bytes)
  PROVE  price \in Nat
<1>1. market.base \in Nat \ {0} /\ market.quote \in Nat \ {0} /\ Bytes \in Nat
  BY DbParts, DbFields, UnregdAssumption DEF RamInv, Sound, UnregdAssumption
<1>2. BancorOutput(market.base, market.quote, Bytes) \in Nat
  BY <1>1, BancorOutputBounds
<1>3. QED  BY <1>2 DEF SalePrice, Converted

LEMMA RegAccountStep ==
  ASSUME RamInv, LimitsCoverQuota, Existing \subseteq exists, addresses \in Seq(Row),
         NEW addr \in Addresses, NEW a \in Accounts, RegAccount(addr, a)
  PROVE  LET balance == addresses[Find(addr)].balance
         IN \E d : /\ Change(d)
                  /\ Covers(d, exists' \ managed')
                  /\ Money(d) = Money(Db) - balance + Floating(balance)
<1> DEFINE balance == addresses[Find(addr)].balance
           S == (exists \cup {a}) \ managed
           c == Created(Db, a)
<1>1. PICK price \in SalePrice(Bytes) : \E e \in Purchases(c, Unreg, a, price) :
        /\ balance <= e.liquid[Unreg]
        /\ Commit(Staked([e EXCEPT !.liquid[Unreg] = @ - balance,
                                   !.liquid[a] = @ + Floating(balance)], a))
  BY DEF RegAccount
<1>2. PICK e \in Purchases(c, Unreg, a, price) :
        /\ balance <= e.liquid[Unreg]
        /\ Commit(Staked([e EXCEPT !.liquid[Unreg] = @ - balance,
                                   !.liquid[a] = @ + Floating(balance)], a))
  BY <1>1
<1>3. /\ a \notin exists /\ RowsOf(addr) # {}
      /\ exists' = exists \cup {a} /\ UNCHANGED <<rate, managed>>
  BY DEF RegAccount
<1>4. balance \in Nat /\ Floating(balance) \in Nat
  <2>1. Find(addr) \in DOMAIN addresses
    BY <1>3, FindFinds
  <2>2. addresses[Find(addr)] \in Row
    BY <2>1
  <2>3. balance \in Amounts
    BY <2>2 DEF Row
  <2>4. balance \in Nat
    BY <2>3, AmountsAreNat, Zenon
  <2>5. QED  BY <2>4, FloatingIsNat
<1>5. /\ exists \subseteq Accounts /\ rows \subseteq exists /\ managed \subseteq exists
      /\ rate \in Rates \cup {0} /\ rate \in Nat /\ Unreg \in Accounts /\ price \in Nat
      /\ MaxBehind \in Nat
  BY RamConstants, AmountsAreNat, PriceIsNat DEF RamInv, Frame
<1>6. Unmanaged(S) /\ exists' \ managed' = S
  BY <1>3, <1>5 DEF Unmanaged
<1>7. /\ Sound(c) /\ Product(c) >= Product(Db) /\ c.rows = rows \cup {a}
      /\ c.ram_bytes = ram_bytes /\ c.limit = [limit EXCEPT ![a] = 0]
      /\ c.liquid = liquid /\ c.held = held /\ c.fees = fees
  BY CreatedSound
<1>8. Covers(c, S)
  <2>1. ram_bytes[a] = 0
    BY <1>3, <1>5, DbFields DEF RamInv, Sound, Totals
  <2>2. limit \in [Accounts -> Int]
    BY DbParts, DbFields DEF RamInv, Sound
  <2>3. QED  BY <1>3, <1>5, <1>7, <2>1, <2>2 DEF Covers, Quota, LimitsCoverQuota
<1>9. Money(c) = Money(Db)
  BY <1>7, MoneyEqual, DbFields
<1> HIDE DEF balance, S, c
<1>10. /\ Sound(e) /\ Product(e) >= Product(c) /\ e.rows = c.rows \cup {a} /\ e.behind = 0
       /\ Covers(e, S) /\ Money(e) = Money(c)
  BY <1>2, <1>5, <1>6, <1>7, <1>8, PurchasesSound, PurchasesCover, PurchasesMoney
<1> DEFINE back == Floating(balance)
<1>a. PICK f : f = PaidFrom(e, Unreg, a, balance, back)
  OBVIOUS
<1> DEFINE d == Staked(f, a)
<1>b. back \in Nat
  BY <1>4
<1>c. Commit(d)
  BY <1>2, <1>a DEF PaidFrom
<1> HIDE DEF d, back
<1>11. /\ Sound(f) /\ Product(f) = Product(e) /\ f.rows = e.rows /\ f.behind = e.behind
       /\ f.ram_bytes = e.ram_bytes /\ f.limit = e.limit
       /\ Money(f) = Money(e) - balance + back
  <2>1. balance <= e.liquid[Unreg] /\ balance \in Nat /\ a # Unreg
    BY <1>2, <1>3, <1>4, AmountsAreNat
  <2>2. QED  BY <1>5, <1>10, <1>a, <1>b, <2>1, PaidOut
<1>13. Covers(f, S)
  BY <1>10, <1>11 DEF Covers, Quota
<1>14. /\ Sound(d) /\ Product(d) = Product(f) /\ d.rows = f.rows /\ d.behind = f.behind
       /\ Covers(d, S) /\ Money(d) = Money(f)
  BY <1>6, <1>11, <1>13, StakedSound DEF d
<1>15. Product(d) >= Product(Db)
  <2>1. Product(Db) \in Nat /\ Product(c) \in Nat /\ Product(e) \in Nat
    BY <1>7, <1>10, DbParts DEF RamInv, Sound
  <2>2. QED  BY <1>7, <1>10, <1>11, <1>14, <2>1
<1>16. d.rows \subseteq exists' /\ d.behind \in 0..MaxBehind
  BY <1>3, <1>5, <1>7, <1>10, <1>11, <1>14
<1>17. Change(d)
  BY <1>3, <1>5, <1>c, <1>14, <1>15, <1>16 DEF Change
<1>18. Money(d) = Money(Db) - balance + Floating(balance)
  BY <1>9, <1>10, <1>11, <1>14 DEF back
<1>19. QED  BY <1>6, <1>14, <1>17, <1>18 DEF balance

-----------------------------------------------------------------------------
(* The inductive invariant of celes.unregd over the market: the market's,  *)
(* the table's types, and the two sums of GrantsAddUp.  That the accounts  *)
(* there were at first stay is needed so that no registration is for       *)
(* celes.unregd itself, which pays it.                                     *)
Registry ==
  /\ Existing \subseteq exists
  /\ addresses \in Seq(Row) /\ staked \in [Accounts -> Nat]
  /\ promised \in Int /\ granted \in Int

Accounted == promised = granted + RowTotal(addresses)

Backed == Money(Db) + AccountTotal(staked, N) = Tokens * Cardinality(Existing)

UnregInv == RamInv /\ LimitsCoverQuota /\ Registry /\ Accounted /\ Backed

LEMMA UnregInvInit ==
  ASSUME UInit
  PROVE  UnregInv
<1>1. RamInv
  BY RamInvInit DEF UInit
<1>2. LimitsCoverQuota
  BY RamConstants DEF UInit, RamInit, LimitsCoverQuota, Accounts
<1>3. Registry
  BY DEF UInit, RamInit, Registry
<1>4. Accounted
  <2>1. addresses = <<>> /\ Len(addresses) = 0
    BY DEF UInit
  <2> DEFINE f == [i \in DOMAIN addresses |-> addresses[i].balance]
  <2>2. \A i \in 1..0 : f[i] = 0
    OBVIOUS
  <2> HIDE DEF f
  <2>3. AccountTotal(f, 0) = 0
    BY <2>2, AccountTotalZero
  <2>4. RowTotal(addresses) = 0
    BY <2>1, <2>3 DEF RowTotal, f
  <2>5. QED  BY <2>4 DEF Accounted, UInit
<1>5. Backed
  <2>1. /\ N \in Nat /\ Existing \in SUBSET (1..N) /\ Tokens \in Nat
        /\ \A i \in 1..N : liquid[i] = IF i \in Existing THEN Tokens ELSE 0
        /\ \A i \in 1..N : staked[i] = 0
    BY RamConstants DEF UInit, RamInit, Accounts
  <2>2. AccountTotal(liquid, N) = Tokens * Cardinality(Existing)
    BY <2>1, AccountTotalCount
  <2>3. AccountTotal(staked, N) = 0
    BY <2>1, AccountTotalZero
  <2>4. Money(Db) = AccountTotal(liquid, N) + held + fees /\ held = 0 /\ fees = 0
    BY DEF Money, Db, UInit, RamInit
  <2>5. AccountTotal(liquid, N) \in Int
    <3>1. \A i \in 1..N : liquid[i] \in Int
      BY <2>1
    <3>2. QED  BY <2>1, <3>1, AccountTotalType
  <2>6. QED  BY <2>2, <2>3, <2>4, <2>5 DEF Backed
<1>6. QED  BY <1>1, <1>2, <1>3, <1>4, <1>5 DEF UnregInv

(* A step that leaves the market alone, and one that leaves the rest.      *)
LEMMA MarketLeftAlone ==
  ASSUME RamInv, LimitsCoverQuota, UNCHANGED ramVars
  PROVE  RamInv' /\ LimitsCoverQuota' /\ Money(Db)' = Money(Db)
<1>1. RamInv'
  BY DEF ramVars, RamInv, Sound, Totals, Worth, Product, Frame, Db
<1>2. LimitsCoverQuota'
  BY DEF ramVars, LimitsCoverQuota
<1>3. QED  BY <1>1, <1>2 DEF ramVars, Money, Db

LEMMA MarketStep ==
  ASSUME UnregInv, RamNext, UNCHANGED unregdVars
  PROVE  UnregInv'
<1>1. PICK d : Change(d)
  BY RamNextChanges DEF UnregInv
<1>2. RamInv' /\ LimitsCoverQuota' /\ Money(Db)' = Money(Db) /\ exists \subseteq exists'
  BY <1>1, ChangeKeepsInv, RamNextCovers, RamNextMoney DEF UnregInv, Change
<1>3. QED  BY <1>2 DEF UnregInv, Registry, Accounted, Backed, unregdVars, RowTotal

LEMMA AddStep ==
  ASSUME UnregInv, NEW addr \in Addresses, NEW balance \in Amounts, Add(addr, balance)
  PROVE  UnregInv'
<1>1. UNCHANGED ramVars /\ UNCHANGED <<staked, granted>> /\ balance \in Int
  <2>1. balance \in Nat
    BY AmountsAreNat, Zenon
  <2>2. QED  BY <2>1 DEF Add
<1>2. RamInv' /\ LimitsCoverQuota' /\ Money(Db)' = Money(Db) /\ exists' = exists
  BY <1>1, MarketLeftAlone DEF UnregInv, ramVars
<1>3. addresses \in Seq(Row) /\ promised \in Int /\ granted \in Int
  BY DEF UnregInv, Registry
<1>4. addresses' \in Seq(Row) /\ promised' \in Int /\ Accounted'
  <2>1. CASE RowsOf(addr) = {}
    <3> DEFINE r == [ethaddress |-> addr, balance |-> balance]
    <3>1. /\ addresses' = Append(addresses, r) /\ promised' = promised + balance
          /\ r \in Row /\ r.balance = balance
      BY <2>1 DEF Add, Row
    <3> HIDE DEF r
    <3>2. /\ addresses' \in Seq(Row) /\ RowTotal(addresses) \in Int
          /\ RowTotal(addresses') = RowTotal(addresses) + balance
      BY <1>3, <3>1, RowAppended
    <3>3. RowTotal(addresses)' = RowTotal(addresses')
      BY DEF RowTotal
    <3>4. QED  BY <1>1, <1>3, <3>1, <3>2, <3>3 DEF Accounted, UnregInv
  <2>2. CASE RowsOf(addr) # {}
    <3> DEFINE k == Find(addr)
               w == [addresses EXCEPT ![k].balance = balance]
    <3>1. k \in DOMAIN addresses
      BY <1>3, <2>2, FindFinds
    <3>2. addresses' = w /\ promised' = promised + balance - addresses[k].balance
      BY <2>2 DEF Add
    <3>3. addresses[k] \in Row
      BY <1>3, <3>1
    <3> HIDE DEF k
    <3>4. w \in Seq(Row) /\ RowTotal(w) = RowTotal(addresses) - addresses[k].balance + balance
      BY <1>3, <3>1, RowChanged
    <3> HIDE DEF w
    <3>5. addresses[k].balance \in Int
      BY <3>3, RowBalance
    <3>6. RowTotal(addresses)' = RowTotal(w)
      BY <3>2 DEF RowTotal
    <3>7. RowTotal(addresses) \in Int
      BY <1>3, RowTotalType
    <3>8. QED  BY <1>1, <1>3, <3>2, <3>4, <3>5, <3>6, <3>7 DEF Accounted, UnregInv
  <2>3. QED  BY <2>1, <2>2
<1>5. QED  BY <1>1, <1>2, <1>4 DEF UnregInv, Registry, Backed

LEMMA ChngAddressStep ==
  ASSUME UnregInv, NEW old \in Addresses, NEW new \in Addresses, ChngAddress(old, new)
  PROVE  UnregInv'
<1> DEFINE k == Find(old)
           w == [addresses EXCEPT ![k].ethaddress = new]
<1>1. /\ UNCHANGED ramVars /\ UNCHANGED <<staked, granted, promised>>
      /\ RowsOf(old) # {} /\ addresses' = w
  BY DEF ChngAddress
<1>2. RamInv' /\ LimitsCoverQuota' /\ Money(Db)' = Money(Db) /\ exists' = exists
  BY <1>1, MarketLeftAlone DEF UnregInv, ramVars
<1>3. k \in DOMAIN addresses /\ addresses \in Seq(Row)
  BY <1>1, FindFinds DEF UnregInv, Registry
<1> HIDE DEF k
<1>4. w \in Seq(Row) /\ RowTotal(w) = RowTotal(addresses)
  BY <1>3, RowRenamed
<1> HIDE DEF w
<1>5. RowTotal(addresses)' = RowTotal(w)
  BY <1>1 DEF RowTotal
<1>6. QED  BY <1>1, <1>2, <1>4, <1>5 DEF UnregInv, Registry, Accounted, Backed

LEMMA RegistrationStep ==
  ASSUME UnregInv, NEW addr \in Addresses, NEW a \in Accounts, RegAccount(addr, a)
  PROVE  UnregInv'
<1> DEFINE k == Find(addr)
           balance == addresses[k].balance
           stake == balance - Floating(balance)
<1>1. /\ RamInv /\ LimitsCoverQuota /\ Existing \subseteq exists /\ addresses \in Seq(Row)
      /\ staked \in [Accounts -> Nat] /\ promised \in Int /\ granted \in Int
  BY DEF UnregInv, Registry
<1>2. PICK d : /\ Change(d) /\ Covers(d, exists' \ managed')
               /\ Money(d) = Money(Db) - balance + Floating(balance)
  BY <1>1, RegAccountStep
<1>3. /\ RowsOf(addr) # {} /\ exists' = exists \cup {a} /\ addresses' = RemoveAt(addresses, k)
      /\ stake > 0 /\ staked' = [staked EXCEPT ![a] = @ + stake]
      /\ granted' = granted + balance /\ promised' = promised
  BY DEF RegAccount, Erased
<1>4. k \in DOMAIN addresses
  BY <1>1, <1>3, FindFinds
<1>5. balance \in Nat /\ Floating(balance) \in Nat
  <2>1. addresses[k] \in Row
    BY <1>1, <1>4
  <2>2. balance \in Amounts
    BY <2>1 DEF Row
  <2>3. balance \in Nat
    BY <2>2, AmountsAreNat, Zenon
  <2>4. QED  BY <2>3, FloatingIsNat
<1> HIDE DEF k
<1>6. /\ RemoveAt(addresses, k) \in Seq(Row)
      /\ RowTotal(RemoveAt(addresses, k)) = RowTotal(addresses) - balance
  BY <1>1, <1>4, RowErased
<1> DEFINE back == Floating(balance)
<1>7. stake = balance - back /\ back \in Nat
  BY <1>5
<1> HIDE DEF stake, balance, back
<1>8. RamInv' /\ LimitsCoverQuota' /\ Money(Db)' = Money(d)
  <2>1. Commit(d)
    BY <1>2 DEF Change
  <2>2. LimitsCoverQuota'
    BY <1>2, <2>1, CommittedCovers
  <2>3. QED  BY <1>1, <1>2, <2>1, <2>2, ChangeKeepsInv, CommittedMoney
<1>9. Accounted'
  <2>1. RowTotal(addresses)' = RowTotal(RemoveAt(addresses, k))
    BY <1>3 DEF RowTotal
  <2>2. RowTotal(addresses) \in Int
    BY <1>1, RowTotalType
  <2>3. QED  BY <1>1, <1>3, <1>5, <1>6, <2>1, <2>2 DEF Accounted, UnregInv
<1>10. /\ staked' \in [Accounts -> Nat] /\ AccountTotal(staked, N) \in Nat
       /\ AccountTotal(staked', N) = AccountTotal(staked, N) + stake
  <2> DEFINE v == staked[a] + stake
  <2>1. v \in Nat /\ staked[a] \in Nat /\ stake \in Int
    BY <1>1, <1>3, <1>5, <1>7
  <2>2. staked' = [staked EXCEPT ![a] = v]
    BY <1>3
  <2>3. /\ staked' \in [Accounts -> Nat] /\ staked'[a] = v /\ v = staked[a] + stake
        /\ \A x \in Accounts : x # a => staked'[x] = staked[x]
    BY <1>1, <2>1, <2>2
  <2> HIDE DEF v
  <2>4. /\ AccountTotal(staked, N) \in Nat
        /\ AccountTotal(staked', N) = AccountTotal(staked, N) - staked[a] + staked'[a]
    BY <1>1, <2>3, LiquidTouched
  <2>5. QED  BY <2>1, <2>3, <2>4
<1>11. Backed'
  <2>1. Money(Db) \in Int
    BY <1>1, MoneyIsInt DEF RamInv, Sound
  <2>2. Money(d) = Money(Db) - balance + back
    BY <1>2 DEF back
  <2>3. Money(Db) + AccountTotal(staked, N) = Tokens * Cardinality(Existing)
    BY DEF UnregInv, Backed
  <2>4. Money(Db)' + AccountTotal(staked', N) = Money(Db) + AccountTotal(staked, N)
    BY <1>5, <1>7, <1>8, <1>10, <2>1, <2>2
  <2>5. Money(Db)' + AccountTotal(staked', N) = Tokens * Cardinality(Existing)
    BY <2>3, <2>4
  <2>6. QED  BY <2>5 DEF Backed
<1>12. Registry'
  BY <1>1, <1>3, <1>5, <1>6, <1>10 DEF Registry
<1>13. QED  BY <1>8, <1>9, <1>11, <1>12 DEF UnregInv

THEOREM UnregInvHolds == USpec => []UnregInv
<1>1. UInit => UnregInv
  BY UnregInvInit
<1>2. UnregInv /\ [UNext]_<<ramVars, unregdVars>> => UnregInv'
  <2>1. SUFFICES ASSUME UnregInv, [UNext]_<<ramVars, unregdVars>> PROVE UnregInv'
    OBVIOUS
  <2>2. CASE RamNext /\ UNCHANGED unregdVars
    BY <2>1, <2>2, MarketStep
  <2>3. CASE \E addr \in Addresses :
               \/ \E balance \in Amounts : Add(addr, balance)
               \/ \E new \in Addresses : ChngAddress(addr, new)
               \/ \E a \in Accounts : RegAccount(addr, a)
    BY <2>1, <2>3, AddStep, ChngAddressStep, RegistrationStep
  <2>4. CASE \/ \E max \in MaxCeles : SetMaxCeles(max)
             \/ UNCHANGED <<ramVars, unregdVars>>
    <3>1. UNCHANGED <<ramVars, addresses, staked, promised, granted>>
      BY <2>4 DEF SetMaxCeles, unregdVars
    <3>2. RamInv' /\ LimitsCoverQuota' /\ Money(Db)' = Money(Db) /\ exists' = exists
      BY <2>1, <3>1, MarketLeftAlone DEF UnregInv, ramVars
    <3>3. QED  BY <2>1, <3>1, <3>2 DEF UnregInv, Registry, Accounted, Backed, RowTotal
  <2>5. QED  BY <2>1, <2>2, <2>3, <2>4 DEF UNext
<1>3. QED  BY <1>1, <1>2, PTL DEF USpec

(* Whatever addresses are changed and put twice, celes.unregd grants what  *)
(* was promised and no more, and no registration makes or loses a token.   *)
THEOREM GrantsStayAddedUp == USpec => []GrantsAddUp
<1>1. ASSUME UnregInv PROVE GrantsAddUp
  <2>1. AccountTotal(liquid, N) \in Int /\ held \in Int /\ fees \in Int
    BY DbParts, DbFields, LiquidTotal, <1>1 DEF UnregInv, RamInv, Sound
  <2>2. AccountTotal(staked, N) \in Int
    BY LiquidTotal, <1>1 DEF UnregInv, Registry
  <2>3. AccountTotal(liquid, N) + held + fees + AccountTotal(staked, N)
          = Tokens * Cardinality(Existing)
    BY <1>1, DbFields DEF UnregInv, Backed, Money
  <2>4. promised = granted + AccountTotal([i \in DOMAIN addresses |-> addresses[i].balance],
                                          Len(addresses))
    BY <1>1 DEF UnregInv, Accounted, RowTotal
  <2>5. QED  BY <2>1, <2>2, <2>3, <2>4 DEF GrantsAddUp
<1>2. QED  BY <1>1, UnregInvHolds, PTL

(* Registrations create accounts, buy them RAM and stake for them in one   *)
(* transaction: that breaks nothing of what the market keeps by itself.    *)
THEOREM RegistrationKeepsMarket ==
  USpec => /\ [](RamTypeOK /\ RamAddsUp /\ SalesAreCovered /\ LimitsCoverQuota)
           /\ ProductNeverFalls
<1>1. UnregInv => RamTypeOK /\ RamAddsUp /\ SalesAreCovered /\ LimitsCoverQuota
  BY RamInvImplies DEF UnregInv
<1>2. UnregInv /\ [UNext]_<<ramVars, unregdVars>>
        => [market'.base * market'.quote >= market.base * market.quote]_market
  <2>1. SUFFICES ASSUME UnregInv, UNext, market' # market
                 PROVE  market'.base * market'.quote >= market.base * market.quote
    BY DEF ramVars
  <2>2. RamInv /\ LimitsCoverQuota /\ Existing \subseteq exists /\ addresses \in Seq(Row)
    BY <2>1 DEF UnregInv, Registry
  <2>3. RamNext \/ \E addr \in Addresses, a \in Accounts : RegAccount(addr, a)
    BY <2>1 DEF UNext, Add, ChngAddress, SetMaxCeles, ramVars
  <2>4. \E d : Change(d)
    BY <2>2, <2>3, RamNextChanges, RegAccountStep
  <2>5. QED  BY <2>2, <2>4, ChangeKeepsInv
<1>3. QED  BY <1>1, <1>2, UnregInvHolds, PTL DEF USpec, ProductNeverFalls

=============================================================================
