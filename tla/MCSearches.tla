------------------------------ MODULE MCSearches ------------------------------
(***************************************************************************)
(* Sales and requests for TLC's instance of SalesSearch: one of the things  *)
(* that a sale can differ in at a time, and two values of most parameters,  *)
(* one of them true of most sales.                                          *)
(***************************************************************************)
EXTENDS Integers, FiniteSets, FiniteSetsExt

SearchSword == [id |-> "sword", collection |-> "heroes", schema |-> "arms", transferable |-> "no", burnable |-> "yes",
          immutable |-> [name |-> "excalibur", rarity |-> "rare"], mutable |-> <<>>]
SearchShield == [id |-> "shield", collection |-> "heroes", schema |-> "armour", transferable |-> "yes", burnable |-> "no",
           immutable |-> [rarity |-> "common"], mutable |-> [name |-> "aegis"]]
SearchCard == [id |-> "card", collection |-> "cards", schema |-> "arms", transferable |-> "yes", burnable |-> "yes",
         immutable |-> [name |-> "excalibur"], mutable |-> <<>>]
SearchTemplates == {SearchSword, SearchShield, SearchCard}
SearchOthers == {[owner |-> "collector", template |-> "sword"]}
SearchPrecision == [WAX |-> 1]

SearchAsset(id, template, schema) ==
  [id |-> id, owner |-> "alice", template |-> template, schema |-> schema, mint |-> 0,
   original |-> 0, immutable |-> <<>>, mutable |-> <<>>]
SearchBlade == [SearchAsset(1, "sword", "arms") EXCEPT !.mint = 2]
SearchAssets ==
  {SearchBlade, [SearchBlade EXCEPT !.owner = "null"], [SearchBlade EXCEPT !.original = 5], [SearchBlade EXCEPT !.mint = 0],
   [SearchBlade EXCEPT !.immutable = [level |-> "1"], !.mutable = [level |-> "2", state |-> "worn"]],
   [SearchAsset(2, "shield", "armour") EXCEPT !.mint = 3, !.immutable = [level |-> "1"], !.mutable = [state |-> "worn"]],
   [SearchAsset(3, "null", "arms") EXCEPT !.immutable = [name |-> "excalibur"]],
   [SearchAsset(3, "null", "arms") EXCEPT !.mutable = [name |-> "aegis"], !.original = 2]}
SearchSale(assets) ==
  [seller |-> "alice", buyer |-> "null", state |-> "LISTED", offer |-> "PENDING",
   collection |-> "heroes", symbol |-> "WAX", price |-> 20, maker |-> "m1", taker |-> "null",
   assets |-> assets,
   mint |-> LET ms == {a.mint : a \in assets} \ {0}
            IN IF ms = {} THEN [low |-> 1, high |-> 0] ELSE [low |-> Min(ms), high |-> Max(ms)]]
SearchBase == SearchSale({SearchBlade})
SearchSales ==
  {SearchSale({a}) : a \in SearchAssets}
  \cup {SearchSale({SearchBlade, SearchAsset(2, "shield", "armour")}),
        SearchSale({[SearchBlade EXCEPT !.original = 1], [SearchAsset(2, "shield", "armour") EXCEPT !.mint = 4]})}
  \cup {[SearchBase EXCEPT !.buyer = "bob", !.state = "SOLD", !.offer = "ACCEPTED", !.taker = "m2"],
        [SearchBase EXCEPT !.offer = "INVALID"], [SearchBase EXCEPT !.state = "CANCELED"],
        [SearchBase EXCEPT !.state = "WAITING"], [SearchBase EXCEPT !.state = "WAITING", !.offer = "null"],
        [SearchBase EXCEPT !.seller = "contract"], [SearchBase EXCEPT !.mint = [low |-> 0, high |-> 0]],
        [SearchBase EXCEPT !.symbol = "USD", !.price = 5],
        [SearchSale({[SearchAsset(4, "card", "arms") EXCEPT !.mint = 1]}) EXCEPT !.collection = "cards"]}

OneOrTwo(x, y) == {{x}, {x, y}}
SearchValues ==
  [account |-> OneOrTwo("bob", "alice"), seller |-> OneOrTwo("bob", "alice"), buyer |-> {{"bob"}},
   seller_blacklist |-> OneOrTwo("bob", "alice"), buyer_blacklist |-> {{"bob"}},
   collection_name |-> OneOrTwo("heroes", "cards"), collection_whitelist |-> OneOrTwo("heroes", "cards"),
   collection_blacklist |-> OneOrTwo("heroes", "cards"),
   owner |-> OneOrTwo("bob", "alice"), burned |-> BOOLEAN,
   template_id |-> {{"sword"}, {"card", "shield"}, {"null"}},
   schema_name |-> OneOrTwo("armour", "arms"), template_blacklist |-> OneOrTwo("shield", "sword"),
   is_transferable |-> BOOLEAN, is_burnable |-> BOOLEAN, asset_id |-> {{1}, {2, 3}},
   search |-> {"excalibur", "aegis"}, match |-> {"excalibur", "aegis"},
   match_immutable_name |-> {"excalibur"}, match_mutable_name |-> {"aegis"},
   data |-> {<<"rarity", "rare">>, <<"name", "excalibur">>}, template_data |-> {<<"rarity", "common">>},
   immutable_data |-> {<<"level", "1">>}, mutable_data |-> {<<"level", "2">>, <<"state", "worn">>},
   show_seller_contracts |-> BOOLEAN, contract_whitelist |-> {{"contract"}},
   marketplace |-> {{"m2"}}, maker_marketplace |-> {{"m1"}, {"m2"}}, taker_marketplace |-> {{"m2"}},
   min_template_mint |-> {1, 3}, max_template_mint |-> {2},
   min_effective_mint |-> {2, 4}, max_effective_mint |-> {2, 4},
   min_assets |-> {2}, max_assets |-> {1}, symbol |-> {{"WAX"}, {"WAX", "USD"}},
   min_price |-> {3}, max_price |-> {2}, state |-> {{"LISTED"}, {"SOLD", "INVALID"}, {"WAITING"}},
   sort |-> {"effective_mint", "template_mint"}, hide_templates_by_accounts |-> {{"collector"}}]
===============================================================================
