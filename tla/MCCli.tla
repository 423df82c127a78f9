-------------------------------- MODULE MCCli -------------------------------
EXTENDS Cli, Cartes

MCMaps == Toutes(1, 1, Terrains, {Coin}, {0}, {<<>>, <<Coin>>})
            \cup Toutes(3, 1, {Plain, Forest}, {}, {}, UnFoyer) \cup Anneau
MCOptions ==
  [Turns : {-1, 0, 1, 2, 4, 9}, Render : BOOLEAN, Snapshot : BOOLEAN,
   SnapshotEvery : {-2, 0, 1, 2, 3}]
MCNames == {"naive"}
MCFlags ==
  [list : BOOLEAN, impl : {"naive", "parallel"}, turns : {-1, 2, 9}, render : BOOLEAN,
   cpuProfile : BOOLEAN, memProfile : BOOLEAN, quiet : BOOLEAN]
=============================================================================
