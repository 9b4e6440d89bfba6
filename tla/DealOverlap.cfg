\* Two requests at a time over three deals and two stages, every operation.
SPECIFICATION Spec
CONSTANTS
    Deals = {1, 2, 3}
    Stages = {open, won}
    Won = {won}
    Lost = {}
    Requests = {r1, r2}
    Kinds = {"create", "patch", "move", "archive", "unarchive", "delete"}
    Nobody = Nobody
    Overlap = TRUE
PROPERTIES
    NeighboursKept
SYMMETRY Symmetry
