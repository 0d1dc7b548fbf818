SPECIFICATION Spec
CONSTANTS
    Conns = {k1, k2}
    Tasks = {t1}
    MaxBusy = 2
    None = None
INVARIANTS LoadingIsOneRequest LikeSettles
PROPERTIES DeletionStays ButtonsComeBack
