\* The comment of unbind, against nodes that register again on every connection.
SPECIFICATION Spec
CONSTANTS
    S = S
    a = a
    b = b
    Sx = Sx
    Sp = Sp
    Sk = Sk
    ax = ax
    ay = ay
    bx = bx
    bax = bax
    x = x
    y = y
    g = g
    Node = {S, a, b}
    Spore = S
    Name = {Sx, Sp, Sk, ax, ay, bx, bax}
    Key = {Sx, Sp, Sk, ax, ay, bx, bax, x, y, g}
    KeysOf <- MCKeysOf
    Manifests <- MCManifests
    Caller = {c1, c2}
    MaxClaims = 2
    None = None
INVARIANT PromotedWhenAlone
