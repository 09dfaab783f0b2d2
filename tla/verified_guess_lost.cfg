CONSTANTS
    Segments = {s1, s2}
    Phones = {p1, p2}
    Branded = {p1}
SPECIFICATION WirelessSpec
PROPERTIES
    VerifiedIsLeftAlone
